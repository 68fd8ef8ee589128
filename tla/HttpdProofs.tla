---------------------------- MODULE HttpdProofs ----------------------------
(***************************************************************************)
(* Invariants of Httpd, for any number of clients and descriptors and any  *)
(* limits.                                                                 *)
(***************************************************************************)
EXTENDS Httpd, TLAPS

USE DEF Roles

(* A line that could not be read makes a request, too.                     *)
LEMMA NoRequestType == NoRequest \in Request
BY DEF NoRequest, Request, Files

(* What a local variable denotes is an open file, or it is closed.         *)
LEMMA AtType == ASSUME TypeOK, NEW c \in Clients, NEW r \in Roles
                PROVE  At(c, r) \in Objects \cup {Closed}
BY DEF TypeOK, At

(* Closing some numbers leaves a descriptor table.                         *)
LEMMA CloseInType == ASSUME TypeOK, NEW c \in Clients, NEW R
                     PROVE  CloseIn(fd, c, R) \in [FDs -> Objects \cup {Closed}]
BY DEF TypeOK, CloseIn

(* Whatever is written to whatever number, clients receive pieces, each    *)
(* with the thread that sent it.                                           *)
LEMMA ReceivesType ==
  ASSUME TypeOK, NEW o, NEW c \in Clients,
         NEW w \in {"200", "400", "404", "500", "page", "output", "body"},
         Receives(o, c, w)
  PROVE  got' \in [Clients -> Seq(Piece)]
<1> DEFINE p == [by |-> c, what |-> w]
<1>1. p \in Piece
  BY DEF Piece
<1>2. \A d \in Clients : got[d] \in Seq(Piece) /\ Append(got[d], p) \in Seq(Piece)
  BY <1>1 DEF TypeOK
<1> QED
  BY <1>2 DEF Receives

(* A thread goes from label to label.                                      *)
LEMMA GotoType == ASSUME TypeOK, NEW c \in Clients, NEW l \in Labels, Goto(c, l)
                  PROVE  pc' \in [Clients -> Labels]
BY DEF TypeOK, Goto

(* pipe() takes two numbers of the table and remembers both.               *)
LEMMA PipeType ==
  ASSUME TypeOK, NEW c \in Clients, NEW r \in Roles, NEW w \in Roles, NEW l,
         MakePipe(c, r, w, l)
  PROVE  /\ fd' \in [FDs -> Objects \cup {Closed}]
         /\ loc' \in [Clients -> [Roles -> FDs \cup {NoFd}]]
<1>1. PICK m \in FDs, n \in FDs :
        /\ fd' = [fd EXCEPT ![m] = Obj(r, c), ![n] = Obj(w, c)]
        /\ loc' = [loc EXCEPT ![c][r] = m, ![c][w] = n]
  BY DEF MakePipe
<1>2. Obj(r, c) \in Objects /\ Obj(w, c) \in Objects
  BY DEF Obj, Objects
<1>3. fd' \in [FDs -> Objects \cup {Closed}]
  BY <1>1, <1>2 DEF TypeOK
<1>4. loc' \in [Clients -> [Roles -> FDs \cup {NoFd}]]
  BY <1>1 DEF TypeOK
<1> QED
  BY <1>3, <1>4

(* Taking a piece out of a receive buffer leaves pieces.                   *)
LEMMA UnreadType == ASSUME TypeOK, NEW d \in Clients, NEW p,
                           unread' = [unread EXCEPT ![d] = @ \ {p}]
                    PROVE  unread' \in [Clients -> SUBSET {"head", "rest", "body"}]
BY DEF TypeOK

(* An open file belongs to some client's connection.                       *)
LEMMA SocketOf == ASSUME TypeOK, NEW c \in Clients, NEW r \in Roles, At(c, r).kind \in Roles
                  PROVE  At(c, r).of \in Clients
BY AtType DEF Objects, Closed

(* Whatever stat() finds, accept_request goes on at one of its labels.     *)
LEMMA RouteType == ASSUME NEW r \in Request PROVE Route(r) \in Labels
BY DEF Route, Labels, ErrorExits

(* Type correctness of the server: whatever clients send and however many  *)
(* they are, every variable keeps its type; a number in a local variable of *)
(* a thread is one of the table's or none.                                 *)
THEOREM Typing == Spec => []TypeOK
<1>1. Init => TypeOK
  BY NoRequestType DEF Init, TypeOK, Labels
<1>2. TypeOK /\ [Next]_vars => TypeOK'
  <2> SUFFICES ASSUME TypeOK, [Next]_vars PROVE TypeOK'
    OBVIOUS
  <2>1. ASSUME NEW c \in Clients, Connect(c) PROVE TypeOK'
    BY <2>1 DEF TypeOK, Connect, threads, children
  <2>2. ASSUME NEW c \in Clients, SendHead(c) PROVE TypeOK'
    BY <2>2, RequestsAssumption DEF TypeOK, SendHead, threads, children
  <2>3. ASSUME NEW c \in Clients, SendBody(c) PROVE TypeOK'
    BY <2>3 DEF TypeOK, SendBody, threads, children
  <2>4. ASSUME NEW c \in Clients, Leave(c) PROVE TypeOK'
    BY <2>4 DEF TypeOK, Leave, threads, children
  <2>5. CASE Accept
    <3>0. queue # <<>> => Head(queue) \in Clients /\ Tail(queue) \in Seq(Clients)
      BY DEF TypeOK
    <3>1. PICK c \in Clients, n \in FDs, l \in {"request", "orphan"} :
            /\ queue # <<>> /\ queue' = Tail(queue)
            /\ fd' = [fd EXCEPT ![n] = Obj("sock", c)]
            /\ loc' = [loc EXCEPT ![c]["sock"] = n]
            /\ Goto(c, l)
            /\ UNCHANGED <<up, job, children, clients>>
      BY <2>5, <3>0 DEF Accept
    <3>2. pc' \in [Clients -> Labels]
      BY <3>1, GotoType DEF Labels
    <3>3. fd' \in [FDs -> Objects \cup {Closed}]
      BY <3>1 DEF TypeOK, Obj, Objects
    <3> QED
      BY <3>0, <3>1, <3>2, <3>3 DEF TypeOK, children, clients
  <2>6. ASSUME NEW c \in Clients, ReadRequest(c) PROVE TypeOK'
    <3>1. At(c, "sock").kind = "sock" => At(c, "sock").of \in Clients
      BY SocketOf
    <3>2. job' \in [Clients -> Request]
      <4>1. PICK r \in Request : job' = [job EXCEPT ![c] = r]
        BY <2>6, <3>1, NoRequestType DEF TypeOK, ReadRequest
      <4> QED
        BY <4>1 DEF TypeOK
    <3>3. unread' \in [Clients -> SUBSET {"head", "rest", "body"}]
      <4>1. \A r : Leaves(r) \subseteq {"head", "rest", "body"}
        BY DEF Leaves
      <4>2. CASE UNCHANGED unread
        BY <4>2 DEF TypeOK
      <4>3. ASSUME NEW d \in Clients, NEW r,
                   unread' = [unread EXCEPT ![d] = (@ \ {"head"}) \cup Leaves(r)]
            PROVE  unread' \in [Clients -> SUBSET {"head", "rest", "body"}]
        BY <4>1, <4>3 DEF TypeOK
      <4> QED
        BY <2>6, <3>1, <4>2, <4>3 DEF ReadRequest
    <3>4. pc' \in [Clients -> Labels]
      BY <2>6, <3>1, RouteType, NoRequestType, GotoType DEF TypeOK, ReadRequest
    <3> QED
      BY <2>6, <3>2, <3>3, <3>4 DEF TypeOK, ReadRequest, children
  <2>7. ASSUME NEW c \in Clients, EchoError(c) PROVE TypeOK'
    <3>1. ErrorExits[pc[c]].code \in {"400", "404", "500"} /\ ErrorExits[pc[c]].next \in Labels
      BY <2>7 DEF EchoError, ErrorExits, Labels
    <3>2. pc' \in [Clients -> Labels]
      BY <2>7, <3>1, GotoType DEF EchoError
    <3>3. got' \in [Clients -> Seq(Piece)]
      BY <2>7, <3>1, ReceivesType DEF EchoError, Send
    <3> QED
      BY <2>7, <3>2, <3>3 DEF TypeOK, EchoError, children
  <2>8. ASSUME NEW c \in Clients, EchoClose(c) PROVE TypeOK'
    BY <2>8, CloseInType DEF TypeOK, EchoClose, AfterEcho, Goto, Labels, children, clients
  <2>9. ASSUME NEW c \in Clients, CloseConnection(c) PROVE TypeOK'
    BY <2>9, CloseInType DEF TypeOK, CloseConnection, Goto, Labels, children, clients
  <2>10. ASSUME NEW c \in Clients, OpenFile(c) PROVE TypeOK'
    <3>1. pc' \in [Clients -> Labels]
      BY <2>10, GotoType DEF OpenFile, Labels
    <3>2. fd' \in [FDs -> Objects \cup {Closed}] /\ loc' \in [Clients -> [Roles -> FDs \cup {NoFd}]]
      <4>1. CASE UNCHANGED <<fd, loc>>
        BY <4>1 DEF TypeOK
      <4>2. ASSUME NEW n \in FDs, fd' = [fd EXCEPT ![n] = Obj("file", c)],
                   loc' = [loc EXCEPT ![c]["file"] = n]
            PROVE  /\ fd' \in [FDs -> Objects \cup {Closed}]
                   /\ loc' \in [Clients -> [Roles -> FDs \cup {NoFd}]]
        BY <4>2 DEF TypeOK, Obj, Objects
      <4> QED
        BY <2>10, <4>1, <4>2 DEF OpenFile
    <3> QED
      BY <2>10, <3>1, <3>2 DEF TypeOK, OpenFile, children, clients
  <2>11. ASSUME NEW c \in Clients, HtmlHead(c) PROVE TypeOK'
    BY <2>11, ReceivesType DEF TypeOK, HtmlHead, Send, Goto, Labels, children
  <2>12. ASSUME NEW c \in Clients, SendFile(c) PROVE TypeOK'
    <3>1. pc' \in [Clients -> Labels]
      BY <2>12, GotoType DEF SendFile, Labels
    <3>2. got' \in [Clients -> Seq(Piece)]
      BY <2>12, ReceivesType DEF TypeOK, SendFile, Write
    <3>3. fd' \in [FDs -> Objects \cup {Closed}]
      BY <2>12, CloseInType DEF TypeOK, SendFile
    <3> QED
      BY <2>12, <3>1, <3>2, <3>3 DEF TypeOK, SendFile, Write
  <2>13. ASSUME NEW c \in Clients, CloseFile(c) PROVE TypeOK'
    BY <2>13, CloseInType DEF TypeOK, CloseFile, Goto, Labels, children, clients
  <2>14. ASSUME NEW c \in Clients, CgiHead(c) PROVE TypeOK'
    BY <2>14, ReceivesType DEF TypeOK, CgiHead, Send, Goto, Labels, ErrorExits, children
  <2>15. ASSUME NEW c \in Clients, PipeIn(c) PROVE TypeOK'
    <3>1. pc' \in [Clients -> Labels]
      BY <2>15, GotoType DEF PipeIn, MakePipe, PipeFails, Labels
    <3>2. fd' \in [FDs -> Objects \cup {Closed}] /\ loc' \in [Clients -> [Roles -> FDs \cup {NoFd}]]
      BY <2>15, PipeType DEF TypeOK, PipeIn, PipeFails
    <3> QED
      BY <2>15, <3>1, <3>2 DEF TypeOK, PipeIn, children, clients
  <2>16. ASSUME NEW c \in Clients, PipeOut(c) PROVE TypeOK'
    <3>1. pc' \in [Clients -> Labels]
      BY <2>16, GotoType DEF PipeOut, MakePipe, PipeFails, Labels
    <3>2. fd' \in [FDs -> Objects \cup {Closed}] /\ loc' \in [Clients -> [Roles -> FDs \cup {NoFd}]]
      BY <2>16, PipeType DEF TypeOK, PipeOut, PipeFails
    <3> QED
      BY <2>16, <3>1, <3>2 DEF TypeOK, PipeOut, children, clients
  <2>17. ASSUME NEW c \in Clients, DropIn(c) PROVE TypeOK'
    BY <2>17, CloseInType DEF TypeOK, DropIn, Goto, Labels, children, clients
  <2>18. ASSUME NEW c \in Clients, Fork(c) PROVE TypeOK'
    <3>1. pc' \in [Clients -> Labels]
      BY <2>18, GotoType DEF Fork, Labels
    <3>2. fd' \in [FDs -> Objects \cup {Closed}]
      BY <2>18, CloseInType DEF TypeOK, Fork
    <3>3. \A n \in FDs \ Free : fd[n] \in Objects
      BY DEF TypeOK, Free
    <3>4. inherited' \in [Clients -> SUBSET Objects]
      <4>1. Copied(c) \subseteq Objects
        BY <3>3 DEF Copied
      <4>2. inherited' = inherited \/ inherited' = [inherited EXCEPT ![c] = Copied(c)]
        BY <2>18 DEF Fork
      <4>3. inherited \in [Clients -> SUBSET Objects]
        BY DEF TypeOK
      <4> QED
        BY <4>1, <4>2, <4>3
    <3>5. child' \in [Clients -> {"none", "running", "zombie", "reaped"}]
      BY <2>18 DEF TypeOK, Fork
    <3> QED
      BY <2>18, <3>1, <3>2, <3>4, <3>5 DEF TypeOK, Fork, clients
  <2>19. ASSUME NEW c \in Clients, ParentCloses(c) PROVE TypeOK'
    BY <2>19, CloseInType DEF TypeOK, ParentCloses, Goto, Labels, children, clients
  <2>20. ASSUME NEW c \in Clients, Feed(c) PROVE TypeOK'
    <3>1. pc' \in [Clients -> Labels]
      BY <2>20, GotoType DEF Feed, Labels
    <3>2. got' \in [Clients -> Seq(Piece)]
      BY <2>20, ReceivesType DEF TypeOK, Feed, Write
    <3>3. unread' \in [Clients -> SUBSET {"head", "rest", "body"}]
      BY <2>20, SocketOf, UnreadType DEF TypeOK, Feed
    <3> QED
      BY <2>20, <3>1, <3>2, <3>3 DEF TypeOK, Feed, Write
  <2>21. ASSUME NEW c \in Clients, Relay(c) PROVE TypeOK'
    <3>1. pc' \in [Clients -> Labels]
      BY <2>21, GotoType DEF TypeOK, Relay, Labels
    <3>2. got' \in [Clients -> Seq(Piece)]
      BY <2>21, ReceivesType DEF Relay, Send
    <3>3. unread' \in [Clients -> SUBSET {"head", "rest", "body"}]
      BY <2>21, SocketOf, UnreadType DEF TypeOK, Relay
    <3>4. fed' \in [Clients -> BOOLEAN] /\ out' \in [Clients -> BOOLEAN]
      BY <2>21, AtType DEF TypeOK, Relay, Objects
    <3> QED
      BY <2>21, <3>1, <3>2, <3>3, <3>4 DEF TypeOK, Relay
  <2>22. ASSUME NEW c \in Clients, RelayEnds(c) PROVE TypeOK'
    BY <2>22 DEF TypeOK, RelayEnds, Goto, Labels, children, clients
  <2>23. ASSUME NEW c \in Clients, ClosePipes(c) PROVE TypeOK'
    BY <2>23, CloseInType DEF TypeOK, ClosePipes, Goto, Labels, children, clients
  <2>24. ASSUME NEW c \in Clients, WaitChild(c) PROVE TypeOK'
    BY <2>24 DEF TypeOK, WaitChild, Goto, Labels, clients
  <2>25. ASSUME NEW c \in Clients, ChildRuns(c) PROVE TypeOK'
    BY <2>25 DEF TypeOK, ChildRuns, threads, clients
  <2>26. ASSUME NEW c \in Clients, BrokenPipe(c) PROVE TypeOK'
    BY <2>26 DEF TypeOK, BrokenPipe, threads, children, clients
  <2>27. CASE UNCHANGED vars
    BY <2>27 DEF TypeOK, vars, threads, children, clients
  <2> QED
    BY <2>1, <2>2, <2>3, <2>4, <2>5, <2>6, <2>7, <2>8, <2>9, <2>10, <2>11, <2>12, <2>13,
       <2>14, <2>15, <2>16, <2>17, <2>18, <2>19, <2>20, <2>21, <2>22, <2>23, <2>24, <2>25,
       <2>26, <2>27 DEF Next, ThreadStep, AcceptFails, Quiet
<1> QED
  BY <1>1, <1>2, PTL DEF Spec
-----------------------------------------------------------------------------
(***************************************************************************)
(* The descriptor table.  Accounting by itself is not inductive: a handler *)
(* thread must not be started for a connection that already had one.       *)
(***************************************************************************)
Fresh ==
  /\ \A i \in DOMAIN queue : pc[queue[i]] = "none" /\ stage[queue[i]] # "away"
  /\ \A i, j \in DOMAIN queue : queue[i] = queue[j] => i = j
  /\ \A c \in Clients : stage[c] = "away" => pc[c] = "none"

(* Moving from one call to the next keeps what is held. *)
LEMMA MoveKeeps ==
  ASSUME TypeOK, HoldsOwn, NoStray, NEW c \in Clients, NEW l, Goto(c, l),
         UNCHANGED <<fd, loc>>,
         \A r \in Roles : l \in HeldAt[r] <=> pc[c] \in HeldAt[r]
  PROVE  HoldsOwn' /\ NoStray'
<1>1. \A d \in Clients, r \in Roles : Holds(d, r)' <=> Holds(d, r)
  BY DEF TypeOK, Goto, Holds
<1> QED
  BY <1>1 DEF HoldsOwn, NoStray

(* Closing what is held, and giving it up, keeps the accounts: another      *)
(* thread's number is another number, since it denotes another object.     *)
LEMMA CloseKeeps ==
  ASSUME TypeOK, HoldsOwn, NoStray, NEW c \in Clients, NEW l, Goto(c, l),
         NEW R \in SUBSET Roles, fd' = CloseIn(fd, c, R), loc' = loc,
         \A r \in R : Holds(c, r),
         \A r \in Roles : l \in HeldAt[r] <=> pc[c] \in HeldAt[r] /\ r \notin R
  PROVE  HoldsOwn' /\ NoStray'
<1>1. \A d \in Clients, r \in Roles :
        Holds(d, r)' <=> Holds(d, r) /\ ~(d = c /\ r \in R)
  BY DEF TypeOK, Goto, Holds
<1>2. \A n \in FDs : fd'[n] = IF \E r \in R : loc[c][r] = n THEN Closed ELSE fd[n]
  BY DEF CloseIn
<1>3. HoldsOwn'
  <2> SUFFICES ASSUME NEW d \in Clients, NEW r \in Roles, Holds(d, r)'
               PROVE  loc[d][r] \in FDs /\ fd'[loc[d][r]] = Obj(r, d)
    BY DEF HoldsOwn
  <2>1. loc[d][r] \in FDs /\ fd[loc[d][r]] = Obj(r, d) /\ ~(d = c /\ r \in R)
    BY <1>1 DEF HoldsOwn
  <2>2. ASSUME NEW q \in R PROVE loc[c][q] # loc[d][r]
    <3>1. fd[loc[c][q]] = Obj(q, c)
      BY DEF HoldsOwn
    <3>2. Obj(q, c) # Obj(r, d)
      BY <2>1 DEF Obj
    <3> QED
      BY <2>1, <3>1, <3>2
  <2> QED
    BY <1>2, <2>1, <2>2
<1>4. NoStray'
  <2> SUFFICES ASSUME NEW n \in FDs, fd'[n] # Closed
               PROVE  \E d \in Clients, r \in Roles : Holds(d, r)' /\ loc[d][r] = n
    BY DEF NoStray
  <2>1. fd[n] # Closed /\ \A r \in R : loc[c][r] # n
    BY <1>2
  <2>2. PICK d \in Clients, r \in Roles : Holds(d, r) /\ loc[d][r] = n
    BY <2>1 DEF NoStray
  <2> QED
    BY <1>1, <2>1, <2>2
<1> QED
  BY <1>3, <1>4

(* One free number taken and remembered: accept() and open(). *)
LEMMA TakeKeeps ==
  ASSUME TypeOK, HoldsOwn, NoStray, NEW c \in Clients, NEW l, Goto(c, l),
         NEW q \in Roles, NEW n \in Free, ~Holds(c, q),
         fd' = [fd EXCEPT ![n] = Obj(q, c)], loc' = [loc EXCEPT ![c][q] = n],
         \A r \in Roles : l \in HeldAt[r] <=> pc[c] \in HeldAt[r] \/ r = q
  PROVE  HoldsOwn' /\ NoStray'
<1>1. \A d \in Clients, r \in Roles :
        Holds(d, r)' <=> Holds(d, r) \/ (d = c /\ r = q)
  BY DEF TypeOK, Goto, Holds
<1>2. \A d \in Clients, r \in Roles :
        loc'[d][r] = IF d = c /\ r = q THEN n ELSE loc[d][r]
  BY DEF TypeOK
<1>3. n \in FDs /\ fd[n] = Closed /\ \A m \in FDs : fd'[m] = IF m = n THEN Obj(q, c) ELSE fd[m]
  BY DEF TypeOK, Free
<1>4. HoldsOwn'
  <2> SUFFICES ASSUME NEW d \in Clients, NEW r \in Roles, Holds(d, r)'
               PROVE  loc'[d][r] \in FDs /\ fd'[loc'[d][r]] = Obj(r, d)
    BY DEF HoldsOwn
  <2>1. CASE d = c /\ r = q
    BY <1>2, <1>3, <2>1
  <2>2. CASE ~(d = c /\ r = q)
    <3>1. loc[d][r] \in FDs /\ fd[loc[d][r]] = Obj(r, d)
      BY <1>1, <2>2 DEF HoldsOwn
    <3>2. Obj(r, d) # Closed
      BY <3>1 DEF Obj, Closed
    <3> QED
      BY <1>2, <1>3, <2>2, <3>1, <3>2
  <2> QED
    BY <2>1, <2>2
<1>5. NoStray'
  <2> SUFFICES ASSUME NEW m \in FDs, fd'[m] # Closed
               PROVE  \E d \in Clients, r \in Roles : Holds(d, r)' /\ loc'[d][r] = m
    BY DEF NoStray
  <2>1. CASE m = n
    BY <1>1, <1>2, <2>1
  <2>2. CASE m # n
    <3>1. PICK d \in Clients, r \in Roles : Holds(d, r) /\ loc[d][r] = m
      BY <1>3, <2>2 DEF NoStray
    <3> QED
      BY <1>1, <1>2, <3>1
  <2> QED
    BY <2>1, <2>2
<1> QED
  BY <1>4, <1>5

(* Two free numbers: pipe(). *)
LEMMA PipeKeeps ==
  ASSUME TypeOK, HoldsOwn, NoStray, NEW c \in Clients, NEW l,
         NEW a \in Roles, NEW b \in Roles, a # b, ~Holds(c, a), ~Holds(c, b),
         MakePipe(c, a, b, l),
         \A r \in Roles : l \in HeldAt[r] <=> pc[c] \in HeldAt[r] \/ r \in {a, b}
  PROVE  HoldsOwn' /\ NoStray'
<1>1. PICK m \in Free, n \in Free :
        /\ m # n
        /\ fd' = [fd EXCEPT ![m] = Obj(a, c), ![n] = Obj(b, c)]
        /\ loc' = [loc EXCEPT ![c][a] = m, ![c][b] = n]
  BY DEF MakePipe, LowestIn
<1>2. \A d \in Clients, r \in Roles :
        Holds(d, r)' <=> Holds(d, r) \/ (d = c /\ r \in {a, b})
  BY DEF TypeOK, Goto, Holds, MakePipe
<1>3. \A d \in Clients, r \in Roles :
        loc'[d][r] = IF d = c /\ r = a THEN m
                     ELSE IF d = c /\ r = b THEN n ELSE loc[d][r]
  BY <1>1 DEF TypeOK
<1>4. m \in FDs /\ n \in FDs /\ m # n /\ fd[m] = Closed /\ fd[n] = Closed
  BY <1>1 DEF Free
<1>5. \A k \in FDs : fd'[k] = IF k = m THEN Obj(a, c)
                               ELSE IF k = n THEN Obj(b, c) ELSE fd[k]
  BY <1>1, <1>4 DEF TypeOK
<1>6. HoldsOwn'
  <2> SUFFICES ASSUME NEW d \in Clients, NEW r \in Roles, Holds(d, r)'
               PROVE  loc'[d][r] \in FDs /\ fd'[loc'[d][r]] = Obj(r, d)
    BY DEF HoldsOwn
  <2>1. CASE d = c /\ r \in {a, b}
    BY <1>3, <1>4, <1>5, <2>1
  <2>2. CASE ~(d = c /\ r \in {a, b})
    <3>1. loc[d][r] \in FDs /\ fd[loc[d][r]] = Obj(r, d)
      BY <1>2, <2>2 DEF HoldsOwn
    <3>2. Obj(r, d) # Closed
      BY DEF Obj, Closed
    <3> QED
      BY <1>3, <1>4, <1>5, <2>2, <3>1, <3>2
  <2> QED
    BY <2>1, <2>2
<1>7. NoStray'
  <2> SUFFICES ASSUME NEW k \in FDs, fd'[k] # Closed
               PROVE  \E d \in Clients, r \in Roles : Holds(d, r)' /\ loc'[d][r] = k
    BY DEF NoStray
  <2>1. CASE k = m
    BY <1>2, <1>3, <2>1
  <2>2. CASE k = n
    BY <1>2, <1>3, <1>4, <2>2
  <2>3. CASE k # m /\ k # n
    <3>1. PICK d \in Clients, r \in Roles : Holds(d, r) /\ loc[d][r] = k
      BY <1>5, <2>3 DEF NoStray
    <3>2. ~(d = c /\ r \in {a, b})
      BY <3>1
    <3> QED
      BY <1>2, <1>3, <3>1, <3>2
  <2> QED
    BY <2>1, <2>2, <2>3
<1> QED
  BY <1>6, <1>7

(* A thread that has closed its connection twice never leaves that label.  *)
LEMMA SecondCloseStays ==
  ASSUME TypeOK, Fresh, [Next]_vars, NoSecondClose'
  PROVE  NoSecondClose
<1> SUFFICES ASSUME NEW c \in Clients, pc[c] = "closed2" PROVE FALSE
  BY DEF NoSecondClose
<1>1. pc'[c] # "closed2" /\ pc' # pc
  BY DEF NoSecondClose
<1>2. CASE Accept
  <2>1. pc[Head(queue)] = "none" /\ Head(queue) \in Clients
    BY <1>2 DEF Accept, Fresh, TypeOK
  <2> QED
    BY <1>1, <1>2, <2>1 DEF Accept, Goto, TypeOK
<1>3. ASSUME NEW d \in Clients, ThreadStep(d) PROVE FALSE
  <2>1. pc[d] # "closed2" /\ \A e \in Clients \ {d} : pc'[e] = pc[e]
    BY <1>3 DEF TypeOK, Goto, MakePipe, PipeFails, ThreadStep, ReadRequest, EchoError, ErrorExits,
         EchoClose, AfterEcho, CloseConnection, OpenFile, HtmlHead, SendFile, CloseFile, CgiHead,
         PipeIn, PipeOut, DropIn, Fork, ParentCloses, Feed, Relay, RelayEnds, ClosePipes, WaitChild
  <2> QED
    BY <1>1, <2>1
<1> QED
  BY <1>1, <1>2, <1>3 DEF Next, Connect, SendHead, SendBody, Leave, AcceptFails, ChildRuns,
       BrokenPipe, Quiet, vars, threads

(* The handler of a connection starts when the connection is accepted, and *)
(* a connection is accepted once.                                          *)
LEMMA FreshKept == ASSUME TypeOK, Fresh, [Next]_vars PROVE Fresh'
<1>1. ASSUME NEW c \in Clients, Connect(c) PROVE Fresh'
  <2>1. \A i \in DOMAIN queue : queue[i] # c /\ queue'[i] = queue[i]
    BY <1>1 DEF Connect, Fresh, TypeOK
  <2>2. DOMAIN queue' = DOMAIN queue \cup {Len(queue) + 1} /\ queue'[Len(queue) + 1] = c
    BY <1>1 DEF Connect, TypeOK
  <2>3. pc' = pc /\ stage' = [stage EXCEPT ![c] = "idle"] /\ pc[c] = "none"
    BY <1>1 DEF Connect, Fresh, threads
  <2>4. \A i \in DOMAIN queue' : pc'[queue'[i]] = "none" /\ stage'[queue'[i]] # "away"
    BY <2>1, <2>2, <2>3 DEF Fresh, TypeOK
  <2>5. \A i, j \in DOMAIN queue' : queue'[i] = queue'[j] => i = j
    BY <2>1, <2>2 DEF Fresh
  <2>6. \A d \in Clients : stage'[d] = "away" => pc'[d] = "none"
    BY <2>3 DEF Fresh, TypeOK
  <2> QED
    BY <2>4, <2>5, <2>6 DEF Fresh
<1>2. CASE Accept
  <2> DEFINE c == Head(queue)
  <2>1. /\ c \in Clients /\ stage[c] # "away"
        /\ 1 \in DOMAIN queue /\ queue[1] = c
        /\ \A i \in DOMAIN queue' : i + 1 \in DOMAIN queue /\ queue'[i] = queue[i + 1]
        /\ \A i \in DOMAIN queue' : i \in Nat \ {0}
    BY <1>2 DEF Accept, Fresh, TypeOK
  <2>2. \A i \in DOMAIN queue' : queue'[i] # c
    <3> SUFFICES ASSUME NEW i \in DOMAIN queue', queue'[i] = c PROVE FALSE
      OBVIOUS
    <3>1. i + 1 = 1
      BY <2>1 DEF Fresh
    <3> QED
      BY <2>1, <3>1
  <2>3. stage' = stage /\ \A d \in Clients \ {c} : pc'[d] = pc[d]
    BY <1>2 DEF Accept, Goto, TypeOK, clients
  <2>4. \A i \in DOMAIN queue' : queue'[i] \in Clients
    BY <2>1 DEF TypeOK
  <2> HIDE DEF c
  <2>5. \A i \in DOMAIN queue' : pc'[queue'[i]] = "none" /\ stage'[queue'[i]] # "away"
    BY <2>1, <2>2, <2>3, <2>4 DEF Fresh
  <2>6. \A i, j \in DOMAIN queue' : queue'[i] = queue'[j] => i = j
    BY <2>1 DEF Fresh
  <2>7. \A d \in Clients : stage'[d] = "away" => pc'[d] = "none"
    BY <2>1, <2>3 DEF Fresh
  <2> QED
    BY <2>5, <2>6, <2>7 DEF Fresh
<1>3. ASSUME NEW c \in Clients, SendHead(c) \/ SendBody(c) \/ Leave(c) PROVE Fresh'
  <2>1. UNCHANGED <<queue, pc>> /\ \A d \in Clients : stage'[d] = "away" <=> stage[d] = "away"
    BY <1>3 DEF SendHead, SendBody, Leave, threads, TypeOK
  <2> QED
    BY <2>1 DEF Fresh, TypeOK
<1>4. ASSUME NEW c \in Clients, ThreadStep(c) PROVE Fresh'
  <2>1. UNCHANGED <<queue, stage>> /\ pc[c] # "none" /\ \A d \in Clients \ {c} : pc'[d] = pc[d]
    BY <1>4 DEF TypeOK, Goto, MakePipe, PipeFails, ThreadStep, ReadRequest, EchoError, ErrorExits,
         EchoClose, AfterEcho, CloseConnection, OpenFile, HtmlHead, SendFile, CloseFile, CgiHead,
         PipeIn, PipeOut, DropIn, Fork, ParentCloses, Feed, Relay, RelayEnds, ClosePipes, WaitChild,
         clients
  <2> QED
    BY <2>1 DEF Fresh, TypeOK
<1>5. ASSUME UNCHANGED <<queue, pc, stage>> PROVE Fresh'
  BY <1>5 DEF Fresh
<1> QED
  BY <1>1, <1>2, <1>3, <1>4, <1>5 DEF Next, AcceptFails, ChildRuns, BrokenPipe, Quiet, vars,
     threads, clients

(* Every thread step keeps the accounts. *)
LEMMA ThreadKeeps ==
  ASSUME TypeOK, HoldsOwn, NoStray, NEW c \in Clients, ThreadStep(c), NoSecondClose'
  PROVE  HoldsOwn' /\ NoStray'
<1>1. CASE ReadRequest(c)
  <2>1. PICK r \in Request : Goto(c, Route(r))
    BY <1>1, SocketOf, NoRequestType DEF ReadRequest, TypeOK
  <2>2. Route(r) \in {"bad_request", "not_found", "cgi_head", "open"}
    BY DEF Route
  <2> QED
    BY <1>1, <2>1, <2>2, MoveKeeps DEF ReadRequest, HeldAt, Labels
<1>2. CASE EchoError(c)
  BY <1>2, MoveKeeps DEF EchoError, ErrorExits, HeldAt, Labels
<1>3. CASE EchoClose(c)
  <2>1. \A r \in {"sock"} : Holds(c, r)
    BY <1>3 DEF EchoClose, AfterEcho, HeldAt, Holds, Labels
  <2>2. \A r \in Roles : AfterEcho[pc[c]] \in HeldAt[r] <=> pc[c] \in HeldAt[r] /\ r \notin {"sock"}
    BY <1>3 DEF EchoClose, AfterEcho, HeldAt, Labels
  <2> QED
    BY <1>3, <2>1, <2>2, CloseKeeps DEF EchoClose
<1>4. CASE CloseConnection(c)
  <2>1. pc[c] = "close" /\ Goto(c, "done")
    BY <1>4 DEF CloseConnection, Goto, NoSecondClose, TypeOK
  <2> QED
    BY <1>4, <2>1, CloseKeeps DEF CloseConnection, HeldAt, Holds, Labels
<1>5. CASE OpenFile(c)
  <2>1. CASE UNCHANGED <<fd, loc>> /\ Goto(c, "html_404")
    BY <1>5, <2>1, MoveKeeps DEF OpenFile, HeldAt, Labels
  <2>2. CASE Goto(c, "html_head") /\ \E n \in Free : /\ fd' = [fd EXCEPT ![n] = Obj("file", c)]
                                                   /\ loc' = [loc EXCEPT ![c]["file"] = n]
    <3>1. ~Holds(c, "file")
      BY <1>5 DEF OpenFile, HeldAt, Holds
    <3>2. \A r \in Roles : "html_head" \in HeldAt[r] <=> pc[c] \in HeldAt[r] \/ r = "file"
      BY <1>5 DEF OpenFile, HeldAt, Labels
    <3> QED
      BY <2>2, <3>1, <3>2, TakeKeeps
  <2> QED
    BY <1>5, <2>1, <2>2 DEF OpenFile, LowestIn
<1>6. CASE HtmlHead(c)
  BY <1>6, MoveKeeps DEF HtmlHead, HeldAt, Labels
<1>7. CASE SendFile(c)
  <2>1. CASE UNCHANGED fd /\ Goto(c, "close_file")
    BY <1>7, <2>1, MoveKeeps DEF SendFile, HeldAt, Labels
  <2>2. CASE fd' = CloseIn(fd, c, {"file"}) /\ Goto(c, "html_500")
    BY <1>7, <2>2, CloseKeeps DEF SendFile, HeldAt, Holds, Labels
  <2> QED
    BY <1>7, <2>1, <2>2 DEF SendFile
<1>8. CASE CloseFile(c)
  BY <1>8, CloseKeeps DEF CloseFile, HeldAt, Holds, Labels
<1>9. CASE CgiHead(c)
  BY <1>9, MoveKeeps DEF CgiHead, HeldAt, Labels
<1>10. CASE PipeIn(c)
  <2>1. CASE MakePipe(c, "in_r", "in_w", "pipe_out")
    BY <1>10, <2>1, PipeKeeps DEF PipeIn, HeldAt, Holds, Labels
  <2>2. CASE PipeFails(c, "cgi_500")
    BY <1>10, <2>2, MoveKeeps DEF PipeIn, PipeFails, HeldAt, Labels
  <2> QED
    BY <1>10, <2>1, <2>2 DEF PipeIn
<1>11. CASE PipeOut(c)
  <2>1. CASE MakePipe(c, "out_r", "out_w", "fork")
    BY <1>11, <2>1, PipeKeeps DEF PipeOut, HeldAt, Holds, Labels
  <2>2. CASE PipeFails(c, "pipe_500")
    BY <1>11, <2>2, MoveKeeps DEF PipeOut, PipeFails, HeldAt, Labels
  <2> QED
    BY <1>11, <2>1, <2>2 DEF PipeOut
<1>12. CASE DropIn(c)
  BY <1>12, CloseKeeps DEF DropIn, FirstPipe, HeldAt, Holds, Labels
<1>13. CASE Fork(c)
  <2>1. CASE UNCHANGED fd /\ Goto(c, "parent")
    BY <1>13, <2>1, MoveKeeps DEF Fork, HeldAt, Labels
  <2>2. CASE fd' = CloseIn(fd, c, {"in_r", "in_w", "out_r", "out_w"}) /\ Goto(c, "cgi_500")
    BY <1>13, <2>2, CloseKeeps DEF Fork, HeldAt, Holds, Labels
  <2> QED
    BY <1>13, <2>1, <2>2 DEF Fork
<1>14. CASE ParentCloses(c)
  <2>1. PICK l \in {"feed", "relay"} : Goto(c, l)
    BY <1>14 DEF ParentCloses
  <2> QED
    BY <1>14, <2>1, CloseKeeps DEF ParentCloses, ParentEnds, HeldAt, Holds, Labels
<1>15. CASE Feed(c)
  BY <1>15, MoveKeeps DEF Feed, HeldAt, Labels
<1>16. CASE Relay(c)
  <2>1. PICK l \in {"relay", "close_pipes"} : Goto(c, l)
    BY <1>16 DEF Relay, Goto, TypeOK
  <2> QED
    BY <1>16, <2>1, MoveKeeps DEF Relay, HeldAt, Labels
<1>17. CASE RelayEnds(c)
  BY <1>17, MoveKeeps DEF RelayEnds, HeldAt, Labels
<1>18. CASE ClosePipes(c)
  BY <1>18, CloseKeeps DEF ClosePipes, HeldAt, Holds, Labels
<1>19. CASE WaitChild(c)
  BY <1>19, MoveKeeps DEF WaitChild, HeldAt, Labels
<1> QED
  BY <1>1, <1>2, <1>3, <1>4, <1>5, <1>6, <1>7, <1>8, <1>9, <1>10, <1>11, <1>12, <1>13, <1>14,
     <1>15, <1>16, <1>17, <1>18, <1>19 DEF ThreadStep

(* No connection is queued twice, and none is handed to two threads: a     *)
(* queued connection has no thread yet.                                    *)
THEOREM Freshness == Spec => []Fresh
<1>1. Init => Fresh
  BY DEF Init, Fresh
<1>2. TypeOK /\ Fresh /\ [Next]_vars => Fresh'
  BY FreshKept
<1> QED
  BY <1>1, <1>2, Typing, PTL DEF Spec

(* As long as no thread has closed its connection a second time, every     *)
(* number a thread still has to close denotes what that thread opened, and *)
(* every open descriptor is one some thread still has to close, whichever  *)
(* calls of accept_request, echo_html and exe_cgi fail.                    *)
THEOREM DescriptorAccounts == Spec => []Accounting
<1>1. Init => Accounting
  BY DEF Init, Accounting, HoldsOwn, NoStray, Holds, HeldAt, Labels
<1>2. TypeOK /\ Fresh /\ Accounting /\ [Next]_vars => Accounting'
  <2> SUFFICES ASSUME TypeOK, Fresh, Accounting, [Next]_vars, up', NoSecondClose'
               PROVE  HoldsOwn' /\ NoStray'
    BY DEF Accounting
  <2>1. NoSecondClose
    BY SecondCloseStays
  <2>2. CASE Accept
    <3>1. up
      BY <2>2 DEF Accept
    <3>2. PICK n \in Free, l \in {"request", "orphan"} :
            /\ fd' = [fd EXCEPT ![n] = Obj("sock", Head(queue))]
            /\ loc' = [loc EXCEPT ![Head(queue)]["sock"] = n]
            /\ Goto(Head(queue), l)
      BY <2>2 DEF Accept, LowestIn
    <3>3. Head(queue) \in Clients /\ pc[Head(queue)] = "none"
      BY <2>2 DEF Accept, Fresh, TypeOK
    <3>4. ~Holds(Head(queue), "sock")
      BY <3>3 DEF HeldAt, Holds
    <3>5. \A r \in Roles : l \in HeldAt[r] <=> pc[Head(queue)] \in HeldAt[r] \/ r = "sock"
      BY <3>3 DEF HeldAt, Labels
    <3> QED
      BY <2>1, <3>1, <3>2, <3>3, <3>4, <3>5, TakeKeeps DEF Accounting
  <2>3. ASSUME NEW c \in Clients, ThreadStep(c) PROVE HoldsOwn' /\ NoStray'
    <3>1. up
      BY <2>3 DEF ThreadStep, ReadRequest, EchoError, EchoClose, CloseConnection, OpenFile, HtmlHead,
         SendFile, CloseFile, CgiHead, PipeIn, PipeOut, DropIn, Fork, ParentCloses, Feed, Relay,
         RelayEnds, ClosePipes, WaitChild
    <3> QED
      BY <2>1, <2>3, <3>1, ThreadKeeps DEF Accounting
  <2>4. CASE UNCHANGED <<up, fd, loc, pc>>
    BY <2>1, <2>4 DEF Accounting, HoldsOwn, NoStray, Holds
  <2> QED
    BY <2>2, <2>3, <2>4 DEF Next, Connect, SendHead, SendBody, Leave, AcceptFails, ChildRuns,
       BrokenPipe, Quiet, vars, threads
<1> QED
  BY <1>1, <1>2, Typing, Freshness, PTL DEF Spec
-----------------------------------------------------------------------------
(* Who answers whom. *)
OwnSoFar == \A c \in Clients : \A i \in DOMAIN got[c] : got[c][i].by = c

(* A piece written to what a thread holds reaches that thread's client.    *)
LEMMA ReceivesOwn ==
  ASSUME TypeOK, OwnSoFar, NEW c \in Clients, NEW o, NEW w, Receives(o, c, w),
         \A d \in Clients : o = Obj("sock", d) => d = c
  PROVE  OwnSoFar'
<1> SUFFICES ASSUME NEW d \in Clients, NEW i \in DOMAIN got'[d] PROVE got'[d][i].by = d
  BY DEF OwnSoFar
<1>1. CASE got'[d] = got[d]
  BY <1>1 DEF OwnSoFar
<1>2. CASE d = c /\ got'[d] = Append(got[d], [by |-> c, what |-> w])
  <2>1. got[d] \in Seq(Piece)
    BY DEF TypeOK
  <2>2. i \in DOMAIN got[d] \/ i = Len(got[d]) + 1
    BY <1>2, <2>1
  <2>3. CASE i \in DOMAIN got[d]
    <3>1. got'[d][i] = got[d][i]
      BY <1>2, <2>1, <2>3
    <3> QED
      BY <2>3, <3>1 DEF OwnSoFar
  <2>4. CASE i = Len(got[d]) + 1
    BY <1>2, <2>1, <2>4
  <2> QED
    BY <2>2, <2>3, <2>4
<1> QED
  BY <1>1, <1>2 DEF Receives

(* Until then a client is sent nothing by another client's thread.         *)
THEOREM NoCrossTalk == Spec => []OwnAnswers
<1>1. Init => OwnAnswers
  BY DEF Init, OwnAnswers
<1>2. TypeOK /\ Fresh /\ Accounting /\ OwnAnswers /\ [Next]_vars => OwnAnswers'
  <2> SUFFICES ASSUME TypeOK, Fresh, Accounting, OwnAnswers, [Next]_vars, NoSecondClose'
               PROVE  OwnSoFar'
    BY DEF OwnAnswers, OwnSoFar
  <2>1. NoSecondClose /\ OwnSoFar
    BY SecondCloseStays DEF OwnAnswers, OwnSoFar
  <2>2. ASSUME NEW c \in Clients, NEW r \in Roles, up, Holds(c, r)
        PROVE  At(c, r) = Obj(r, c)
    BY <2>1, <2>2 DEF Accounting, HoldsOwn, At
  <2>3. ASSUME NEW c \in Clients, NEW w, up, Holds(c, "sock"), Send(c, w) PROVE OwnSoFar'
    <3>1. At(c, "sock") = Obj("sock", c)
      BY <2>2, <2>3
    <3> QED
      BY <2>1, <2>3, <3>1, ReceivesOwn DEF Send, Obj
  <2>4. ASSUME NEW c \in Clients, EchoError(c) PROVE OwnSoFar'
    BY <2>3, <2>4 DEF EchoError, ErrorExits, Holds, HeldAt, Labels
  <2>5. ASSUME NEW c \in Clients, HtmlHead(c) PROVE OwnSoFar'
    BY <2>3, <2>5 DEF HtmlHead, Holds, HeldAt, Labels
  <2>6. ASSUME NEW c \in Clients, CgiHead(c), got' # got PROVE OwnSoFar'
    BY <2>3, <2>6 DEF CgiHead, Holds, HeldAt, Labels
  <2>7. ASSUME NEW c \in Clients, Relay(c) PROVE OwnSoFar'
    BY <2>3, <2>7 DEF Relay, Holds, HeldAt, Labels
  <2>8. ASSUME NEW c \in Clients, SendFile(c), got' # got PROVE OwnSoFar'
    <3>1. At(c, "sock") = Obj("sock", c) /\ Receives(At(c, "sock"), c, "page")
      BY <2>2, <2>8 DEF SendFile, Write, Holds, HeldAt, Labels
    <3> QED
      BY <2>1, <3>1, ReceivesOwn DEF Obj
  <2>9. ASSUME NEW c \in Clients, Feed(c) PROVE OwnSoFar'
    <3>1. At(c, "in_w") = Obj("in_w", c) /\ Receives(At(c, "in_w"), c, "body")
      BY <2>2, <2>9 DEF Feed, Write, Holds, HeldAt, Labels
    <3> QED
      BY <2>1, <3>1, ReceivesOwn DEF Obj
  <2>10. CASE got' = got
    BY <2>1, <2>10 DEF OwnSoFar
  <2> QED
    BY <2>4, <2>5, <2>6, <2>7, <2>8, <2>9, <2>10 DEF Next, ThreadStep, Connect, SendHead, SendBody,
       Leave, Accept, AcceptFails, ReadRequest, EchoClose, CloseConnection, OpenFile, CloseFile,
       PipeIn, PipeOut, DropIn, Fork, ParentCloses, RelayEnds, ClosePipes, WaitChild, ChildRuns,
       BrokenPipe, Quiet, vars, clients
<1> QED
  BY <1>1, <1>2, Typing, Freshness, DescriptorAccounts, PTL DEF Spec

(* Closing what one holds touches only one's own objects. *)
LEMMA ClosesOwn ==
  ASSUME TypeOK, HoldsOwn, NEW c \in Clients, NEW R \in SUBSET Roles,
         fd' = CloseIn(fd, c, R), \A r \in R : Holds(c, r), pc'[c] # pc[c],
         NEW n \in FDs, fd'[n] # fd[n]
  PROVE  fd'[n] = Closed /\ pc'[fd[n].of] # pc[fd[n].of]
<1>1. PICK r \in R : loc[c][r] = n /\ fd'[n] = Closed
  BY DEF CloseIn
<1>2. fd[n] = Obj(r, c)
  BY <1>1 DEF HoldsOwn
<1>3. Obj(r, c).of = c
  BY DEF Obj
<1> QED
  BY <1>1, <1>2, <1>3

(* Until then a descriptor is closed only by a step of the thread that     *)
(* opened it, and an open number is not given out again.                   *)
THEOREM Owners == Spec => ClosedByOwner
<1> DEFINE Step == \A n \in FDs :
       fd[n] # Closed /\ fd'[n] # fd[n] /\ up' /\ (\A c \in Clients : pc'[c] # "closed2")
         => fd'[n] = Closed /\ pc'[fd[n].of] # pc[fd[n].of]
<1>1. TypeOK /\ Fresh /\ Accounting /\ [Next]_vars => [Step]_vars
  <2> SUFFICES ASSUME TypeOK, Fresh, Accounting, [Next]_vars, up', NoSecondClose',
                      NEW n \in FDs, fd[n] # Closed, fd'[n] # fd[n]
               PROVE  fd'[n] = Closed /\ pc'[fd[n].of] # pc[fd[n].of]
    BY DEF NoSecondClose
  <2>1. NoSecondClose
    BY SecondCloseStays
  <2>2. ASSUME NEW c \in Clients, NEW R \in SUBSET Roles, NEW l, up, fd' = CloseIn(fd, c, R),
               \A r \in R : Holds(c, r), Goto(c, l), l # pc[c]
        PROVE  fd'[n] = Closed /\ pc'[fd[n].of] # pc[fd[n].of]
    <3>1. pc'[c] # pc[c] /\ HoldsOwn
      BY <2>1, <2>2 DEF Goto, TypeOK, Accounting
    <3> QED
      BY <2>2, <3>1, ClosesOwn
  <2>3. ASSUME NEW c \in Clients, EchoClose(c) PROVE fd'[n] = Closed /\ pc'[fd[n].of] # pc[fd[n].of]
    <3>1. \A r \in {"sock"} : Holds(c, r)
      BY <2>3 DEF EchoClose, AfterEcho, Holds, HeldAt, Labels
    <3>2. AfterEcho[pc[c]] # pc[c]
      BY <2>3 DEF EchoClose, AfterEcho
    <3> QED
      BY <2>2, <2>3, <3>1, <3>2 DEF EchoClose
  <2>4. ASSUME NEW c \in Clients, CloseConnection(c)
        PROVE  fd'[n] = Closed /\ pc'[fd[n].of] # pc[fd[n].of]
    <3>1. pc[c] = "close" /\ Goto(c, "done")
      BY <2>4 DEF CloseConnection, Goto, NoSecondClose, TypeOK
    <3> QED
      BY <2>2, <2>4, <3>1 DEF CloseConnection, Holds, HeldAt, Labels
  <2>5. ASSUME NEW c \in Clients, SendFile(c)
        PROVE  fd'[n] = Closed /\ pc'[fd[n].of] # pc[fd[n].of]
    <3>1. up /\ pc[c] = "sendfile" /\ fd' = CloseIn(fd, c, {"file"}) /\ Goto(c, "html_500")
      BY <2>5 DEF SendFile
    <3>2. \A r \in {"file"} : Holds(c, r)
      BY <3>1 DEF Holds, HeldAt, Labels
    <3> QED
      BY <2>2, <3>1, <3>2
  <2>6. ASSUME NEW c \in Clients, CloseFile(c)
        PROVE  fd'[n] = Closed /\ pc'[fd[n].of] # pc[fd[n].of]
    <3>1. up /\ pc[c] = "close_file" /\ fd' = CloseIn(fd, c, {"file"}) /\ Goto(c, "close")
      BY <2>6 DEF CloseFile
    <3>2. \A r \in {"file"} : Holds(c, r)
      BY <3>1 DEF Holds, HeldAt, Labels
    <3> QED
      BY <2>2, <3>1, <3>2
  <2>7. ASSUME NEW c \in Clients, DropIn(c)
        PROVE  fd'[n] = Closed /\ pc'[fd[n].of] # pc[fd[n].of]
    <3>1. up /\ pc[c] = "drop_in" /\ fd' = CloseIn(fd, c, {"in_r", "in_w"}) /\ Goto(c, "close2")
      BY <2>7 DEF DropIn, FirstPipe
    <3>2. \A r \in {"in_r", "in_w"} : Holds(c, r)
      BY <3>1 DEF Holds, HeldAt, Labels
    <3> QED
      BY <2>2, <3>1, <3>2
  <2>8. ASSUME NEW c \in Clients, Fork(c)
        PROVE  fd'[n] = Closed /\ pc'[fd[n].of] # pc[fd[n].of]
    <3>1. up /\ pc[c] = "fork" /\ fd' = CloseIn(fd, c, {"in_r", "in_w", "out_r", "out_w"}) /\ Goto(c, "cgi_500")
      BY <2>8 DEF Fork
    <3>2. \A r \in {"in_r", "in_w", "out_r", "out_w"} : Holds(c, r)
      BY <3>1 DEF Holds, HeldAt, Labels
    <3> QED
      BY <2>2, <3>1, <3>2
  <2>9. ASSUME NEW c \in Clients, ClosePipes(c)
        PROVE  fd'[n] = Closed /\ pc'[fd[n].of] # pc[fd[n].of]
    <3>1. up /\ pc[c] = "close_pipes" /\ fd' = CloseIn(fd, c, {"in_w", "out_r"}) /\ Goto(c, "wait")
      BY <2>9 DEF ClosePipes
    <3>2. \A r \in {"in_w", "out_r"} : Holds(c, r)
      BY <3>1 DEF Holds, HeldAt, Labels
    <3> QED
      BY <2>2, <3>1, <3>2
  <2>10. ASSUME NEW c \in Clients, ParentCloses(c)
        PROVE  fd'[n] = Closed /\ pc'[fd[n].of] # pc[fd[n].of]
    <3>1. PICK l \in {"feed", "relay"} :
            up /\ pc[c] = "parent" /\ fd' = CloseIn(fd, c, {"in_r", "out_w"}) /\ Goto(c, l)
      BY <2>10 DEF ParentCloses, ParentEnds
    <3>2. \A r \in {"in_r", "out_w"} : Holds(c, r)
      BY <3>1 DEF Holds, HeldAt, Labels
    <3> QED
      BY <2>2, <3>1, <3>2
  <2>11. ASSUME NEW m \in FDs, NEW o, LowestIn(m, Free), fd' = [fd EXCEPT ![m] = o] PROVE FALSE
    BY <2>11 DEF LowestIn, Free, TypeOK
  <2>12. ASSUME NEW c \in Clients, NEW r, NEW w, NEW l, MakePipe(c, r, w, l) PROVE FALSE
    BY <2>12 DEF MakePipe, LowestIn, Free, TypeOK
  <2> QED
    BY <2>3, <2>4, <2>5, <2>6, <2>10, <2>11, <2>12, <2>7, <2>8, <2>9 DEF Next, ThreadStep,
       Connect, SendHead, SendBody, Leave, Accept, AcceptFails, ReadRequest, EchoError, OpenFile, HtmlHead, CgiHead, PipeIn,
       PipeOut, PipeFails, Feed, Relay, RelayEnds, WaitChild, ChildRuns, BrokenPipe, Quiet, vars
<1> QED
  BY <1>1, Typing, Freshness, DescriptorAccounts, PTL DEF Spec, ClosedByOwner
=============================================================================
