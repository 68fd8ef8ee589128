--------------------------- MODULE RestartProofs ---------------------------
(***************************************************************************)
(* Across any number of deaths and starts of the server, for any number of *)
(* clients, descriptors, threads and children: no program of an earlier    *)
(* life meets a later server.                                              *)
(***************************************************************************)
EXTENDS Restart, TLAPS

(* Where a thread of exe_cgi has a child it has not waited for.            *)
Minding == {"parent", "feed", "relay", "close_pipes", "wait"}

Maps == DOMAIN pc = Clients /\ DOMAIN child = Clients /\ DOMAIN stage = Clients

(* A connection nobody has accepted, or nobody has made, has no thread and *)
(* no program yet; it is queued once.                                      *)
Unserved(c) == pc[c] = "none" /\ child[c] = "none"

Waits ==
  /\ queue \in Seq(Clients)
  /\ \A i, j \in DOMAIN queue : queue[i] = queue[j] => i = j
  /\ \A i \in DOMAIN queue : stage[queue[i]] # "away" /\ Unserved(queue[i])
  /\ \A c \in Clients : stage[c] = "away" => Unserved(c)

(* While a server runs, every program that runs has a thread minding it.   *)
Minded == up => \A c \in Clients : child[c] = "running" => pc[c] \in Minding

LInv == Maps /\ Waits /\ Minded
-----------------------------------------------------------------------------
(* Of a thread and its program, a step of the thread alters nobody else's; *)
(* it begins to mind a program where it forks one, and stops when it has   *)
(* waited for it.                                                          *)
OwnStep(c) ==
  /\ up /\ up' /\ UNCHANGED <<queue, stage>> /\ pc[c] # "none"
  /\ DOMAIN pc' = Clients /\ DOMAIN child' = Clients
  /\ \A d \in Clients \ {c} : pc'[d] = pc[d] /\ child'[d] = child[d]
  /\ pc'[c] # "none"
  /\ child'[c] = "running" => pc'[c] \in Minding

(* Such a step keeps the invariant.                                        *)
LEMMA OwnStepKeeps == ASSUME LInv, NEW c \in Clients, OwnStep(c) PROVE LInv'
<1>1. \A i \in DOMAIN queue : queue[i] \in Clients
  BY DEF LInv, Waits
<1>2. \A i \in DOMAIN queue : queue[i] # c
  BY DEF LInv, Waits, Unserved, OwnStep
<1>3. stage[c] # "away"
  BY DEF LInv, Waits, Unserved, OwnStep
<1>4. Maps'
  BY DEF LInv, Maps, OwnStep
<1>5. \A d \in Clients : d # c /\ Unserved(d) => Unserved(d)'
  BY DEF OwnStep, Unserved
<1>6. Waits'
  BY <1>1, <1>2, <1>3, <1>5 DEF LInv, Waits, OwnStep
<1>7. Minded'
  BY DEF LInv, Minded, OwnStep
<1> QED
  BY <1>4, <1>6, <1>7 DEF LInv

(* A thread that goes from label to label, child untouched, goes on minding *)
(* its program, or had none that runs.                                     *)
LEMMA MoveIsOwn ==
  ASSUME LInv, NEW c \in Clients, NEW l, up, pc[c] # "none", l # "none",
         UNCHANGED <<up, queue, stage, child>>, Goto(c, l),
         pc[c] \in Minding => l \in Minding
  PROVE  OwnStep(c)
BY DEF LInv, Maps, Minded, Goto, OwnStep

(* Every step of a thread is one.                                          *)
LEMMA ThreadIsOwn == ASSUME LInv, NEW c \in Clients, ThreadStep(c) PROVE OwnStep(c)
<1> USE DEF Minding, threads, children, clients
<1>1. CASE ReadRequest(c)
  <2>1. \A r : Route(r) \in {"bad_request", "not_found", "cgi_head", "open"}
    BY DEF Route
  <2>2. PICK l \in {"bad_request", "not_found", "cgi_head", "open"} : Goto(c, l)
    BY <1>1, <2>1 DEF ReadRequest
  <2> QED
    BY <1>1, <2>2, MoveIsOwn DEF ReadRequest
<1>2. CASE EchoError(c)
  <2>1. pc[c] \in DOMAIN ErrorExits /\ pc[c] \notin Minding \cup {"none"}
    BY <1>2 DEF EchoError, ErrorExits
  <2>2. ErrorExits[pc[c]].next # "none"
    BY <2>1 DEF ErrorExits
  <2> QED
    BY <1>2, <2>1, <2>2, MoveIsOwn DEF EchoError
<1>3. CASE EchoClose(c)
  <2>1. pc[c] \notin Minding \cup {"none"} /\ AfterEcho[pc[c]] # "none"
    BY <1>3 DEF EchoClose, AfterEcho
  <2> QED
    BY <1>3, <2>1, MoveIsOwn DEF EchoClose
<1>4. CASE CloseConnection(c)
  BY <1>4, MoveIsOwn DEF CloseConnection
<1>5. CASE OpenFile(c)
  BY <1>5, MoveIsOwn DEF OpenFile
<1>6. CASE HtmlHead(c)
  BY <1>6, MoveIsOwn DEF HtmlHead
<1>7. CASE SendFile(c)
  BY <1>7, MoveIsOwn DEF SendFile
<1>8. CASE CloseFile(c)
  BY <1>8, MoveIsOwn DEF CloseFile
<1>9. CASE CgiHead(c)
  BY <1>9, MoveIsOwn DEF CgiHead
<1>10. CASE PipeIn(c)
  BY <1>10, MoveIsOwn DEF PipeIn, MakePipe, PipeFails
<1>11. CASE PipeOut(c)
  BY <1>11, MoveIsOwn DEF PipeOut, MakePipe, PipeFails
<1>12. CASE DropIn(c)
  BY <1>12, MoveIsOwn DEF DropIn
<1>13. CASE Fork(c)
  <2>1. CASE child' = [child EXCEPT ![c] = "running"] /\ Goto(c, "parent")
    BY <1>13, <2>1 DEF Fork, OwnStep, LInv, Maps, Goto
  <2>2. CASE UNCHANGED child /\ Goto(c, "cgi_500")
    BY <1>13, <2>2, MoveIsOwn DEF Fork
  <2> QED
    BY <1>13, <2>1, <2>2 DEF Fork
<1>14. CASE ParentCloses(c)
  BY <1>14, MoveIsOwn DEF ParentCloses
<1>15. CASE Feed(c)
  BY <1>15, MoveIsOwn DEF Feed
<1>16. CASE Relay(c)
  <2>1. CASE UNCHANGED pc
    BY <1>16, <2>1 DEF Relay, OwnStep, LInv, Maps, Minded
  <2>2. CASE Goto(c, "close_pipes")
    BY <1>16, <2>2, MoveIsOwn DEF Relay
  <2> QED
    BY <1>16, <2>1, <2>2 DEF Relay
<1>17. CASE RelayEnds(c)
  BY <1>17, MoveIsOwn DEF RelayEnds
<1>18. CASE ClosePipes(c)
  BY <1>18, MoveIsOwn DEF ClosePipes
<1>19. CASE WaitChild(c)
  BY <1>19 DEF WaitChild, OwnStep, LInv, Maps, Goto
<1> QED
  BY <1>1, <1>2, <1>3, <1>4, <1>5, <1>6, <1>7, <1>8, <1>9, <1>10, <1>11, <1>12,
     <1>13, <1>14, <1>15, <1>16, <1>17, <1>18, <1>19 DEF ThreadStep
-----------------------------------------------------------------------------
(* A client that connects, to a server or to nobody, comes last.           *)
LEMMA JoinKeeps ==
  ASSUME LInv, NEW c \in Clients, stage[c] = "away",
         stage' = [stage EXCEPT ![c] = "idle"], queue' = Append(queue, c),
         UNCHANGED <<up, pc, child>>
  PROVE  LInv'
<1>1. queue \in Seq(Clients) /\ \A i \in DOMAIN queue : queue[i] # c
  BY DEF LInv, Waits
<1>2. /\ queue' \in Seq(Clients) /\ DOMAIN queue' = 1..(Len(queue) + 1)
      /\ DOMAIN queue = 1..Len(queue) /\ Len(queue) \in Nat
      /\ \A i \in 1..Len(queue) : queue'[i] = queue[i]
      /\ queue'[Len(queue) + 1] = c
  BY <1>1
<1>3. \A i, j \in DOMAIN queue' : queue'[i] = queue'[j] => i = j
  BY <1>1, <1>2 DEF LInv, Waits
<1>4. \A i \in DOMAIN queue' :
        stage'[queue'[i]] # "away" /\ pc'[queue'[i]] = "none" /\ child'[queue'[i]] = "none"
  <2> TAKE i \in DOMAIN queue'
  <2>1. CASE i = Len(queue) + 1
    <3>1. queue'[i] = c /\ Unserved(c)
      BY <1>2, <2>1 DEF LInv, Waits
    <3>2. stage'[c] = "idle"
      BY DEF LInv, Maps
    <3> QED
      BY <3>1, <3>2 DEF Unserved
  <2>2. CASE i \in 1..Len(queue)
    BY <1>1, <1>2, <2>2 DEF LInv, Maps, Waits, Unserved
  <2> QED
    BY <1>2, <2>1, <2>2
<1> QED
  BY <1>2, <1>3, <1>4 DEF LInv, Maps, Waits, Minded, Unserved

(* The oldest connection gets a thread, or nobody.                         *)
LEMMA AcceptKeeps == ASSUME LInv, Accept PROVE LInv'
<1>1. /\ queue \in Seq(Clients) /\ queue # <<>> /\ Head(queue) \in Clients
      /\ Head(queue) = queue[1] /\ 1 \in DOMAIN queue
  BY DEF LInv, Waits, Accept
<1>2. PICK l \in {"request", "orphan"} : pc' = [pc EXCEPT ![Head(queue)] = l]
  BY <1>1 DEF Accept, Goto
<1>3. UNCHANGED <<up, stage, child>> /\ queue' = Tail(queue)
  BY DEF Accept, children, clients
<1>4. child[Head(queue)] = "none" /\ stage[Head(queue)] # "away"
  BY <1>1 DEF LInv, Waits, Unserved
<1>5. /\ queue' \in Seq(Clients) /\ Len(queue) \in Nat /\ DOMAIN queue = 1..Len(queue)
      /\ \A i \in DOMAIN queue' : i + 1 \in DOMAIN queue /\ queue'[i] = queue[i + 1] /\ i \in Nat \ {0}
  BY <1>1, <1>3
<1>6. \A i \in DOMAIN queue' : queue'[i] # Head(queue) /\ queue'[i] \in Clients
  BY <1>1, <1>5 DEF LInv, Waits
<1>7. \A i, j \in DOMAIN queue' : queue'[i] = queue'[j] => i = j
  BY <1>5 DEF LInv, Waits
<1>8. \A i \in DOMAIN queue' :
        stage'[queue'[i]] # "away" /\ pc'[queue'[i]] = "none" /\ child'[queue'[i]] = "none"
  BY <1>2, <1>3, <1>5, <1>6 DEF LInv, Maps, Waits, Unserved
<1>9. \A c \in Clients : stage'[c] = "away" => Unserved(c)'
  BY <1>2, <1>3, <1>4 DEF LInv, Maps, Waits, Unserved
<1>10. Maps' /\ Minded'
  BY <1>2, <1>3, <1>4 DEF LInv, Maps, Minded
<1> QED
  BY <1>5, <1>7, <1>8, <1>9, <1>10 DEF LInv, Waits, Unserved

(* A program ends.                                                         *)
LEMMA ChildKeeps == ASSUME LInv, NEW c \in Clients, ChildRuns(c) PROVE LInv'
<1>1. UNCHANGED <<up, queue, stage, pc>> /\ child' = [child EXCEPT ![c] = "zombie"]
  BY DEF ChildRuns, threads, clients
<1>2. ~Unserved(c)
  BY DEF ChildRuns, Unserved
<1>3. \A d \in Clients : Unserved(d) => Unserved(d)'
  BY <1>1, <1>2 DEF LInv, Maps, Unserved
<1>4. \A i \in DOMAIN queue : queue[i] \in Clients
  BY DEF LInv, Waits
<1> QED
  BY <1>1, <1>3, <1>4 DEF LInv, Maps, Waits, Minded

(* What clients send changes how far they have come, and no more.          *)
LEMMA SendKeeps == ASSUME LInv, NEW c \in Clients, SendHead(c) \/ SendBody(c) PROVE LInv'
<1>1. UNCHANGED <<up, queue, pc, child>>
  BY DEF SendHead, SendBody, threads, children
<1>2. DOMAIN stage' = Clients /\ \A d \in Clients : stage'[d] = "away" <=> stage[d] = "away"
  BY DEF SendHead, SendBody, LInv, Maps
<1>3. \A i \in DOMAIN queue : queue[i] \in Clients
  BY DEF LInv, Waits
<1> QED
  BY <1>1, <1>2, <1>3 DEF LInv, Maps, Waits, Unserved, Minded

(* The deaths and starts of the server.                                    *)
LEMMA DieKeeps == ASSUME LInv, Die PROVE LInv'
<1>1. /\ ~up' /\ UNCHANGED <<queue, stage, child>>
      /\ pc' = [c \in Clients |-> IF pc[c] = "none" THEN "none" ELSE "done"]
  BY DEF Die, children, clients
<1>2. \A i \in DOMAIN queue : queue[i] \in Clients
  BY DEF LInv, Waits
<1>3. \A c \in Clients : Unserved(c) => Unserved(c)'
  BY <1>1 DEF Unserved
<1> QED
  BY <1>1, <1>2, <1>3 DEF LInv, Maps, Waits, Minded

(* Connections that are reset had neither thread nor program.              *)
LEMMA ResetKeeps == ASSUME LInv, ResetQueue PROVE LInv'
<1>1. /\ ~up' /\ queue' = <<>> /\ UNCHANGED <<pc, child>>
      /\ DOMAIN stage' = Clients /\ \A c \in Clients : stage'[c] = "away" => stage[c] = "away"
  BY DEF ResetQueue, threads, children
<1>2. queue' \in Seq(Clients) /\ DOMAIN queue' = {}
  BY <1>1
<1> QED
  BY <1>1, <1>2 DEF LInv, Maps, Waits, Unserved, Minded

(* The server starts when the last program of its former life has ended.   *)
LEMMA StartKeeps == ASSUME LInv, Start PROVE LInv'
<1>1. /\ UNCHANGED <<queue, stage, pc>>
      /\ child' = [c \in Clients |-> IF child[c] = "zombie" THEN "reaped" ELSE child[c]]
  BY DEF Start, threads, clients
<1>2. \A c \in Clients : child'[c] # "running"
  BY <1>1 DEF Start, Orphaned, Listens
<1>3. \A c \in Clients : Unserved(c) => Unserved(c)'
  BY <1>1 DEF Unserved
<1>4. \A i \in DOMAIN queue : queue[i] \in Clients
  BY DEF LInv, Waits
<1> QED
  BY <1>1, <1>2, <1>3, <1>4 DEF LInv, Maps, Waits, Minded
-----------------------------------------------------------------------------
(* However often the server dies and is started, a program that runs when  *)
(* a server runs was forked by one of its threads: no writer to an old     *)
(* connection, and no holder of an old pipe, survives into a new life.     *)
THEOREM OneLifeAtATime == RestartSpec => []OneLife
<1>1. RestartInit => LInv
  <2>1. <<>> \in Seq(Clients) /\ DOMAIN <<>> = {}
    OBVIOUS
  <2> QED
    BY <2>1 DEF RestartInit, Init, LInv, Maps, Waits, Unserved, Minded
<1>2. LInv /\ [RestartNext]_rvars => LInv'
  <2> SUFFICES ASSUME LInv, [RestartNext]_rvars PROVE LInv'
    OBVIOUS
  <2>1. ASSUME NEW c \in Clients, RestartStep(c) PROVE LInv'
    <3>1. CASE Connect(c)
      BY <3>1, JoinKeeps DEF Connect, threads, children
    <3>2. CASE ThreadStep(c)
      BY <3>2, ThreadIsOwn, OwnStepKeeps
    <3>3. CASE ChildRuns(c)
      BY <3>3, ChildKeeps
    <3>4. CASE SendHead(c) \/ SendBody(c)
      BY <3>4, SendKeeps
    <3> QED
      BY <2>1, <3>1, <3>2, <3>3, <3>4 DEF RestartStep
  <2>2. ASSUME NEW c \in Clients, ConnectToNobody(c) PROVE LInv'
    BY <2>2, JoinKeeps DEF ConnectToNobody, threads, children
  <2>3. CASE UNCHANGED rvars
    BY <2>3 DEF rvars, vars, threads, children, clients, LInv, Maps, Waits, Unserved, Minded
  <2> QED
    BY <2>1, <2>2, <2>3, AcceptKeeps, DieKeeps, ResetKeeps, StartKeeps DEF RestartNext
<1>3. LInv => OneLife
  BY DEF LInv, Minded, OneLife, Running, Minding
<1> QED
  BY <1>1, <1>2, <1>3, PTL DEF RestartSpec
=============================================================================
