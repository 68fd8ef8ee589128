------------------------------ MODULE Restart ------------------------------
(***************************************************************************)
(* The lives of the server: it dies, of SIGPIPE or because it is killed,   *)
(* while its CGI programs go on, and start.sh starts it again.  A program  *)
(* keeps everything it inherited at fork() until it ends: pipe ends of     *)
(* other programs, connections, and the listening socket, which makes      *)
(* bind() of the next server fail and lets clients connect to nobody.      *)
(***************************************************************************)
EXTENDS Httpd

CONSTANT MaxStarts   \* a bound: how often the server is started again

ASSUME StartsAssumption == MaxStarts \in Nat

VARIABLE starts      \* how often it has been

rvars == <<vars, starts>>

RestartInit == Init /\ starts = 0

(* Nothing closes the listening socket in the child.  (A mutant does.)     *)
ListensNot(c) == FALSE
Listens(c)    == child[c] = "running"
Orphaned == ~up /\ \E c \in Clients : Listens(c)

(* The end of the process is the end of its threads, at whatever call.     *)
Die ==
  /\ up /\ up' = FALSE
  /\ fd' = [n \in FDs |-> Closed]
  /\ pc' = [c \in Clients |-> IF pc[c] = "none" THEN "none" ELSE "done"]
  /\ UNCHANGED <<queue, loc, job, children, clients, starts>>

(* The kernel still completes connections while anybody holds the socket,  *)
(* and resets those not accepted when nobody does any more.                *)
ConnectToNobody(c) ==
  /\ Orphaned /\ stage[c] = "away" /\ Len(queue) < Backlog
  /\ stage' = [stage EXCEPT ![c] = "idle"]
  /\ queue' = Append(queue, c)
  /\ UNCHANGED <<up, fd, threads, children, unread, req, got, starts>>

ResetQueue ==
  /\ ~up /\ ~Orphaned /\ queue # <<>>
  /\ stage' = [c \in Clients |-> IF \E i \in DOMAIN queue : queue[i] = c THEN "gone" ELSE stage[c]]
  /\ queue' = <<>>
  /\ UNCHANGED <<up, fd, threads, children, unread, req, got, starts>>

(* start() fails at bind() while a socket listens on the port; SO_REUSEADDR *)
(* helps against connections only.  Children that ended have been waited   *)
(* for by init.                                                            *)
Start ==
  /\ ~up /\ ~Orphaned /\ queue = <<>> /\ starts < MaxStarts
  /\ up' = TRUE /\ starts' = starts + 1
  /\ child' = [c \in Clients |-> IF child[c] = "zombie" THEN "reaped" ELSE child[c]]
  /\ UNCHANGED <<queue, fd, threads, inherited, fed, out, clients>>

(* What clients send on a connection of a dead server is left out.         *)
RestartStep(c) ==
  /\ \/ Connect(c) \/ ThreadStep(c) \/ ChildRuns(c)
     \/ pc[c] # "done" /\ (SendHead(c) \/ SendBody(c))
  /\ UNCHANGED starts

RestartNext ==
  \/ \E c \in Clients : RestartStep(c) \/ ConnectToNobody(c)
  \/ Accept /\ UNCHANGED starts
  \/ Die \/ ResetQueue \/ Start

(* The server is started again until it runs, and accepts; programs run.   *)
(* Nothing is asked of the clients, nor of the threads.                    *)
RestartSpec ==
  /\ RestartInit /\ [][RestartNext]_rvars
  /\ WF_rvars(ResetQueue) /\ WF_rvars(Start) /\ WF_rvars(Accept /\ UNCHANGED starts)
  /\ \A c \in Clients : WF_rvars(ChildRuns(c) /\ UNCHANGED starts)
-----------------------------------------------------------------------------
(* When a server runs, all programs that run are its own: none of an       *)
(* earlier life still writes to a connection or holds a pipe.              *)
OneLife == up => \A c \in Clients : child[c] = "running" => Running(c)

(* Programs that wait for the end of an input which they themselves keep   *)
(* open, each for another.                                                 *)
Waiting(c)   == child[c] = "running" /\ ReadsBody(job[c]) /\ ~fed[c]
Cycle == \E S \in SUBSET Clients :
           /\ S # {} /\ \A c \in S : Waiting(c)
           /\ \A c \in S : \E d \in S \ {c} : Obj("in_w", c) \in inherited[d]

(* A server that died runs again, unless two of its programs wait for each  *)
(* other.                                                                  *)
Restarts == ~up ~> (up \/ Cycle \/ starts = MaxStarts)

(* A connection that waits to be accepted is accepted or reset, also when   *)
(* it was made while there was no server, with the same exception.         *)
Queued(c) == \E i \in DOMAIN queue : queue[i] = c
Settled   == \A c \in Clients : Queued(c) ~> (~Queued(c) \/ Cycle)

(* A program whose server died comes to the end of its input: its data     *)
(* come from the parent alone.                                             *)
InputEnds == \A c \in Clients : (~up /\ child[c] = "running") ~> child[c] # "running"
=============================================================================
