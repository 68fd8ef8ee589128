---------------------------- MODULE HttpdServes ----------------------------
(***************************************************************************)
(* Httpd implements HttpService where nothing fails and nobody leaves: any *)
(* number of clients, five descriptors and one child for each of them, and *)
(* requests that do not come to a second close or a broken pipe.           *)
(***************************************************************************)
EXTENDS HttpdAnswers, FiniteSetTheorems

USE DEF Roles

(* Where a thread is when no call has failed. *)
Smooth == {"none", "orphan", "request", "bad_request", "not_found", "echoed", "open", "html_head",
           "sendfile", "close_file", "cgi_head", "pipe_in", "pipe_out", "fork", "parent", "feed",
           "relay", "close_pipes", "wait", "close", "done"}

Calm == up /\ \A c \in Clients : pc[c] \in Smooth /\ stage[c] # "gone" /\ Clean(req[c])
-----------------------------------------------------------------------------
(* What a thread holds at most, one at a time: a file and the read end of  *)
(* its child's input take turns.                                           *)
Slots == {"sock", "in_r", "in_w", "out_r", "out_w"}
Slot(o) == <<o.of, IF o.kind = "file" THEN "in_r" ELSE o.kind>>

(* Five slots. *)
LEMMA FiveSlots == IsFiniteSet(Slots) /\ Cardinality(Slots) = 5
<1>1. IsFiniteSet({"sock"}) /\ Cardinality({"sock"}) = 1
  BY FS_Singleton
<1>2. ASSUME NEW S, NEW x, NEW T, NEW n \in Nat, IsFiniteSet(S), Cardinality(S) = n, x \notin S, T = S \cup {x}
      PROVE  IsFiniteSet(T) /\ Cardinality(T) = n + 1
  BY <1>2, FS_AddElement
<1>3. IsFiniteSet({"sock", "in_r"}) /\ Cardinality({"sock", "in_r"}) = 2
  <2>1. "in_r" \notin {"sock"} /\ {"sock", "in_r"} = {"sock"} \cup {"in_r"}
    OBVIOUS
  <2> QED
    BY <1>1, <1>2, <2>1
<1>4. IsFiniteSet({"sock", "in_r", "in_w"}) /\ Cardinality({"sock", "in_r", "in_w"}) = 3
  <2>1. "in_w" \notin {"sock", "in_r"} /\ {"sock", "in_r", "in_w"} = {"sock", "in_r"} \cup {"in_w"}
    OBVIOUS
  <2> QED
    BY <1>2, <1>3, <2>1
<1>5. IsFiniteSet(Slots \ {"out_w"}) /\ Cardinality(Slots \ {"out_w"}) = 4
  <2>1. "out_r" \notin {"sock", "in_r", "in_w"} /\ Slots \ {"out_w"} = {"sock", "in_r", "in_w"} \cup {"out_r"}
    BY DEF Slots
  <2> QED
    BY <1>2, <1>4, <2>1
<1>6. "out_w" \notin Slots \ {"out_w"} /\ Slots = (Slots \ {"out_w"}) \cup {"out_w"}
  BY DEF Slots
<1> QED
  BY <1>2, <1>5, <1>6

(* A thread that has to take descriptors finds two, however many the other *)
(* threads hold.                                                           *)
LEMMA Spare ==
  ASSUME TypeOK, HoldsOwn, NoStray, NEW c \in Clients, pc[c] \in {"open", "pipe_in", "pipe_out"},
         Plenty
  PROVE  IsFiniteSet(Free) /\ Cardinality(Free) >= 2
<1> DEFINE Used == FDs \ Free
           All == Clients \X Slots
           Left == (All \ {<<c, "out_r">>}) \ {<<c, "out_w">>}
<1>1. IsFiniteSet(All) /\ Cardinality(All) = Cardinality(Clients) * 5
  BY FiveSlots, FS_Product DEF Plenty
<1>2. IsFiniteSet(Left) /\ Cardinality(Left) = Cardinality(All) - 2
  <2>1. <<c, "out_r">> \in All /\ <<c, "out_w">> \in All \ {<<c, "out_r">>}
    BY DEF Slots
  <2> DEFINE Rest == All \ {<<c, "out_r">>}
  <2> HIDE DEF All
  <2>2. IsFiniteSet(Rest) /\ Cardinality(Rest) = Cardinality(All) - 1
    BY <1>1, <2>1, FS_RemoveElement
  <2>3. Cardinality(All) \in Nat
    BY <1>1, FS_CardinalityType
  <2> HIDE DEF Rest
  <2>4. IsFiniteSet(Rest \ {<<c, "out_w">>}) /\ Cardinality(Rest \ {<<c, "out_w">>}) = Cardinality(Rest) - 1
    BY <2>1, <2>2, FS_RemoveElement DEF Rest
  <2> QED
    BY <2>2, <2>3, <2>4 DEF Rest
<1> DEFINE f == [n \in Used |-> Slot(fd[n])]
<1>3. f \in [Used -> Left]
  <2> SUFFICES ASSUME NEW n \in Used PROVE Slot(fd[n]) \in Left
    OBVIOUS
  <2>1. PICK d \in Clients, r \in Roles : Holds(d, r) /\ fd[n] = Obj(r, d)
    BY DEF NoStray, HoldsOwn, Free
  <2>2. Slot(fd[n]) = <<d, IF r = "file" THEN "in_r" ELSE r>>
    BY <2>1 DEF Slot, Obj
  <2>3. d = c => r \notin {"out_r", "out_w"}
    BY <2>1 DEF Holds, HeldAt
  <2> QED
    BY <2>2, <2>3 DEF Slots
<1>4. ASSUME NEW m \in Used, NEW n \in Used, f[m] = f[n] PROVE m = n
  <2>1. PICK d \in Clients, r \in Roles : Holds(d, r) /\ loc[d][r] = m /\ fd[m] = Obj(r, d)
    BY DEF NoStray, HoldsOwn, Free
  <2>2. PICK e \in Clients, s \in Roles : Holds(e, s) /\ loc[e][s] = n /\ fd[n] = Obj(s, e)
    BY DEF NoStray, HoldsOwn, Free
  <2>3. /\ Slot(fd[m]) = <<d, IF r = "file" THEN "in_r" ELSE r>>
        /\ Slot(fd[n]) = <<e, IF s = "file" THEN "in_r" ELSE s>>
    BY <2>1, <2>2 DEF Slot, Obj
  <2>4. Slot(fd[m]) = Slot(fd[n])
    BY <1>4
  <2>5. d = e /\ (r = s \/ {r, s} = {"file", "in_r"})
    BY <2>3, <2>4
  <2>6. ~(Holds(d, "file") /\ Holds(d, "in_r"))
    BY DEF Holds, HeldAt
  <2> QED
    BY <2>1, <2>2, <2>5, <2>6
<1>5. f \in Injection(Used, Left)
  BY <1>3, <1>4 DEF Injection, IsInjective
<1>6. Cardinality(Used) <= Cardinality(Left)
  BY <1>2, <1>5, FS_Injection
<1>7. /\ IsFiniteSet(FDs) /\ Free \subseteq FDs /\ IsFiniteSet(Free) /\ IsFiniteSet(Used)
      /\ Cardinality(Used) = Cardinality(FDs) - Cardinality(Free)
  <2>1. IsFiniteSet(FDs) /\ Free \subseteq FDs /\ FDs \cap Free = Free
    BY DEF Plenty, Free
  <2>2. IsFiniteSet(Free)
    BY <2>1, FS_Subset
  <2> HIDE DEF f, Used
  <2>3. IsFiniteSet(FDs \ Free) /\ Cardinality(FDs \ Free) = Cardinality(FDs) - Cardinality(FDs \cap Free)
    BY <2>1, FS_Difference
  <2> QED
    BY <2>1, <2>2, <2>3 DEF Used
<1>8. /\ Cardinality(FDs) \in Nat /\ Cardinality(Free) \in Nat /\ Cardinality(Clients) \in Nat
      /\ Cardinality(FDs) >= 5 * Cardinality(Clients)
  BY <1>7, FS_CardinalityType DEF Plenty
<1> QED
  BY <1>1, <1>2, <1>6, <1>7, <1>8

(* A thread that forks is not among those that have a child. *)
LEMMA MayFork ==
  ASSUME Plenty, NEW c \in Clients, child[c] = "none"
  PROVE  Cardinality({d \in Clients : child[d] \in {"running", "zombie"}}) < MaxProcs
<1> DEFINE With == {d \in Clients : child[d] \in {"running", "zombie"}}
<1>1. With \subseteq Clients \ {c}
  OBVIOUS
<1>2. IsFiniteSet(Clients) /\ MaxProcs >= Cardinality(Clients)
  BY DEF Plenty
<1>3. /\ IsFiniteSet(Clients \ {c}) /\ Cardinality(Clients \ {c}) = Cardinality(Clients) - 1
      /\ Cardinality(Clients) \in Nat
  BY <1>2, FS_RemoveElement, FS_CardinalityType
<1>4. Cardinality(With) <= Cardinality(Clients \ {c}) /\ Cardinality(With) \in Nat
  BY <1>1, <1>3, FS_Subset, FS_CardinalityType
<1> QED
  BY <1>2, <1>3, <1>4, LimitsAssumption
-----------------------------------------------------------------------------
(* With that, no call of a thread fails. *)
LEMMA CalmThread ==
  ASSUME TypeOK, HoldsOwn, NoStray, Plenty, Calm, NEW c \in Clients, Course(c), ThreadStep(c)
  PROVE  up' /\ (\E l \in Smooth : Goto(c, l) \/ pc' = pc) /\ stage' = stage /\ req' = req
<1>0. OnWay(pc[c], job[c]) /\ pc[c] \in Smooth /\ stage[c] # "gone" /\ Clean(req[c])
  BY DEF Course, Calm
<1>00. pc[c] \notin NotYet => job[c] = req[c]
  BY DEF Course, Asked
<1>1. CASE ReadRequest(c)
  <2>1. PICK r : Goto(c, Route(r))
    BY <1>1, ReadOwn
  <2> QED
    BY <1>1, <2>1, Routes DEF ReadRequest, Smooth
<1>2. CASE EchoError(c)
  <2>1. pc[c] \in {"bad_request", "not_found"}
    BY <1>0, <1>2 DEF EchoError, ErrorExits, Smooth
  <2>2. Goto(c, "echoed")
    BY <1>2, <2>1 DEF EchoError, ErrorExits
  <2> QED
    BY <1>2, <2>2 DEF EchoError, Smooth
<1>3. CASE EchoClose(c)
  <2>1. pc[c] = "echoed"
    BY <1>0, <1>3 DEF EchoClose, AfterEcho, Smooth
  <2>2. Goto(c, "done")
    BY <1>3, <2>1 DEF EchoClose, AfterEcho
  <2> QED
    BY <1>3, <2>2 DEF EchoClose, clients, Smooth
<1>4. CASE CloseConnection(c)
  <2>1. pc[c] = "close"
    BY <1>0, <1>4 DEF CloseConnection, Smooth
  <2> QED
    BY <1>4, <2>1 DEF CloseConnection, clients, Smooth
<1>5. CASE OpenFile(c)
  <2>1. pc[c] = "open"
    BY <1>5 DEF OpenFile
  <2>2. job[c].file # "bare"
    BY <1>0, <1>00, <2>1, Ways DEF Clean, NotYet
  <2>3. Free # {}
    BY <2>1, Spare, FS_EmptySet
  <2> QED
    BY <1>5, <2>2, <2>3 DEF OpenFile, clients, Smooth
<1>6. CASE SendFile(c)
  BY <1>0, <1>6, SendFileOwn DEF Calm, Smooth
<1>7. CASE CgiHead(c)
  <2>1. pc[c] = "cgi_head"
    BY <1>7 DEF CgiHead
  <2>2. ~(job[c].method = "POST" /\ job[c].len = "minus1")
    BY <1>0, <1>00, <2>1, Ways DEF Clean, NotYet
  <2> QED
    BY <1>7, <2>2 DEF CgiHead, clients, Smooth
<1>8. CASE PipeIn(c)
  <2>1. pc[c] = "pipe_in"
    BY <1>8 DEF PipeIn
  <2>2. Cardinality(Free) \in Nat /\ ~(Cardinality(Free) < 2)
    BY <2>1, Spare, FS_CardinalityType
  <2> QED
    BY <1>8, <2>2 DEF PipeIn, PipeFails, MakePipe, clients, Smooth
<1>9. CASE PipeOut(c)
  <2>1. pc[c] = "pipe_out"
    BY <1>9 DEF PipeOut
  <2>2. Cardinality(Free) \in Nat /\ ~(Cardinality(Free) < 2)
    BY <2>1, Spare, FS_CardinalityType
  <2> QED
    BY <1>9, <2>2 DEF PipeOut, PipeFails, MakePipe, clients, Smooth
<1>10. CASE Fork(c)
  <2>1. child[c] = "none"
    BY <1>10 DEF Fork, Course, Relayed
  <2>2. Goto(c, "parent")
    BY <1>10, <2>1, MayFork DEF Fork
  <2> QED
    BY <1>10, <2>2 DEF Fork, clients, Smooth
<1>11. CASE Feed(c)
  BY <1>11 DEF Feed, Smooth
<1>12. CASE Relay(c)
  BY <1>12, RelayOwn DEF Calm, threads, Smooth
<1>13. CASE DropIn(c)
  BY <1>0, <1>13 DEF DropIn, Smooth
<1>14. CASE HtmlHead(c) \/ CloseFile(c) \/ ParentCloses(c) \/ RelayEnds(c) \/ ClosePipes(c) \/ WaitChild(c)
  BY <1>14 DEF HtmlHead, CloseFile, ParentCloses, RelayEnds, ClosePipes, WaitChild, clients, Smooth
<1>15. up'
  BY DEF Calm, ThreadStep, ReadRequest, EchoError, EchoClose, CloseConnection, OpenFile, HtmlHead,
         SendFile, CloseFile, CgiHead, PipeIn, PipeOut, DropIn, Fork, ParentCloses, Feed, Relay,
         RelayEnds, ClosePipes, WaitChild
<1> QED
  BY <1>1, <1>2, <1>3, <1>4, <1>5, <1>6, <1>7, <1>8, <1>9, <1>10, <1>11, <1>12, <1>13, <1>14,
     <1>15 DEF ThreadStep

(* Nobody writes to a pipe that nobody can read, nor to a client that left. *)
LEMMA NoBrokenPipe ==
  ASSUME TypeOK, HoldsOwn, Calm, NEW c \in Clients, Course(c)
  PROVE  ~BrokenPipe(c)
<1> SUFFICES ASSUME BrokenPipe(c) PROVE FALSE
  OBVIOUS
<1>1. OnWay(pc[c], job[c]) /\ stage[c] # "gone" /\ Clean(req[c]) /\ (pc[c] \notin NotYet => job[c] = req[c])
  BY DEF Course, Calm, Asked
<1>2. CASE pc[c] \in Sending
  <2>1. Holds(c, "sock")
    BY <1>2 DEF Sending, ErrorExits, Holds, HeldAt, Labels
  <2>2. At(c, "sock").kind = "sock" /\ At(c, "sock").of = c /\ pc[c] # "feed"
    <3>1. At(c, "sock") = Obj("sock", c)
      BY <2>1, OwnDenoted
    <3> QED
      BY <1>2, <3>1 DEF Obj, Sending, ErrorExits
  <2> QED
    BY <1>1, <2>2 DEF BrokenPipe, Unreadable
<1>3. CASE pc[c] = "feed" /\ Unreadable(At(c, "in_w"))
  <2>1. Holds(c, "in_w")
    BY <1>3 DEF Holds, HeldAt
  <2>2. ~Open(Obj("in_r", c))
    <3>1. At(c, "in_w") = Obj("in_w", c)
      BY <2>1, OwnDenoted
    <3>2. At(c, "in_w").kind = "in_w" /\ At(c, "in_w").of = c
      BY <3>1 DEF Obj
    <3> QED
      BY <1>3, <3>2 DEF Unreadable
  <2>3. ReadsBody(job[c])
    BY <1>1, <1>3, Ways DEF Clean, NotYet
  <2>4. child[c] = "running"
    BY <1>3, <2>3 DEF Course, Relayed
  <2>5. Obj("in_r", c) \in inherited[c]
    BY <2>4 DEF Course, Relayed
  <2> QED
    BY <2>2, <2>5 DEF Open
<1> QED
  BY <1>2, <1>3 DEF BrokenPipe, Sending

(* With five descriptors and one child for each connection, and requests   *)
(* that come to none of the two bad ends, no call fails, whatever the      *)
(* interleaving: no connection is closed twice and no send() kills the     *)
(* process.                                                                *)
THEOREM Calmness == Plenty => (Spec => []Calm)
<1> SUFFICES ASSUME Plenty PROVE Spec => []Calm
  OBVIOUS
<1>0. Clean(NoRequest)
  BY DEF Clean, NoRequest, Route
<1>1. Init => Calm
  BY <1>0 DEF Init, Calm, Smooth
<1>2. TypeOK /\ Fresh /\ Accounting /\ OnCourse /\ Calm /\ [Next]_vars => Calm'
  <2> SUFFICES ASSUME TypeOK, Fresh, Accounting, OnCourse, Calm, [Next]_vars PROVE Calm'
    OBVIOUS
  <2>1. NoSecondClose
    BY DEF Calm, Smooth, NoSecondClose
  <2>2. HoldsOwn /\ NoStray /\ \A c \in Clients : Course(c)
    BY <2>1 DEF Calm, Accounting, OnCourse
  <2>3. ASSUME NEW c \in Clients, Connect(c) \/ SendHead(c) \/ SendBody(c) \/ Leave(c) PROVE Calm'
    <3>1. CASE Connect(c)
      BY <3>1 DEF TypeOK, Calm, Connect, threads
    <3>2. CASE SendHead(c)
      BY <3>2 DEF TypeOK, Calm, SendHead, threads, Plenty
    <3>3. CASE SendBody(c)
      BY <3>3 DEF TypeOK, Calm, SendBody, threads
    <3>4. CASE Leave(c)
      BY <3>4 DEF Leave, Plenty
    <3> QED
      BY <2>3, <3>1, <3>2, <3>3, <3>4
  <2>4. CASE Accept
    <3>1. PICK l \in {"request", "orphan"} : Goto(Head(queue), l)
      BY <2>4 DEF Accept
    <3>2. up' = up /\ stage' = stage /\ req' = req
      BY <2>4 DEF Accept, clients
    <3> QED
      BY <3>1, <3>2 DEF TypeOK, Goto, Calm, Smooth
  <2>5. ASSUME NEW c \in Clients, ThreadStep(c) PROVE Calm'
    <3>1. /\ up' /\ stage' = stage /\ req' = req
          /\ \E l \in Smooth : Goto(c, l) \/ pc' = pc
      BY <2>2, <2>5, CalmThread
    <3> QED
      BY <3>1 DEF TypeOK, Goto, Calm
  <2>6. ASSUME NEW c \in Clients, BrokenPipe(c) PROVE FALSE
    BY <2>2, <2>6, NoBrokenPipe
  <2>7. CASE UNCHANGED <<up, pc, stage, req>>
    BY <2>7 DEF Calm
  <2> QED
    BY <2>3, <2>4, <2>5, <2>6, <2>7 DEF Next, AcceptFails, ChildRuns, Quiet, vars, threads, clients
<1> QED
  BY <1>1, <1>2, Typing, Freshness, DescriptorAccounts, Courses, PTL DEF Spec

(* So the server stays up. *)
THEOREM StaysUp == Plenty => (Spec => []Survives)
<1> SUFFICES ASSUME Plenty PROVE Spec => []Survives
  OBVIOUS
<1>1. Calm => Survives
  BY DEF Calm, Survives
<1>2. Spec => []Calm
  BY Calmness
<1> QED
  BY <1>1, <1>2, PTL
-----------------------------------------------------------------------------
(***************************************************************************)
(* The steps of HttpService, as steps of Httpd.                            *)
(***************************************************************************)
PhaseOf(c) ==
  CASE stage[c] = "away" -> "away"
    [] stage[c] # "away" /\ Ended(c) -> "closed"
    [] stage[c] = "idle" /\ ~Ended(c) -> "open"
    [] OTHER -> "asked"

(* A client connects. *)
LEMMA Opens ==
  ASSUME NEW c \in Clients, PhaseOf(c) = "away", PhaseOf(c)' = "open",
         \A d \in Clients \ {c} : PhaseOf(d)' = PhaseOf(d),
         req' = req, \A d \in Clients : Sent(d)' = Sent(d)
  PROVE  Service!Open(c)
BY DEF Service!Open, PhaseOf

(* A client asks. *)
LEMMA Asks ==
  ASSUME NEW c \in Clients, PhaseOf(c) = "open", PhaseOf(c)' = "asked",
         \A d \in Clients \ {c} : PhaseOf(d)' = PhaseOf(d),
         \E r \in Requests : req' = [req EXCEPT ![c] = r], \A d \in Clients : Sent(d)' = Sent(d)
  PROVE  Service!Ask(c)
BY DEF Service!Ask, PhaseOf

(* A client is sent the next piece of its reply. *)
LEMMA Answers ==
  ASSUME NEW c \in Clients, PhaseOf(c) = "asked", req[c] \in Request,
         \A d \in Clients : PhaseOf(d)' = PhaseOf(d), req' = req,
         \A d \in Clients \ {c} : Sent(d)' = Sent(d),
         Len(Sent(c)) < Len(Proper(req[c])),
         Sent(c)' = Append(Sent(c), Proper(req[c])[Len(Sent(c)) + 1])
  PROVE  Service!Answer(c)
BY DEF Service!Answer, PhaseOf

(* Connections end. *)
LEMMA Ends ==
  ASSUME NEW S \in SUBSET Clients,
         \A c \in S : PhaseOf(c) = "asked" /\ PhaseOf(c)' = "closed" /\ Sent(c) = Proper(req[c])
                      /\ req[c] \in Request,
         \A d \in Clients \ S : PhaseOf(d)' = PhaseOf(d),
         req' = req, \A d \in Clients : Sent(d)' = Sent(d)
  PROVE  Service!Close(S)
BY DEF Service!Close, PhaseOf

(* Nothing happens that a client can see. *)
LEMMA Stutters ==
  ASSUME \A d \in Clients : PhaseOf(d)' = PhaseOf(d) /\ Sent(d)' = Sent(d), req' = req
  PROVE  UNCHANGED Service!vars
BY DEF Service!vars, PhaseOf

(* A connection that has ended was answered. *)
Over == \A c \in Clients : Ended(c) => stage[c] \notin {"away", "idle"} /\ Sent(c) = Proper(req[c])

(* Where nothing fails, a connection that has ended everywhere has had the *)
(* proper reply.                                                           *)
LEMMA EndedAnswered ==
  ASSUME TypeOK, HoldsOwn, Calm, NEW c \in Clients, Course(c), Ended(c)
  PROVE  stage[c] \notin {"away", "idle"} /\ Sent(c) = Proper(req[c])
<1>1. pc[c] = "done"
  <2>1. pc[c] \in Smooth /\ pc[c] \in Labels /\ pc[c] # "none"
    BY DEF Calm, TypeOK, Ended
  <2>2. ~Holds(c, "sock")
    BY OwnDenoted DEF Ended
  <2> QED
    BY <2>1, <2>2 DEF Holds, HeldAt, Smooth
<1>2. stage[c] \notin {"away", "idle"} /\ job[c] = req[c] /\ stage[c] # "gone"
  BY <1>1 DEF Course, Asked, NotYet, Calm
<1>3. Sent(c) \in SentAt("done", job[c])
  BY <1>1, <1>2 DEF Course, Told
<1> QED
  BY <1>2, <1>3, Due

(* A step that ends some connections and says nothing. *)
LEMMA Quietly ==
  ASSUME TypeOK, UNCHANGED <<stage, req, got>>,
         \A d \in Clients : Ended(d) => Ended(d)',
         \A d \in Clients : Ended(d)' => stage[d] \notin {"away", "idle"} /\ Sent(d) = Proper(req[d])
  PROVE  Service!Next
<1>0. PICK S \in SUBSET Clients : \A d \in Clients : d \in S <=> ~Ended(d) /\ Ended(d)'
  <2> DEFINE T == {d \in Clients :
                     /\ ~Ended(d) /\ pc'[d] # "none"
                     /\ \A n \in FDs : fd'[n] # Obj("sock", d)
                     /\ \A e \in Clients : Obj("sock", d) \notin inherited'[e]}
  <2>1. T \in SUBSET Clients /\ \A d \in Clients : d \in T <=> ~Ended(d) /\ Ended(d)'
    BY DEF Ended, Open
  <2> HIDE DEF T
  <2> QED
    BY <2>1
<1>1. ASSUME NEW c \in Clients, c \in S
      PROVE  PhaseOf(c) = "asked" /\ PhaseOf(c)' = "closed" /\ Sent(c) = Proper(req[c]) /\ req[c] \in Request
  BY <1>0, <1>1 DEF PhaseOf, TypeOK
<1>2. ASSUME NEW d \in Clients \ S PROVE PhaseOf(d)' = PhaseOf(d)
  BY <1>0, <1>2 DEF PhaseOf
<1>3. \A d \in Clients : Sent(d)' = Sent(d)
  BY DEF Sent
<1>4. \A c \in S : /\ PhaseOf(c) = "asked" /\ PhaseOf(c)' = "closed"
                  /\ Sent(c) = Proper(req[c]) /\ req[c] \in Request
  BY <1>1
<1>5. Service!Close(S)
  BY <1>2, <1>3, <1>4, Ends
<1> QED
  BY <1>5 DEF Service!Next

(* A step that sends the next piece of the reply, and ends nothing. *)
LEMMA Speaks ==
  ASSUME TypeOK, HoldsOwn, NEW c \in Clients, Course(c), Holds(c, "sock"), pc[c] \notin NotYet,
         NEW w \in Said, Receives(Obj("sock", c), c, w), stage[c] # "gone",
         UNCHANGED <<fd, inherited, stage, req>>, \A d \in Clients : pc'[d] = "none" <=> pc[d] = "none",
         \/ Sent(c) = <<>> /\ \E y : Proper(req[c]) \in {<<w>>, <<w, y>>}
         \/ \E x : Sent(c) = <<x>> /\ Proper(req[c]) = <<x, w>>
  PROVE  Service!Next
<1>1. \A d \in Clients : Ended(d)' = Ended(d)
  BY DEF Ended, Open
<1>2. \A d \in Clients : PhaseOf(d)' = PhaseOf(d)
  BY <1>1 DEF PhaseOf
<1>3. PhaseOf(c) = "asked"
  <2>1. ~Ended(c)
    BY OwnDenoted DEF Ended
  <2> QED
    BY <2>1 DEF PhaseOf, Course, Asked
<1>4. Sent(c)' = Append(Sent(c), w) /\ \A d \in Clients \ {c} : Sent(d)' = Sent(d)
  BY Tells DEF Sent
<1>5. Len(Sent(c)) < Len(Proper(req[c])) /\ Proper(req[c])[Len(Sent(c)) + 1] = w
  <2>1. CASE Sent(c) = <<>>
    <3>1. PICK y : Proper(req[c]) \in {<<w>>, <<w, y>>}
      BY <2>1
    <3>2. Len(<<w>>) = 1 /\ <<w>>[1] = w /\ Len(<<w, y>>) = 2 /\ <<w, y>>[1] = w
      OBVIOUS
    <3>3. Len(Sent(c)) = 0
      BY <2>1
    <3> QED
      BY <3>1, <3>2, <3>3
  <2>2. CASE Sent(c) # <<>>
    <3>1. PICK x : Sent(c) = <<x>> /\ Proper(req[c]) = <<x, w>>
      BY <2>2
    <3>2. Len(<<x>>) = 1 /\ Len(<<x, w>>) = 2 /\ <<x, w>>[2] = w
      OBVIOUS
    <3> QED
      BY <3>1, <3>2
  <2> QED
    BY <2>1, <2>2
<1>6. Service!Answer(c)
  BY <1>2, <1>3, <1>4, <1>5, Answers DEF TypeOK
<1> QED
  BY <1>6 DEF Service!Next

(* No step of a thread opens a connection again, nor gives it to a child   *)
(* after the server has closed it.                                         *)
LEMMA NotReopened ==
  ASSUME TypeOK, NEW c \in Clients, ThreadStep(c), NEW d \in Clients, Ended(d)
  PROVE  Ended(d)'
<1>. DOMAIN pc = Clients /\ DOMAIN inherited = Clients /\ DOMAIN fd = FDs
  BY DEF TypeOK
<1>1. pc'[d] # "none"
  <2>1. ASSUME NEW l, Goto(c, l), l # "none" PROVE pc'[d] # "none"
    BY <2>1 DEF Ended, Goto
  <2>2. CASE ReadRequest(c)
    <3>1. PICK r : Goto(c, Route(r))
      BY <2>2 DEF ReadRequest
    <3> QED
      BY <2>1, <3>1, Routes
  <2>3. CASE EchoError(c) \/ EchoClose(c)
    BY <2>1, <2>3 DEF EchoError, ErrorExits, EchoClose, AfterEcho
  <2>4. CASE CloseConnection(c) \/ OpenFile(c) \/ HtmlHead(c) \/ SendFile(c) \/ CloseFile(c) \/ CgiHead(c)
    BY <2>1, <2>4 DEF CloseConnection, OpenFile, HtmlHead, SendFile, CloseFile, CgiHead
  <2>5. CASE PipeIn(c) \/ PipeOut(c) \/ DropIn(c) \/ Fork(c) \/ ParentCloses(c) \/ Feed(c)
    BY <2>1, <2>5 DEF PipeIn, PipeOut, MakePipe, PipeFails, DropIn, Fork, ParentCloses, Feed
  <2>6. CASE Relay(c) \/ RelayEnds(c) \/ ClosePipes(c) \/ WaitChild(c)
    BY <2>1, <2>6 DEF Ended, Relay, RelayEnds, ClosePipes, WaitChild
  <2> QED
    BY <2>2, <2>3, <2>4, <2>5, <2>6 DEF ThreadStep
<1>2. ASSUME NEW n \in FDs, fd'[n] = Obj("sock", d) PROVE fd[n] = Obj("sock", d)
  <2>1. \A R : fd' = CloseIn(fd, c, R) => fd[n] = Obj("sock", d)
    BY <1>2 DEF CloseIn, Obj, Closed
  <2>2. \A r \in Roles \ {"sock"}, m \in FDs : fd' = [fd EXCEPT ![m] = Obj(r, c)] => fd[n] = Obj("sock", d)
    BY <1>2 DEF Obj
  <2>3. ASSUME NEW r \in Roles \ {"sock"}, NEW w \in Roles \ {"sock"}, NEW l, MakePipe(c, r, w, l)
        PROVE  fd[n] = Obj("sock", d)
    <3>1. PICK m \in FDs, k \in FDs : fd' = [fd EXCEPT ![m] = Obj(r, c), ![k] = Obj(w, c)]
      BY <2>3 DEF MakePipe
    <3> QED
      BY <1>2, <3>1 DEF Obj
  <2>4. fd' = fd => fd[n] = Obj("sock", d)
    BY <1>2
  <2>5. CASE OpenFile(c)
    BY <2>2, <2>4, <2>5 DEF OpenFile
  <2>6. CASE PipeIn(c) \/ PipeOut(c)
    BY <2>3, <2>4, <2>6 DEF PipeIn, PipeOut, PipeFails
  <2> QED
    BY <2>1, <2>4, <2>5, <2>6 DEF ThreadStep, ReadRequest, EchoError, EchoClose,
       CloseConnection, HtmlHead, SendFile, CloseFile, CgiHead, DropIn, Fork, ParentCloses, Feed, Relay,
       RelayEnds, ClosePipes, WaitChild
<1>3. ASSUME NEW e \in Clients, Obj("sock", d) \in inherited'[e] PROVE Open(Obj("sock", d))
  <2>1. inherited' = inherited => Open(Obj("sock", d))
    BY <1>3 DEF Open
  <2>2. inherited' = [inherited EXCEPT ![c] = Copied(c)] => Open(Obj("sock", d))
    BY <1>3 DEF Open, Copied
  <2> QED
    BY <2>1, <2>2 DEF ThreadStep, ReadRequest, EchoError, EchoClose, children, 
       CloseConnection, OpenFile, HtmlHead, SendFile, CloseFile, CgiHead, PipeIn, PipeOut,
       DropIn, Fork, ParentCloses, Feed, Relay, RelayEnds, ClosePipes, WaitChild
<1> QED
  BY <1>1, <1>2, <1>3 DEF Ended, Open

(* The calls that send do send the next piece of the reply. *)
LEMMA NextPiece ==
  ASSUME TypeOK, HoldsOwn, Calm, NEW c \in Clients, Course(c),
         EchoError(c) \/ HtmlHead(c) \/ SendFile(c) \/ CgiHead(c) \/ Relay(c)
  PROVE  Service!Next
<1>. DOMAIN pc = Clients
  BY DEF TypeOK
<1>0. /\ OnWay(pc[c], job[c]) /\ pc[c] \in Smooth /\ stage[c] # "gone" /\ Clean(req[c])
      /\ Sent(c) \in SentAt(pc[c], job[c])
      /\ pc[c] \notin NotYet => job[c] = req[c]
  BY DEF Course, Calm, Told, Asked
<1>1. ASSUME NEW w \in Said, NEW l, Receives(Obj("sock", c), c, w), Goto(c, l) \/ pc' = pc, l # "none",
             pc[c] \in {"bad_request", "not_found", "html_head", "sendfile", "cgi_head", "relay"},
             UNCHANGED <<fd, inherited, stage, req>>,
             \/ Sent(c) = <<>> /\ \E y : Proper(req[c]) \in {<<w>>, <<w, y>>}
             \/ \E x : Sent(c) = <<x>> /\ Proper(req[c]) = <<x, w>>
      PROVE  Service!Next
  <2>1. Holds(c, "sock") /\ pc[c] \notin NotYet
    BY <1>1 DEF Holds, HeldAt, Labels, NotYet
  <2>2. \A d \in Clients : pc'[d] = "none" <=> pc[d] = "none"
    BY <1>1 DEF Goto
  <2> QED
    BY <1>0, <1>1, <2>1, <2>2, Speaks
<1>2. CASE EchoError(c)
  <2>1. pc[c] \in {"bad_request", "not_found"}
    BY <1>0, <1>2 DEF EchoError, ErrorExits, Smooth
  <2>2. PICK w \in {"400", "404"} :
          /\ Receives(Obj("sock", c), c, w) /\ Goto(c, "echoed")
          /\ w = (IF pc[c] = "bad_request" THEN "400" ELSE "404")
    <3>1. Goto(c, "echoed") /\ ErrorExits[pc[c]].code = IF pc[c] = "bad_request" THEN "400" ELSE "404"
      BY <1>2, <2>1 DEF EchoError, ErrorExits
    <3> QED
      BY <1>2, <2>1, <3>1, EchoOwn
  <2>3. Sent(c) = <<>>
    BY <1>0, <2>1, Due
  <2>4. Proper(req[c]) = <<w>>
    BY <1>0, <2>1, <2>2, Ways, Replies DEF NotYet
  <2> QED
    BY <1>1, <1>2, <2>1, <2>2, <2>3, <2>4 DEF EchoError, children, Said
<1>3. CASE HtmlHead(c)
  <2>1. pc[c] = "html_head" /\ Goto(c, "sendfile") /\ Receives(Obj("sock", c), c, "200")
    BY <1>3, HeadOwn DEF HtmlHead
  <2>2. Sent(c) = <<>>
    BY <1>0, <2>1, Due
  <2>3. Proper(req[c]) = <<"200", "page">>
    BY <1>0, <2>1, Ways, Replies DEF NotYet
  <2> QED
    BY <1>1, <1>3, <2>1, <2>2, <2>3 DEF HtmlHead, children, Said
<1>4. CASE SendFile(c)
  <2>1. /\ pc[c] = "sendfile" /\ Goto(c, "close_file") /\ Receives(Obj("sock", c), c, "page")
        /\ UNCHANGED <<fd, children, stage, req>>
    BY <1>0, <1>4, SendFileOwn
  <2>2. Sent(c) = <<"200">>
    BY <1>0, <2>1, Due
  <2>3. Proper(req[c]) = <<"200", "page">>
    BY <1>0, <2>1, Ways, Replies DEF NotYet
  <2> QED
    BY <1>1, <2>1, <2>2, <2>3 DEF children, Said
<1>5. CASE CgiHead(c)
  <2>1. pc[c] = "cgi_head"
    BY <1>5 DEF CgiHead
  <2>2. Route(req[c]) = "cgi_head" /\ job[c] = req[c]
    BY <1>0, <2>1, Ways DEF NotYet
  <2>3. ~NoLength(req[c])
    BY <1>0, <2>2 DEF Clean, NoLength
  <2>4. Goto(c, "pipe_in") /\ Receives(Obj("sock", c), c, "200")
    BY <1>5, <2>2, <2>3, HeadOwn DEF CgiHead, NoLength
  <2>5. Sent(c) = <<>>
    BY <1>0, <2>1, Due
  <2>6. Proper(req[c]) \in {<<"200">>, <<"200", "output">>}
    BY <2>2, <2>3, Replies
  <2> QED
    BY <1>1, <1>5, <2>1, <2>4, <2>5, <2>6 DEF CgiHead, children, Said
<1>6. CASE Relay(c)
  <2>1. /\ pc[c] = "relay" /\ out[c] /\ Receives(Obj("sock", c), c, "output") /\ pc' = pc
        /\ UNCHANGED <<fd, inherited, stage, req>>
    BY <1>6, RelayOwn DEF threads
  <2>2. Sent(c) = <<"200">> /\ job[c].file \in Programs
    BY <1>0, <2>1 DEF Course, Relayed, Minding
  <2>3. Route(req[c]) = "cgi_head" /\ ~NoLength(req[c]) /\ job[c] = req[c]
    BY <1>0, <2>1, Ways DEF NotYet
  <2>4. Proper(req[c]) = <<"200", "output">>
    BY <2>2, <2>3, Replies
  <2> QED
    BY <1>1, <2>1, <2>2, <2>4 DEF Said
<1> QED
  BY <1>2, <1>3, <1>4, <1>5, <1>6

(* Where nothing fails and nobody leaves, Httpd implements HttpService: to *)
(* its clients the server with its descriptors, threads and children is a  *)
(* service that answers each request piece by piece with the proper reply  *)
(* and nothing else, and ends a connection when its reply is complete.     *)
THEOREM ServesHttp == Plenty => (Spec => Serves)
<1> SUFFICES ASSUME Plenty PROVE Spec => Serves
  OBVIOUS
<1>1. Init => Service!Init
  <2> SUFFICES ASSUME Init PROVE Service!Init
    OBVIOUS
  <2>1. \A c \in Clients : stage[c] = "away" /\ got[c] = <<>>
    BY DEF Init
  <2>2. \A c \in Clients : Sent(c) = <<>>
    BY <2>1, NothingSaid
  <2>3. req \in [Clients -> Request]
    BY NoRequestType DEF Init
  <2> QED
    BY <2>1, <2>2, <2>3 DEF Service!Init
<1>2. Accounting /\ OnCourse /\ Calm => HoldsOwn /\ NoStray /\ \A c \in Clients : Course(c)
  BY DEF Calm, Smooth, NoSecondClose, Accounting, OnCourse
<1>3. TypeOK /\ Accounting /\ OnCourse /\ Calm => Over
  BY <1>2, EndedAnswered DEF Over
<1>4. TypeOK /\ Fresh /\ Accounting /\ OnCourse /\ Calm /\ Over /\ Over' /\ [Next]_vars
      => [Service!Next]_Service!vars
  <2> SUFFICES ASSUME TypeOK, Fresh, Accounting, OnCourse, Calm, Over, Over', [Next]_vars
               PROVE  Service!Next \/ UNCHANGED Service!vars
    OBVIOUS
  <2>1. HoldsOwn /\ NoStray /\ \A c \in Clients : Course(c)
    BY <1>2
  <2>2. \A d \in Clients : Ended(d) => stage[d] \notin {"away", "idle"} /\ Sent(d) = Proper(req[d])
    BY DEF Over
  <2>3. \A d \in Clients : Ended(d)' => stage'[d] \notin {"away", "idle"} /\ Sent(d)' = Proper(req'[d])
    BY DEF Over
  <2>4. ASSUME UNCHANGED <<stage, req, got>>, \A d \in Clients : Ended(d) => Ended(d)'
        PROVE  Service!Next
    <3>1. \A d \in Clients : Ended(d)' => stage[d] \notin {"away", "idle"} /\ Sent(d) = Proper(req[d])
      BY <2>3, <2>4 DEF Sent
    <3> QED
      BY <2>4, <3>1, Quietly
  <2>5. ASSUME UNCHANGED <<pc, fd, inherited>> PROVE \A d \in Clients : Ended(d)' = Ended(d)
    BY <2>5 DEF Ended, Open
  <2>6. ASSUME NEW c \in Clients, Connect(c) PROVE Service!Next
    <3>1. stage[c] = "away" /\ stage' = [stage EXCEPT ![c] = "idle"] /\ req' = req
      BY <2>6 DEF Connect
    <3>2. \A d \in Clients : Ended(d)' = Ended(d) /\ Sent(d)' = Sent(d)
      BY <2>5, <2>6 DEF Connect, threads, children, Sent
    <3>3. ~Ended(c)
      BY <2>2, <3>1
    <3>4. PhaseOf(c) = "away" /\ PhaseOf(c)' = "open"
      BY <3>1, <3>2, <3>3 DEF PhaseOf, TypeOK
    <3>5. \A d \in Clients \ {c} : PhaseOf(d)' = PhaseOf(d)
      BY <3>1, <3>2 DEF PhaseOf, TypeOK
    <3>6. Service!Open(c)
      BY <3>1, <3>2, <3>4, <3>5, Opens
    <3> QED
      BY <3>6 DEF Service!Next
  <2>7. ASSUME NEW c \in Clients, SendHead(c) PROVE Service!Next
    <3>1. stage[c] = "idle" /\ stage' = [stage EXCEPT ![c] = "head"] /\ \E r \in Requests : req' = [req EXCEPT ![c] = r]
      BY <2>7 DEF SendHead
    <3>2. \A d \in Clients : Ended(d)' = Ended(d) /\ Sent(d)' = Sent(d)
      BY <2>5, <2>7 DEF SendHead, threads, children, Sent
    <3>3. ~Ended(c)
      BY <2>2, <3>1
    <3>4. PhaseOf(c) = "open" /\ PhaseOf(c)' = "asked"
      BY <3>1, <3>2, <3>3 DEF PhaseOf, TypeOK
    <3>5. \A d \in Clients \ {c} : PhaseOf(d)' = PhaseOf(d)
      BY <3>1, <3>2 DEF PhaseOf, TypeOK
    <3>6. Service!Ask(c)
      BY <3>1, <3>2, <3>4, <3>5, Asks
    <3> QED
      BY <3>6 DEF Service!Next
  <2>8. ASSUME NEW c \in Clients, SendBody(c) PROVE UNCHANGED Service!vars
    <3>1. stage[c] = "head" /\ stage' = [stage EXCEPT ![c] = "body"] /\ req' = req
      BY <2>8 DEF SendBody
    <3>2. \A d \in Clients : Ended(d)' = Ended(d) /\ Sent(d)' = Sent(d)
      BY <2>5, <2>8 DEF SendBody, threads, children, Sent
    <3>3. \A d \in Clients : PhaseOf(d)' = PhaseOf(d)
      BY <3>1, <3>2 DEF PhaseOf, TypeOK
    <3> QED
      BY <3>1, <3>2, <3>3, Stutters
  <2>9. ASSUME NEW c \in Clients, Leave(c) PROVE FALSE
    BY <2>9 DEF Leave, Plenty
  <2>10. CASE Accept
    <3>1. PICK n \in FDs, l \in {"request", "orphan"} :
            /\ n \in Free /\ fd' = [fd EXCEPT ![n] = Obj("sock", Head(queue))]
            /\ Goto(Head(queue), l)
            /\ UNCHANGED <<inherited, stage, req, got>>
      BY <2>10 DEF Accept, LowestIn, children, clients
    <3>2. Head(queue) \in Clients /\ pc[Head(queue)] = "none"
      BY <2>10 DEF Accept, Fresh, TypeOK
    <3>3. ASSUME NEW d \in Clients, Ended(d) PROVE Ended(d)'
      <4>1. d # Head(queue) /\ pc'[d] # "none"
        BY <3>1, <3>2, <3>3 DEF Ended, Goto, TypeOK
      <4>2. \A m \in FDs : fd'[m] = Obj("sock", d) => fd[m] = Obj("sock", d)
        BY <3>1, <4>1 DEF TypeOK, Obj
      <4> QED
        BY <3>1, <3>3, <4>1, <4>2 DEF Ended, Open
    <3> QED
      BY <2>4, <3>1, <3>3
  <2>11. ASSUME NEW c \in Clients, ThreadStep(c) PROVE Service!Next
    <3>1. CASE EchoError(c) \/ HtmlHead(c) \/ SendFile(c) \/ CgiHead(c) \/ Relay(c)
      BY <2>1, <3>1, NextPiece
    <3>2. CASE ~(EchoError(c) \/ HtmlHead(c) \/ SendFile(c) \/ CgiHead(c) \/ Relay(c))
      <4>1. \A d \in Clients : Ended(d) => Ended(d)'
        BY <2>11, NotReopened
      <4>2. UNCHANGED <<stage, req>>
        BY <2>1, <2>11, CalmThread
      <4>3. got' = got
        BY <2>1, <2>11, <3>2, ReadOwn, FeedOwn DEF ThreadStep, EchoClose, CloseConnection, OpenFile,
           CloseFile, PipeIn, PipeOut, DropIn, Fork, ParentCloses, RelayEnds, ClosePipes, WaitChild, clients
      <4> QED
        BY <2>4, <4>1, <4>2, <4>3
    <3> QED
      BY <3>1, <3>2
  <2>12. ASSUME NEW c \in Clients, ChildRuns(c) PROVE Service!Next
    <3>1. UNCHANGED <<pc, fd, stage, req, got>> /\ inherited' = [inherited EXCEPT ![c] = {}]
      BY <2>12 DEF ChildRuns, threads, clients
    <3>2. \A d \in Clients, e \in Clients : Obj("sock", d) \in inherited'[e] => Obj("sock", d) \in inherited[e]
      BY <3>1 DEF TypeOK
    <3>3. \A d \in Clients : Ended(d) => Ended(d)'
      BY <3>1, <3>2 DEF Ended, Open
    <3> QED
      BY <2>4, <3>1, <3>3
  <2>13. ASSUME NEW c \in Clients, BrokenPipe(c) PROVE FALSE
    BY <2>1, <2>13, NoBrokenPipe
  <2>14. CASE UNCHANGED vars
    <3>1. \A d \in Clients : Ended(d)' = Ended(d)
      BY <2>5, <2>14 DEF vars, threads, children
    <3>2. \A d \in Clients : PhaseOf(d)' = PhaseOf(d) /\ Sent(d)' = Sent(d)
      BY <2>14, <3>1 DEF vars, clients, PhaseOf, Sent
    <3> QED
      BY <2>14, <3>2, Stutters DEF vars, clients
  <2> QED
    BY <2>6, <2>7, <2>8, <2>9, <2>10, <2>11, <2>12, <2>13, <2>14 DEF Next, AcceptFails, Quiet
<1>5. Spec => []Calm
  BY Calmness
<1> QED
  BY <1>1, <1>3, <1>4, <1>5, Typing, Freshness, DescriptorAccounts, Courses, PTL DEF Spec, Serves, Service!Spec
=============================================================================
