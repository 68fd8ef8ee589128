---------------------------- MODULE HttpService ----------------------------
(***************************************************************************)
(* What httpd promises a client: a connection carries one request, the     *)
(* reply to that request and nothing else comes back piece by piece, and   *)
(* the connection ends when the reply is complete.  No threads, processes  *)
(* or descriptors here.                                                    *)
(***************************************************************************)
EXTENDS Naturals, Sequences

CONSTANTS
  Clients,
  Requests,  \* the requests clients may make
  Reply      \* for each request the sequence of pieces that answers it

VARIABLES
  phase,     \* per client: "away", "open", "asked" or "closed"
  asked,     \* per client: its request, once it has made one
  answer     \* per client: the pieces it was sent

vars == <<phase, asked, answer>>

Init ==
  /\ phase = [c \in Clients |-> "away"]
  /\ asked \in [Clients -> DOMAIN Reply]
  /\ answer = [c \in Clients |-> <<>>]

Open(c) ==
  /\ phase[c] = "away"
  /\ phase' = [phase EXCEPT ![c] = "open"]
  /\ UNCHANGED <<asked, answer>>

Ask(c) ==
  /\ phase[c] = "open"
  /\ \E r \in Requests : asked' = [asked EXCEPT ![c] = r]
  /\ phase' = [phase EXCEPT ![c] = "asked"]
  /\ UNCHANGED answer

(* The next piece of the reply. *)
Answer(c) ==
  /\ phase[c] = "asked" /\ Len(answer[c]) < Len(Reply[asked[c]])
  /\ answer' = [answer EXCEPT ![c] = Append(@, Reply[asked[c]][Len(@) + 1])]
  /\ UNCHANGED <<phase, asked>>

(* Connections end when their reply is complete.  Several may end at once: *)
(* the end of one process can be the end of all it had inherited.          *)
Close(S) ==
  /\ \A c \in S : phase[c] = "asked" /\ answer[c] = Reply[asked[c]]
  /\ phase' = [c \in Clients |-> IF c \in S THEN "closed" ELSE phase[c]]
  /\ UNCHANGED <<asked, answer>>

Next ==
  \/ \E c \in Clients : Open(c) \/ Ask(c) \/ Answer(c)
  \/ \E S \in SUBSET Clients : Close(S)

Spec == Init /\ [][Next]_vars
=============================================================================
