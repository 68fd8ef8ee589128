------------------------------ MODULE Gateway ------------------------------
(***************************************************************************)
(* One request for a CGI program, from its first byte to waitpid(): the    *)
(* thread of HeadReader, now with the two pipes of exe_cgi, which hold     *)
(* only so much, and the program at their other ends.  The client may      *)
(* leave, a send() may kill the server, and the program may exit early or  *)
(* crash.  Programs are what the code has of them: what they print before  *)
(* they have read, whether they read, and what they print then.            *)
(***************************************************************************)
EXTENDS HeadReader, FiniteSets

CONSTANTS
  Programs,   \* the programs of a run
  Pairs,      \* which request goes to which program
  PipeSize,   \* bytes a pipe holds
  PostSize,   \* the size of the array post_data
  IntMax      \* the largest int

(* A program prints "before", reads the body of a POST or not, may add     *)
(* some bytes to it in post_data, and prints "after".  math_cgi adds up a  *)
(* form; debug_cgi asks for a misspelt variable of the environment.        *)
Program == [before : Nat, reads : BOOLEAN, adds : Nat, after : Nat,
            does : {"text", "math", "debug"}]

ASSUME ProgramsAssumption == Programs \subseteq Program /\ Pairs \subseteq [req : Requests, prog : Programs]
ASSUME SizesAssumption == PipeSize \in Nat \ {0} /\ PostSize \in Nat /\ IntMax \in Nat

VARIABLES
  up,       \* the server has not been killed
  prog,     \* the program the request is for
  child,    \* its process: "none", "running", or how it ended
  took,     \* how many bytes the program has read, or tried to
  wrote,    \* how many bytes it has written
  relayed,  \* how many of them the thread has passed on
  sum,      \* what math_add came to
  waited    \* waitpid() has returned

gateway == <<up, prog, child, took, wrote, relayed, sum, waited>>
gvars   == <<vars, gateway>>

GatewayInit ==
  /\ Init
  /\ up = TRUE /\ prog \in Programs /\ [req |-> req, prog |-> prog] \in Pairs
  /\ child = "none" /\ took = 0 /\ wrote = 0 /\ relayed = 0 /\ sum = 0 /\ waited = FALSE

Ended == child \in {"exit", "crash", "sigpipe"}
-----------------------------------------------------------------------------
(* The thread.                                                             *)

ReadHead ==
  /\ up /\ (RecvByte \/ RecvEnd \/ PeekTakes \/ PeekLeaves \/ Return)
  /\ UNCHANGED gateway

Fork ==
  /\ up /\ phase \in {"feed", "done"} /\ child = "none"
  /\ child' = "running"
  /\ UNCHANGED <<vars, up, prog, took, wrote, relayed, sum, waited>>

(* write() blocks while the pipe is full.  (A mutant reads the output       *)
(* first.)                                                                 *)
HasRoom == Len(posted) - took < PipeSize

WriteLast ==
  /\ up /\ child = "running" /\ HasRoom /\ wrote = prog.before + prog.after /\ Feed
  /\ UNCHANGED gateway

Write ==
  /\ up /\ child = "running" /\ HasRoom /\ Feed
  /\ UNCHANGED gateway

WriteEnds ==
  /\ up /\ child # "none" /\ FeedEnds
  /\ UNCHANGED gateway

(* A byte written to a program that has ended raises SIGPIPE, and nobody   *)
(* handles it; one sent to a client that has left may.                     *)
Killed == up' = FALSE /\ UNCHANGED <<vars, prog, child, took, wrote, relayed, sum, waited>>

WriteBreaks ==
  /\ up /\ phase = "feed" /\ Len(posted) < length /\ Ended /\ (Available \/ AtEnd)
  /\ Killed

Sending == \/ phase = "refused"
           \/ phase \in {"feed", "done"} /\ child = "none"
           \/ phase = "done" /\ relayed < wrote

SendBreaks == up /\ left /\ Sending /\ Killed

Relay ==
  /\ up /\ phase = "done" /\ relayed < wrote
  /\ relayed' = relayed + 1
  /\ UNCHANGED <<vars, up, prog, child, took, wrote, sum, waited>>

(* The output ends when the program has ended and the pipe is empty; then  *)
(* the thread waits for the program.  (A mutant takes an empty pipe for    *)
(* the end.)                                                               *)
WaitEarly ==
  /\ up /\ phase = "done" /\ child # "none" /\ relayed = wrote /\ ~waited
  /\ waited' = TRUE
  /\ UNCHANGED <<vars, up, prog, child, took, wrote, relayed, sum>>

Wait ==
  /\ up /\ phase = "done" /\ Ended /\ relayed = wrote /\ ~waited
  /\ waited' = TRUE
  /\ UNCHANGED <<vars, up, prog, child, took, wrote, relayed, sum>>
-----------------------------------------------------------------------------
(* The program.                                                            *)

(* What the program's loop reads.  (A mutant stops one byte early.)        *)
ToReadLess == IF prog.reads /\ req.post /\ length > 0 THEN length - 1 ELSE 0
ToRead == IF prog.reads /\ req.post /\ length > 0 THEN length ELSE 0
Input  == IF req.post THEN posted ELSE req.query

(* math_add: what follows the first = of the input and what follows the    *)
(* second.  An & in between becomes the end of a string, where atoi would  *)
(* have ended anyway.  The sum of two ints wraps round.  (A mutant goes on *)
(* from the & instead of the =.)                                           *)
AfterToken(s, t) ==
  LET i == CHOOSE i \in DOMAIN s : s[i] = t /\ \A k \in 1..(i - 1) : s[k] # t
  IN SubSeq(s, i + 1, Len(s))
Wrap(n) == ((n + IntMax + 1) % (2 * (IntMax + 1))) - (IntMax + 1)

MathAddAmp(s) == Wrap(Atoi(AfterToken(s, "eq")) + Atoi(AfterToken(s, "amp")))
MathAdd(s) == Wrap(Atoi(AfterToken(s, "eq")) + Atoi(AfterToken(AfterToken(s, "eq"), "eq")))

(* Without a second = math_add passes a null pointer to atoi; the NUL after *)
(* a body as long as post_data lands behind it, and of a longer one every  *)
(* further byte, already while it is read.                                 *)
TwoValues == Cardinality({i \in DOMAIN Input : Input[i] = "eq"}) >= 2
MustCrash == prog.does = "debug" \/ (prog.does = "math" /\ ~TwoValues)
Overrun   == ToRead > 0 /\ ToRead + prog.adds >= PostSize
Smashed   == took > PostSize /\ Len(posted) > PostSize

HasRead == wrote >= prog.before /\ took = ToRead

Output ==
  /\ child = "running"
  /\ wrote < prog.before \/ (HasRead /\ ~MustCrash /\ wrote < prog.before + prog.after)
  /\ \/ up /\ wrote - relayed < PipeSize /\ wrote' = wrote + 1 /\ UNCHANGED child
     \/ ~up /\ child' = "sigpipe" /\ UNCHANGED wrote
  /\ UNCHANGED <<vars, up, prog, took, relayed, sum, waited>>

(* read() is not looked at: after the server's death the loop ends without *)
(* bytes.                                                                  *)
ReadBody ==
  /\ child = "running" /\ wrote >= prog.before /\ took < ToRead
  /\ took < Len(posted) \/ ~up
  /\ took' = took + 1
  /\ UNCHANGED <<vars, up, prog, child, wrote, relayed, sum, waited>>

Exit ==
  /\ child = "running" /\ HasRead /\ ~MustCrash /\ wrote = prog.before + prog.after
  /\ child' = "exit"
  /\ sum' = IF prog.does = "math" THEN MathAdd(Input) ELSE sum
  /\ UNCHANGED <<vars, up, prog, took, wrote, relayed, waited>>

(* A program may end by what it has stored behind post_data from the first *)
(* such byte on; then, as any program that ends early, it reads no more.   *)
Crash ==
  /\ child = "running" /\ (Smashed \/ (HasRead /\ (MustCrash \/ Overrun)))
  /\ child' = "crash"
  /\ UNCHANGED <<vars, up, prog, took, wrote, relayed, sum, waited>>
-----------------------------------------------------------------------------
ClientStep == (SendByte \/ Leave) /\ UNCHANGED gateway
GatewayThread == ReadHead \/ Fork \/ Write \/ WriteEnds \/ WriteBreaks \/ Relay \/ Wait
ChildStep == Output \/ ReadBody \/ Exit \/ Crash

GatewayNext == ClientStep \/ GatewayThread \/ SendBreaks \/ ChildStep

(* The thread and the program run while they can; the client sends all it  *)
(* has begun to, or leaves.                                                *)
GatewaySpec ==
  /\ GatewayInit /\ [][GatewayNext]_gvars
  /\ WF_gvars(GatewayThread) /\ WF_gvars(ChildStep) /\ WF_gvars(SendByte /\ UNCHANGED gateway)
-----------------------------------------------------------------------------
(* Every variable has its type; neither pipe holds more than it can, and    *)
(* the program reads no more than was announced.                           *)
GatewayTypeOK ==
  /\ TypeOK
  /\ up \in BOOLEAN /\ prog \in Programs /\ waited \in BOOLEAN
  /\ child \in {"none", "running", "exit", "crash", "sigpipe"}
  /\ took \in 0..ToRead /\ wrote \in 0..(prog.before + prog.after) /\ relayed \in 0..wrote
  /\ wrote - relayed <= PipeSize /\ Len(posted) <= took + PipeSize
  /\ sum \in -IntMax - 1..IntMax

(* The request comes to its end: it is refused, or the program is waited   *)
(* for, or the server is dead.  It does not when the client still owes a   *)
(* byte, one more after a lone CR or one of the body it announced, or when *)
(* a program prints more than a pipe holds before it reads a body that     *)
(* does not fit either.                                                    *)
Settled == phase = "refused" \/ waited \/ (~up /\ child # "running")
Owes    == ~left /\ ((req.end = <<"CR">> /\ req.body = <<>>) \/ length > Len(req.body))
Embrace == prog.before > PipeSize /\ length > PipeSize

Through == <>[](Settled \/ Owes \/ Embrace)

(* A form that is filled in and fits post_data is added up: the program     *)
(* does not crash on it, and the sum is right as far as an int holds it.   *)
SumRight ==
  (prog.does = "math" /\ req.form # <<>> /\ up /\ (req.post => ~left /\ Len(req.body) < PostSize)) =>
    /\ child # "crash"
    /\ child = "exit" /\ req.form[1] + req.form[2] <= IntMax => sum = req.form[1] + req.form[2]

(* What SumRight needs: a form that is filled in reads as one, with the    *)
(* first number behind its first =, the second behind the next; and the    *)
(* calculator reads its body and adds nothing to it.                       *)
FilledIn(s, f) ==
  \E a, b \in DOMAIN s :
    /\ a < b /\ \A k \in 1..b : s[k] = "eq" <=> k \in {a, b}
    /\ IsDigit(s, a + 1) /\ Number(s, a + 1) = f[1]
    /\ IsDigit(s, b + 1) /\ Number(s, b + 1) = f[2]

Text(r) == IF r.post THEN r.body ELSE r.query

Summable ==
  /\ \A r \in Requests : r.form # <<>> => FilledIn(Text(r), r.form) /\ Spaced(r)
  /\ \A p \in Programs : p.does = "math" => p.reads /\ p.adds = 0

(* When the thread has waited for a program that did not crash, its whole  *)
(* output has been passed on, what it printed before it read included.     *)
Delivered == waited /\ child # "crash" => relayed = prog.before + prog.after

(* While the client stays the server is killed by programs only that do    *)
(* not read what is posted to them, or that what is posted to them         *)
(* overruns: a body of more bytes than post_data has, not one of as many.  *)
KilledOnly == ~up /\ ~left => length > 0 /\ (prog.reads => length > PostSize)
=============================================================================
