--------------------------- MODULE GatewayProofs ---------------------------
(***************************************************************************)
(* Proofs about HeadReader, and in the second half about Gateway, for any  *)
(* requests and programs, any sizes of the buffer, of the pipes and of     *)
(* post_data, and ints of any width.                                       *)
(***************************************************************************)
EXTENDS Gateway, FiniteSetTheorems, TLAPS

(* HeadReader: its types, and how much is written into the pipe.           *)

(* While get_line is still reading there is room in the buffer for one     *)
(* byte more, besides the NUL.                                             *)
Room == at # "return" => Len(buf) < MaxLen - 1

(* The feeding loop has written no more than the length, and before it     *)
(* nothing; without a POST nobody has looked for a length.                 *)
Filling ==
  /\ Reading => posted = <<>>
  /\ phase = "feed" /\ length >= 0 => Len(posted) <= length
  /\ ~req.post => length = 0

IInv == TypeOK /\ Room /\ Filling /\ PipeFilled

(* atoi returns an int of whatever it is given.                            *)
LEMMA AtoiType == ASSUME NEW s PROVE Atoi(s) \in Int
<1>1. \A d \in Digits : Value[d] \in Int
  BY DEF Value, Digits
<1>2. ASSUME NEW i PROVE Number(s, i) \in Int
  <2>1. CASE ~IsDigit(s, i)
    BY <2>1 DEF Number
  <2>2. CASE IsDigit(s, i)
    <3>1. Value[s[i]] \in Int
      BY <1>1, <2>2 DEF IsDigit
    <3>2. IsDigit(s, i + 1) => Value[s[i + 1]] \in Int
      BY <1>1 DEF IsDigit
    <3> QED
      BY <2>2, <3>1, <3>2 DEF Number
  <2> QED
    BY <2>1, <2>2
<1> DEFINE start == IF s # <<>> /\ s[1] = "space" THEN 2 ELSE 1
<1>3. Number(s, start) \in Int /\ Number(s, start + 1) \in Int
  BY <1>2
<1>4. -Number(s, start + 1) \in Int
  BY <1>3
<1> QED
  BY <1>3, <1>4 DEF Atoi

(* The announced length is one too.                                        *)
LEMMA LengthType == ASSUME NEW line PROVE LengthOf(line) \in Int
  BY AtoiType DEF LengthOf

(* The bytes of a request are tokens.                                      *)
LEMMA StreamType == req \in Requests => Stream \in Seq(Tokens)
  BY RequestsAssumption DEF Stream, Request

(* The buffer is never overrun: storing a byte where there was room leaves *)
(* room again or ends the line.                                            *)
LEMMA StoreType ==
  ASSUME NEW b \in Tokens, buf \in Seq(Tokens), Len(buf) < MaxLen - 1, Store(b)
  PROVE  /\ buf' \in Seq(Tokens) /\ Len(buf') < MaxLen
         /\ at' \in {"recv", "return"}
         /\ Room'
<1>1. buf' = Append(buf, b) /\ at' = After(buf')
  BY DEF Store
<1>2. buf' \in Seq(Tokens) /\ Len(buf') = Len(buf) + 1
  BY <1>1
<1> QED
  BY <1>1, <1>2, MaxLenAssumption DEF After, Room

(* It holds before the first byte.                                         *)
LEMMA InitInv == Init => IInv
<1> SUFFICES ASSUME Init PROVE IInv
  OBVIOUS
<1>1. Stream \in Seq(Tokens)
  BY StreamType DEF Init
<1>2. TypeOK
  <2>0. left \in BOOLEAN
    BY Zenon DEF Init
  <2>1. sent \in 0..Len(Stream) /\ read \in 0..sent
    <3>1. Len(Stream) \in Nat
      BY <1>1
    <3>2. 0 \in 0..Len(Stream)
      BY <3>1
    <3> QED
      BY <3>2 DEF Init
  <2>2. buf \in Seq(Tokens) /\ Len(buf) < MaxLen
    BY MaxLenAssumption DEF Init
  <2>3. lines \in Seq(Seq(Tokens)) /\ posted \in Seq(Tokens \cup {NUL})
    BY DEF Init
  <2>4. /\ req \in Requests /\ at \in {"recv", "peek", "return"}
        /\ phase \in {"request", "headers", "feed", "done", "refused"}
        /\ length \in Int /\ char \in Tokens \cup {NUL}
    BY DEF Init
  <2> QED
    BY <2>0, <2>1, <2>2, <2>3, <2>4 DEF TypeOK
<1> QED
  BY <1>2, MaxLenAssumption DEF Init, IInv, Room, Filling, PipeFilled, Reading

(* Every step of the client and of the thread preserves the invariant.     *)
LEMMA NextInv == IInv /\ [Next]_vars => IInv'
<1> SUFFICES ASSUME IInv, [Next]_vars PROVE IInv'
  OBVIOUS
<1> USE DEF IInv
<1>s. Stream \in Seq(Tokens) /\ (req' = req => Stream' = Stream)
  BY StreamType DEF TypeOK, Stream
<1>n. Available => Next1 \in Tokens
  BY <1>s DEF Available, Next1, TypeOK
<1>1. CASE SendByte
  BY <1>1, <1>s DEF SendByte, TypeOK, Room, Filling, PipeFilled, Reading
<1>2. CASE Leave
  BY <1>2, <1>s DEF Leave, TypeOK, Room, Filling, PipeFilled, Reading
<1>3. CASE RecvByte
  <2>1. Len(buf) < MaxLen - 1 /\ buf \in Seq(Tokens)
    BY <1>3 DEF RecvByte, Room, TypeOK
  <2>2. buf' \in Seq(Tokens) /\ Len(buf') < MaxLen /\ at' \in {"recv", "peek", "return"} /\ Room'
    <3>1. CASE Next1 = "CR"
      BY <3>1, <1>3, <2>1 DEF RecvByte, Room, TypeOK
    <3>2. CASE Next1 # "CR"
      BY <3>2, <1>3, <2>1, <1>n, StoreType DEF RecvByte
    <3> QED
      BY <3>1, <3>2
  <2>3. UNCHANGED <<req, sent, left, phase, lines, length, char, posted>> /\ read' = read + 1 /\ read < sent
    BY <1>3 DEF RecvByte, client, Available
  <2>4. TypeOK'
    BY <2>2, <2>3, <1>s DEF TypeOK
  <2> QED
    BY <2>2, <2>3, <2>4 DEF Filling, PipeFilled, Reading
<1>4. CASE RecvEnd
  BY <1>4, <1>s DEF RecvEnd, client, TypeOK, Room, Filling, PipeFilled, Reading
<1>5. CASE PeekTakes
  <2>1. Len(buf) < MaxLen - 1 /\ buf \in Seq(Tokens) /\ Store("LF") /\ "LF" \in Tokens
    BY <1>5 DEF PeekTakes, Room, TypeOK, Tokens
  <2>2. buf' \in Seq(Tokens) /\ Len(buf') < MaxLen /\ at' \in {"recv", "return"} /\ Room'
    BY <2>1, StoreType
  <2>3. UNCHANGED <<req, sent, left, phase, lines, length, char, posted>> /\ read' = read + 1 /\ read < sent
    BY <1>5 DEF PeekTakes, client, Available
  <2>4. TypeOK'
    BY <2>2, <2>3, <1>s DEF TypeOK
  <2> QED
    BY <2>2, <2>3, <2>4 DEF Filling, PipeFilled, Reading
<1>6. CASE PeekLeaves
  <2>1. Len(buf) < MaxLen - 1 /\ buf \in Seq(Tokens) /\ Store("LF") /\ "LF" \in Tokens
    BY <1>6 DEF PeekLeaves, Room, TypeOK, Tokens
  <2>2. buf' \in Seq(Tokens) /\ Len(buf') < MaxLen /\ at' \in {"recv", "return"} /\ Room'
    BY <2>1, StoreType
  <2>3. UNCHANGED <<req, sent, left, read, phase, lines, length, char, posted>>
    BY <1>6 DEF PeekLeaves, client
  <2>4. TypeOK'
    BY <2>2, <2>3, <1>s DEF TypeOK
  <2> QED
    BY <2>2, <2>3, <2>4 DEF Filling, PipeFilled, Reading
<1>7. CASE Return
  <2>1. UNCHANGED <<req, sent, left, read, char, posted>> /\ buf' = <<>> /\ at' = "recv" /\ Reading
    BY <1>7 DEF Return, client
  <2>2. length' \in Int /\ (~req.post => length' = 0)
    <3>1. buf \in Seq(Tokens) /\ length \in Int
      BY DEF TypeOK
    <3>2. LengthOf(buf) \in Int
      BY <3>1, LengthType
    <3> QED
      BY <3>1, <3>2, <1>7 DEF Return, Filling
  <2>3. phase' \in {"headers", "refused", "done", "feed"} /\ (phase' = "done" => ~req.post)
    BY <1>7 DEF Return
  <2>4. lines' \in Seq(Seq(Tokens))
    BY <1>7 DEF Return, TypeOK
  <2>5. TypeOK'
    BY <2>1, <2>2, <2>3, <2>4, <1>s, MaxLenAssumption DEF TypeOK
  <2>6. posted = <<>> /\ Len(posted) = 0
    BY <2>1 DEF Filling
  <2>7. Room'
    BY <2>1, MaxLenAssumption DEF Room
  <2>8. Filling' /\ PipeFilled'
    BY <2>1, <2>2, <2>3, <2>6 DEF Filling, PipeFilled, Reading
  <2> QED
    BY <2>5, <2>7, <2>8
<1>8. CASE Feed
  <2>1. /\ UNCHANGED <<req, sent, left, at, buf, phase, lines, length>>
        /\ phase = "feed" /\ Len(posted) < length /\ posted' = Append(posted, char')
    BY <1>8 DEF Feed, client
  <2>2. char' \in Tokens \cup {NUL} /\ read' \in 0..sent
    BY <1>8, <1>n DEF Feed, Available, TypeOK
  <2>3. posted' \in Seq(Tokens \cup {NUL}) /\ Len(posted') = Len(posted) + 1
    BY <2>1, <2>2 DEF TypeOK
  <2>4. TypeOK'
    BY <2>1, <2>2, <2>3, <1>s DEF TypeOK
  <2>5. length \in Int
    BY DEF TypeOK
  <2> QED
    BY <2>1, <2>3, <2>4, <2>5 DEF Room, Filling, PipeFilled, Reading, TypeOK
<1>9. CASE FeedEnds
  <2>1. /\ UNCHANGED <<req, sent, left, read, at, buf, lines, length, char, posted>>
        /\ phase = "feed" /\ phase' = "done" /\ Len(posted) >= length
    BY <1>9 DEF FeedEnds, client
  <2>2. TypeOK'
    BY <2>1, <1>s DEF TypeOK
  <2> QED
    BY <2>1, <2>2 DEF Room, Filling, PipeFilled, Reading, TypeOK
<1>10. CASE UNCHANGED vars
  BY <1>10, <1>s DEF vars, TypeOK, Room, Filling, PipeFilled, Reading
<1> QED
  BY <1>1, <1>2, <1>3, <1>4, <1>5, <1>6, <1>7, <1>8, <1>9, <1>10 DEF Next, Thread, Over

(* Type correctness of the line reader and the loops around it, the bound  *)
(* of get_line's buffer first of all: no line, however long, overruns it.  *)
THEOREM HeadTyping == Spec => []TypeOK
<1>1. IInv => TypeOK
  BY DEF IInv
<1> QED
  BY <1>1, InitInv, NextInv, PTL DEF Spec

(* The loop that feeds a CGI program writes exactly as many bytes as       *)
(* CONTENT_LENGTH announces, whenever the client leaves.                   *)
THEOREM PipeIsFilled == Spec => []PipeFilled
<1>1. IInv => PipeFilled
  BY DEF IInv
<1> QED
  BY <1>1, InitInv, NextInv, PTL DEF Spec
-----------------------------------------------------------------------------
(* Where the thread is in a plain request.                                 *)
Line(i)   == LineOf(req, i)
BlankLine == Len(req.lines) + 1

(* What a request is made of, byte by byte.                                *)
LEMMA LineShape ==
  ASSUME req \in Requests, NEW i \in 1..BlankLine
  PROVE  /\ Line(i) \in Seq(Tokens) /\ Len(Line(i)) \in Nat /\ req.from[i] \in Nat /\ EndOf(req, i) \in Nat
         /\ req.end \in {<<"CR", "LF">>, <<"LF">>, <<"CR">>} /\ Len(req.end) \in Nat
         /\ EndOf(req, i) = req.from[i] + Len(Line(i)) + Len(req.end) /\ EndOf(req, i) <= Len(req.head)
         /\ i < BlankLine => EndOf(req, i) = req.from[i + 1]
         /\ EndOf(req, BlankLine) = Len(req.head) /\ Line(BlankLine) = <<>>
<1>1. /\ req.lines \in Seq(Seq(Tokens)) /\ req.from \in Seq(Nat) /\ req.head \in Seq(Tokens)
      /\ req.end \in {<<"CR", "LF">>, <<"LF">>, <<"CR">>}
  BY RequestsAssumption DEF Request
<1>2. Len(req.lines) \in Nat /\ i \in Nat /\ Len(req.head) \in Nat /\ Len(req.end) \in Nat
  BY <1>1 DEF BlankLine
<1>3. /\ Len(req.from) = BlankLine /\ i \in DOMAIN req.from
      /\ EndOf(req, i) = req.from[i] + Len(Line(i)) + Len(req.end) /\ EndOf(req, i) <= Len(req.head)
  <2>1. AsSent(req)
    BY SentAssumption
  <2>2. Len(req.from) = BlankLine
    BY <2>1 DEF AsSent, BlankLine
  <2>3. i \in DOMAIN req.from
    BY <1>1, <1>2, <2>2
  <2> QED
    BY <2>1, <2>2, <2>3 DEF AsSent, Line
<1>4. Line(i) \in Seq(Tokens) /\ req.from[i] \in Nat
  <2>1. req.from[i] \in Nat
    BY <1>1, <1>3
  <2>2. CASE i <= Len(req.lines)
    <3>1. i \in 1..Len(req.lines)
      BY <1>2, <2>2
    <3>2. req.lines[i] \in Seq(Tokens)
      BY <1>1, <3>1
    <3> QED
      BY <2>1, <2>2, <3>2 DEF Line, LineOf
  <2>3. CASE ~(i <= Len(req.lines))
    <3>1. <<>> \in Seq(Tokens)
      OBVIOUS
    <3> QED
      BY <2>1, <2>3, <3>1 DEF Line, LineOf
  <2> QED
    BY <2>2, <2>3
<1>5. EndOf(req, i) \in Nat
  BY <1>2, <1>3, <1>4
<1>6. i < BlankLine => EndOf(req, i) = req.from[i + 1]
  BY <1>2 DEF BlankLine, EndOf
<1>7. EndOf(req, BlankLine) = Len(req.head) /\ Line(BlankLine) = <<>>
  BY <1>2 DEF BlankLine, EndOf, Line, LineOf
<1> QED
  BY <1>1, <1>2, <1>3, <1>4, <1>5, <1>6, <1>7

(* Two pieces behind each other: the tokens of the first, then those of    *)
(* the second.                                                             *)
LEMMA Joined ==
  ASSUME NEW s \in Seq(Tokens), NEW t \in Seq(Tokens)
  PROVE  /\ s \o t \in Seq(Tokens) /\ Len(s \o t) = Len(s) + Len(t)
         /\ \A k \in 1..Len(s) : (s \o t)[k] = s[k]
         /\ \A k \in 1..Len(t) : (s \o t)[Len(s) + k] = t[k]
OBVIOUS

(* The stream holds each line of the request where it says, without CR and *)
(* LF, its end behind it, and the body behind the head.                    *)
LEMMA StreamShape ==
  ASSUME req \in Requests, NEW i \in 1..BlankLine
  PROVE  /\ \A k \in 1..Len(Line(i)) :
              Stream[req.from[i] + k] = Line(i)[k] /\ Line(i)[k] \notin {"CR", "LF"}
         /\ \A k \in 1..Len(req.end) : Stream[req.from[i] + Len(Line(i)) + k] = req.end[k]
         /\ Len(Stream) = Len(req.head) + Len(req.body)
         /\ \A k \in 1..Len(req.body) : Stream[Len(req.head) + k] = req.body[k]
<1>1. /\ req.from \in Seq(Nat) /\ req.head \in Seq(Tokens) /\ req.body \in Seq(Tokens)
      /\ req.lines \in Seq(Seq(Tokens)) /\ Len(req.head) \in Nat
  BY RequestsAssumption DEF Request
<1>2. /\ Line(i) \in Seq(Tokens) /\ Len(Line(i)) \in Nat /\ req.from[i] \in Nat
      /\ EndOf(req, i) = req.from[i] + Len(Line(i)) + Len(req.end) /\ EndOf(req, i) <= Len(req.head)
      /\ req.end \in {<<"CR", "LF">>, <<"LF">>, <<"CR">>} /\ Len(req.end) \in Nat
  BY LineShape
<1>3. /\ Len(Stream) = Len(req.head) + Len(req.body)
      /\ \A k \in 1..Len(req.head) : Stream[k] = req.head[k]
      /\ \A k \in 1..Len(req.body) : Stream[Len(req.head) + k] = req.body[k]
  BY <1>1, Joined DEF Stream
<1>4. AsSent(req) /\ i \in DOMAIN req.from
  BY <1>1, SentAssumption DEF AsSent, BlankLine
<1>5. /\ \A k \in DOMAIN Line(i) : req.head[req.from[i] + k] = Line(i)[k] /\ Line(i)[k] \notin {"CR", "LF"}
      /\ \A k \in DOMAIN req.end : req.head[req.from[i] + Len(Line(i)) + k] = req.end[k]
  BY <1>4 DEF AsSent, Line
<1>6. ASSUME NEW k \in 1..Len(Line(i))
      PROVE  Stream[req.from[i] + k] = Line(i)[k] /\ Line(i)[k] \notin {"CR", "LF"}
  <2> DEFINE h == Len(req.head)  f == req.from[i]  l == Len(Line(i))  e == Len(req.end)
  <2>0. h \in Nat /\ f \in Nat /\ l \in Nat /\ e \in Nat /\ f + l + e <= h /\ k \in 1..l
    BY <1>1, <1>2
  <2>1. k \in DOMAIN Line(i) /\ req.from[i] + k \in 1..Len(req.head)
    <3>1. k \in DOMAIN Line(i)
      BY <1>2
    <3> HIDE DEF h, f, l, e
    <3>2. f + k \in 1..h
      BY <2>0
    <3> QED
      BY <3>1, <3>2 DEF h, f
  <2> QED
    BY <1>3, <1>5, <2>1
<1>7. ASSUME NEW k \in 1..Len(req.end)
      PROVE  Stream[req.from[i] + Len(Line(i)) + k] = req.end[k]
  <2> DEFINE h == Len(req.head)  f == req.from[i]  l == Len(Line(i))  e == Len(req.end)
  <2>0. h \in Nat /\ f \in Nat /\ l \in Nat /\ e \in Nat /\ f + l + e <= h /\ k \in 1..e
    BY <1>1, <1>2
  <2>1. k \in DOMAIN req.end /\ req.from[i] + Len(Line(i)) + k \in 1..Len(req.head)
    <3>1. k \in DOMAIN req.end
      BY <1>2
    <3> HIDE DEF h, f, l, e
    <3>2. f + l + k \in 1..h
      BY <2>0
    <3> QED
      BY <3>1, <3>2 DEF h, f, l
  <2> QED
    BY <1>3, <1>5, <2>1
<1> QED
  BY <1>3, <1>6, <1>7

(* The bytes s are those of the line w behind the o-th; or all that is     *)
(* left of it, and the LF that get_line makes of every end.                *)
Part(s, w, o) == o + Len(s) <= Len(w) /\ s = SubSeq(w, o + 1, o + Len(s))
Rest(w, o)    == Append(SubSeq(w, o + 1, Len(w)), "LF")
Linewise(n)   == Len(lines) = n /\ \A k \in 1..n : lines[k] = Append(Line(k), "LF")

(* get_line in line i: still in it, between CR and the byte behind it, at  *)
(* the end of the buffer, or at the end of the line.                       *)
Within(i, o)  == at = "recv" /\ Part(buf, Line(i), o) /\ read = req.from[i] + o + Len(buf)
Between(i, o) == /\ at = "peek" /\ Part(buf, Line(i), o) /\ o + Len(buf) = Len(Line(i))
                 /\ req.end[1] = "CR" /\ read = req.from[i] + Len(Line(i)) + 1
Full(i, o)    == /\ at = "return" /\ Part(buf, Line(i), o) /\ Len(buf) = MaxLen - 1
                 /\ read = req.from[i] + o + Len(buf)
Whole(i, o)   == at = "return" /\ buf = Rest(Line(i), o) /\ read = EndOf(req, i)
Where(i, o)   == Within(i, o) \/ Between(i, o) \/ Full(i, o) \/ Whole(i, o)

(* What has been made of the lines before: the first o bytes of line i, in *)
(* buffers full to the last byte, are behind.                              *)
Place(i, o) ==
  /\ \E c \in 0..o : o = c * (MaxLen - 1)
  /\ o < Len(Line(i)) \/ (o = 0 /\ Line(i) = <<>>)
  /\ phase = "request" <=> i = 1 /\ o = 0
  /\ req.post /\ Spaced(req) => length = IF \E j \in 2..i - 1 : IsLength(req.lines[j]) THEN req.announced ELSE 0
  /\ Short => Linewise(i - 1)

InBody ==
  /\ read = Len(req.head) + Len(posted)
  /\ \A k \in 1..Len(posted) : k <= Len(req.body) /\ posted[k] = req.body[k]
  /\ req.post /\ Spaced(req) => length = req.announced
  /\ Short => Linewise(BlankLine)

Reads(i, o) == Place(i, o) /\ Where(i, o)

Course ==
  ~left =>
    /\ Reading => \E i \in 1..BlankLine : \E o \in 0..Len(Line(i)) : Reads(i, o)
    /\ phase \in {"feed", "done"} => InBody
    /\ phase = "refused" /\ Short => \E n \in 0..BlankLine : Linewise(n)

(* One byte more of a line, the last one, and the LF.                      *)
LEMMA PartGrows ==
  ASSUME NEW w \in Seq(Tokens), NEW o \in Nat, NEW s \in Seq(Tokens), Part(s, w, o),
         o + Len(s) < Len(w)
  PROVE  Part(Append(s, w[o + Len(s) + 1]), w, o)
<1>1. PICK n \in Nat, l \in Nat : n = Len(s) /\ l = Len(w)
  OBVIOUS
<1>2. o + n + 1 \in 1..l /\ s = SubSeq(w, o + 1, o + n)
  BY <1>1 DEF Part
<1> DEFINE t == Append(s, w[o + n + 1])
           u == SubSeq(w, o + 1, o + (n + 1))
<1>3. w[o + n + 1] \in Tokens
  BY <1>1, <1>2
<1>4. t \in Seq(Tokens) /\ Len(t) = n + 1 /\ t[n + 1] = w[o + n + 1] /\ \A k \in 1..n : t[k] = s[k]
  BY <1>1, <1>3
<1>5. u \in Seq(Tokens) /\ Len(u) = n + 1 /\ \A k \in 1..(n + 1) : u[k] = w[o + k]
  BY <1>1, <1>2
<1>6. \A k \in 1..n : s[k] = w[o + k]
  BY <1>1, <1>2
<1>7. \A k \in 1..(n + 1) : t[k] = u[k]
  <2> TAKE k \in 1..(n + 1)
  <2>1. k \in 1..n \/ k = n + 1
    OBVIOUS
  <2> QED
    BY <1>4, <1>5, <1>6, <2>1
<1>8. t = u
  <2> HIDE DEF t, u
  <2> QED
    BY <1>4, <1>5, <1>7
<1>9. Part(t, w, o)
  <2> HIDE DEF t
  <2> QED
    BY <1>1, <1>2, <1>4, <1>8 DEF Part
<1>10. Append(s, w[o + Len(s) + 1]) = t
  BY <1>1
<1> QED
  BY <1>9, <1>10

(* One byte more.                                                          *)
LEMMA Stored ==
  ASSUME NEW b \in Tokens, buf \in Seq(Tokens), Store(b)
  PROVE  /\ buf' \in Seq(Tokens) /\ Len(buf') = Len(buf) + 1 /\ buf'[Len(buf) + 1] = b
         /\ \A k \in 1..Len(buf) : buf'[k] = buf[k]
         /\ at' = IF Len(buf) + 1 < MaxLen - 1 /\ b # "LF" THEN "recv" ELSE "return"
         /\ buf' = Append(buf, b)
<1>1. buf' = Append(buf, b) /\ at' = After(buf')
  BY DEF Store
<1>2. /\ buf' \in Seq(Tokens) /\ Len(buf') = Len(buf) + 1 /\ buf'[Len(buf) + 1] = b
      /\ \A k \in 1..Len(buf) : buf'[k] = buf[k]
  BY <1>1
<1>3. buf'[Len(buf')] = b
  BY <1>2
<1> QED
  BY <1>1, <1>2, <1>3 DEF After

(* A byte of the line goes into the buffer, or its end is met.             *)
LEMMA RecvMoves ==
  ASSUME IInv, NEW i \in 1..BlankLine, NEW o \in 0..Len(Line(i)), Where(i, o), RecvByte
  PROVE  Where(i, o)'
<1>1. Within(i, o) /\ Next1 = Stream[read + 1]
  BY DEF RecvByte, Where, Within, Between, Full, Whole, Next1
<1>2. /\ UNCHANGED req /\ read' = read + 1
      /\ Next1 = "CR" => at' = "peek" /\ buf' = buf
      /\ Next1 # "CR" => Store(Next1)
  BY DEF RecvByte, client
<1>3. Line(i)' = Line(i) /\ EndOf(req, i)' = EndOf(req, i)
  BY <1>2 DEF Line
<1>4. /\ Line(i) \in Seq(Tokens) /\ Len(Line(i)) \in Nat /\ req.from[i] \in Nat /\ Len(req.end) \in Nat
      /\ EndOf(req, i) = req.from[i] + Len(Line(i)) + Len(req.end)
      /\ req.end \in {<<"CR", "LF">>, <<"LF">>, <<"CR">>}
  BY LineShape DEF IInv, TypeOK
<1>5. buf \in Seq(Tokens) /\ Len(buf) \in Nat /\ Len(buf) < MaxLen - 1 /\ MaxLen \in Nat
  BY <1>1, MaxLenAssumption DEF IInv, TypeOK, Room, Within
<1>6. PICK w \in Seq(Tokens), f \in Nat, n \in Nat, l \in Nat, e \in Nat :
        w = Line(i) /\ f = req.from[i] /\ n = Len(buf) /\ l = Len(w) /\ e = Len(req.end)
  BY <1>4, <1>5
<1>7. o \in Nat /\ EndOf(req, i) = f + l + e /\ 1 \in 1..e
  <2>1. EndOf(req, i) = f + l + e
    BY <1>4, <1>6
  <2>2. e = 1 \/ e = 2
    BY <1>4, <1>6
  <2>3. o \in Nat
    BY <1>4
  <2> QED
    BY <2>1, <2>2, <2>3
<1>8. Part(buf, w, o) /\ o + n <= l /\ read = f + o + n
  BY <1>1, <1>6 DEF Within, Part
<1>9. /\ \A k \in 1..l : Stream[f + k] = w[k] /\ w[k] \notin {"CR", "LF"}
      /\ \A k \in 1..e : Stream[f + l + k] = req.end[k]
  <2>1. IInv => req \in Requests
    BY Zenon DEF IInv, TypeOK
  <2>2. /\ \A k \in 1..Len(Line(i)) : Stream[req.from[i] + k] = Line(i)[k] /\ Line(i)[k] \notin {"CR", "LF"}
        /\ \A k \in 1..Len(req.end) : Stream[req.from[i] + Len(Line(i)) + k] = req.end[k]
    BY <2>1, StreamShape
  <2> QED
    BY <1>6, <2>2, Zenon
<1>10. ASSUME NEW b \in Tokens, b = Next1, b # "CR"
       PROVE  /\ buf' = Append(buf, b) /\ Len(buf') = n + 1 /\ buf' \in Seq(Tokens)
              /\ at' = IF n + 1 < MaxLen - 1 /\ b # "LF" THEN "recv" ELSE "return"
  BY <1>2, <1>5, <1>6, <1>10, Stored
<1>11. CASE o + n < l
  <2>1. o + n + 1 \in 1..l /\ read + 1 = f + (o + n + 1)
    BY <1>7, <1>8, <1>11
  <2>2. Next1 = w[o + n + 1] /\ Next1 \notin {"CR", "LF"} /\ Next1 \in Tokens
    BY <1>1, <1>6, <1>9, <2>1
  <2>3. Part(buf', w, o)
    BY <1>5, <1>6, <1>7, <1>8, <1>10, <1>11, <2>2, PartGrows
  <2>4. read' = f + o + (n + 1) /\ Len(buf') = n + 1
    BY <1>2, <1>7, <1>8, <1>10, <2>2
  <2>5. CASE n + 1 < MaxLen - 1
    BY <1>2, <1>3, <1>6, <1>10, <2>2, <2>3, <2>4, <2>5 DEF Where, Within
  <2>6. CASE n + 1 = MaxLen - 1
    BY <1>2, <1>3, <1>6, <1>10, <2>2, <2>3, <2>4, <2>6 DEF Where, Full
  <2> QED
    BY <1>5, <1>6, <2>5, <2>6
<1>12. CASE o + n = l
  <2>1. read + 1 = f + l + 1
    BY <1>7, <1>8, <1>12
  <2>2. Next1 = req.end[1]
    BY <1>1, <1>7, <1>9, <2>1
  <2>3. CASE Next1 = "CR"
    <3>1. at' = "peek" /\ buf' = buf /\ read' = f + l + 1
      BY <1>2, <2>1, <2>3
    <3> QED
      BY <1>2, <1>3, <1>6, <1>8, <1>12, <2>2, <2>3, <3>1 DEF Where, Between
  <2>4. CASE Next1 # "CR"
    <3>1. Next1 = "LF" /\ e = 1 /\ "LF" \in Tokens
      BY <1>4, <1>6, <2>2, <2>4 DEF Tokens
    <3>2. at' = "return" /\ buf' = Append(buf, "LF")
      BY <1>10, <3>1
    <3>3. buf' = Rest(w, o)
      BY <1>6, <1>8, <1>12, <3>2 DEF Part, Rest
    <3>4. read' = EndOf(req, i)
      BY <1>2, <1>7, <2>1, <3>1
    <3> QED
      BY <1>3, <1>6, <3>2, <3>3, <3>4 DEF Where, Whole
  <2> QED
    BY <2>3, <2>4
<1> QED
  BY <1>7, <1>8, <1>11, <1>12

(* Of every line there is nothing at first.                                *)
LEMMA PartNone ==
  ASSUME NEW w \in Seq(Tokens), NEW l \in Nat, l = Len(w), NEW p \in Nat, p <= l
  PROVE  Part(<<>>, w, p)
<1>1. SubSeq(w, p + 1, p) = <<>>
  OBVIOUS
<1>2. Len(<<>>) = 0 /\ p + 0 = p
  OBVIOUS
<1> QED
  BY <1>1, <1>2 DEF Part

(* Behind a CR that ends a line there is the LF of that end, or nothing    *)
(* that looks like it.                                                     *)
LEMMA BehindCR ==
  ASSUME Plain, IInv, NEW i \in 1..BlankLine, NEW o \in 0..Len(Line(i)), Between(i, o), Available
  PROVE  \/ req.end = <<"CR", "LF">> /\ Next1 = "LF"
         \/ req.end = <<"CR">> /\ Next1 # "LF"
<1>1. req \in Requests
  BY DEF IInv, TypeOK
<1>2. /\ Line(i) \in Seq(Tokens) /\ req.from[i] \in Nat /\ Len(req.end) \in Nat
      /\ EndOf(req, i) = req.from[i] + Len(Line(i)) + Len(req.end)
      /\ req.end \in {<<"CR", "LF">>, <<"LF">>, <<"CR">>}
      /\ i < BlankLine => EndOf(req, i) = req.from[i + 1]
      /\ EndOf(req, BlankLine) = Len(req.head)
  BY <1>1, LineShape
<1>3. PICK w \in Seq(Tokens), f \in Nat, l \in Nat, e \in Nat :
        w = Line(i) /\ f = req.from[i] /\ l = Len(w) /\ e = Len(req.end)
  BY <1>2
<1>4. read = f + l + 1 /\ Next1 = Stream[read + 1] /\ req.end[1] = "CR"
  BY <1>3 DEF Between, Next1
<1>5. CASE req.end = <<"CR", "LF">>
  <2>1. 2 \in 1..e /\ req.end[2] = "LF"
    BY <1>3, <1>5
  <2>2. read + 1 = f + l + 2
    BY <1>4
  <2>3. \A k \in 1..e : Stream[f + l + k] = req.end[k]
    BY <1>1, <1>3, StreamShape
  <2> QED
    BY <1>4, <1>5, <2>1, <2>2, <2>3
<1>6. CASE req.end = <<"CR">>
  <2>1. e = 1 /\ 1 \in 1..e
    BY <1>3, <1>6
  <2>2. CASE i < BlankLine
    <3>1. i + 1 \in 1..BlankLine /\ req.from[i + 1] = f + l + 1
      <4>1. BlankLine \in Nat
        BY <1>1, RequestsAssumption DEF BlankLine, Request
      <4> QED
        BY <1>2, <1>3, <2>1, <2>2, <4>1
    <3>2. /\ \A k \in 1..Len(Line(i + 1)) :
               Stream[f + l + 1 + k] = Line(i + 1)[k] /\ Line(i + 1)[k] \notin {"CR", "LF"}
          /\ \A k \in 1..e : Stream[f + l + 1 + Len(Line(i + 1)) + k] = req.end[k]
          /\ Line(i + 1) \in Seq(Tokens) /\ Len(Line(i + 1)) \in Nat
      <4>1. /\ \A k \in 1..Len(Line(i + 1)) :
                  Stream[req.from[i + 1] + k] = Line(i + 1)[k] /\ Line(i + 1)[k] \notin {"CR", "LF"}
            /\ \A k \in 1..Len(req.end) : Stream[req.from[i + 1] + Len(Line(i + 1)) + k] = req.end[k]
        BY <1>1, <3>1, StreamShape
      <4>2. Line(i + 1) \in Seq(Tokens) /\ Len(Line(i + 1)) \in Nat
        BY <1>1, <3>1, LineShape
      <4> QED
        BY <1>3, <3>1, <4>1, <4>2
    <3>3. PICK l2 \in Nat : l2 = Len(Line(i + 1))
      BY <3>2
    <3>4. CASE l2 = 0
      <4>1. f + l + 1 + l2 + 1 = read + 1
        BY <1>4, <3>4
      <4>2. Next1 = req.end[1]
        BY <1>4, <2>1, <3>2, <3>3, <4>1
      <4> QED
        BY <1>4, <1>6, <4>2
    <3>5. CASE l2 # 0
      <4>1. 1 \in 1..l2 /\ f + l + 1 + 1 = read + 1
        BY <1>4, <3>5
      <4> QED
        BY <1>4, <1>6, <3>2, <3>3, <4>1
    <3> QED
      BY <3>4, <3>5
  <2>3. CASE i = BlankLine
    <3>1. read = Len(req.head)
      BY <1>2, <1>3, <1>4, <2>1, <2>3
    <3>2. /\ Len(Stream) = Len(req.head) + Len(req.body)
          /\ \A k \in 1..Len(req.body) : Stream[Len(req.head) + k] = req.body[k]
      BY <1>1, StreamShape
    <3>3. req.body \in Seq(Tokens) /\ Len(req.body) \in Nat /\ Len(req.head) \in Nat
      <4>1. req.body \in Seq(Tokens) /\ req.head \in Seq(Tokens)
        BY <1>1, RequestsAssumption DEF Request
      <4> QED
        BY <4>1
    <3>4. PICK h \in Nat, m \in Nat : h = Len(req.head) /\ m = Len(req.body)
      BY <3>3
    <3>5. 1 \in 1..m
      <4>1. sent \in 0..(h + m) /\ read \in 0..sent /\ read < sent /\ read = h
        BY <3>1, <3>2, <3>4 DEF Available, IInv, TypeOK
      <4> QED
        BY <4>1
    <3>6. req.body # <<>> /\ Next1 = req.body[1]
      <4>1. Stream[h + 1] = req.body[1] /\ read + 1 = h + 1
        BY <3>1, <3>2, <3>4, <3>5
      <4>2. req.body # <<>>
        BY <3>3, <3>4, <3>5
      <4> QED
        BY <1>4, <4>1, <4>2
    <3> QED
      BY <1>1, <1>6, <3>6 DEF Plain
  <2> QED
    <3>1. BlankLine \in Nat
      BY <1>1, RequestsAssumption DEF BlankLine, Request
    <3> QED
      BY <2>2, <2>3, <3>1
<1>7. req.end # <<"LF">>
  BY <1>4
<1> QED
  BY <1>2, <1>5, <1>6, <1>7

(* Behind the CR the line ends, with the LF or without.                    *)
LEMMA PeekMoves ==
  ASSUME Plain, IInv, ~left, NEW i \in 1..BlankLine, NEW o \in 0..Len(Line(i)), Where(i, o),
         PeekTakes \/ PeekLeaves
  PROVE  Where(i, o)'
<1>1. Between(i, o) /\ Available /\ Store("LF") /\ UNCHANGED req
  BY DEF PeekTakes, PeekLeaves, Where, Within, Between, Full, Whole, AtEnd, client
<1>2. Line(i)' = Line(i) /\ EndOf(req, i)' = EndOf(req, i)
  BY <1>1 DEF Line
<1>3. /\ Line(i) \in Seq(Tokens) /\ Len(Line(i)) \in Nat /\ req.from[i] \in Nat /\ Len(req.end) \in Nat
      /\ EndOf(req, i) = req.from[i] + Len(Line(i)) + Len(req.end)
  <2>1. req \in Requests
    BY DEF IInv, TypeOK
  <2> QED
    BY <2>1, LineShape
<1>4. at' = "return" /\ buf' = Append(buf, "LF")
  BY <1>1, Stored DEF IInv, TypeOK, Tokens
<1>5. buf' = Rest(Line(i), o)
  BY <1>1, <1>4 DEF Between, Part, Rest
<1>6. read' = EndOf(req, i)
  <2>1. read = req.from[i] + Len(Line(i)) + 1
    BY <1>1 DEF Between
  <2>2. CASE req.end = <<"CR", "LF">> /\ Next1 = "LF"
    <3>1. read' = read + 1 /\ Len(req.end) = 2
      BY <2>2 DEF PeekTakes, PeekLeaves, AtEnd
    <3> QED
      BY <1>3, <2>1, <3>1
  <2>3. CASE req.end = <<"CR">> /\ Next1 # "LF"
    <3>1. read' = read /\ Len(req.end) = 1
      BY <2>3 DEF PeekTakes, PeekLeaves
    <3> QED
      BY <1>3, <2>1, <3>1
  <2> QED
    BY <1>1, <2>2, <2>3, BehindCR
<1> QED
  BY <1>2, <1>4, <1>5, <1>6 DEF Where, Whole

(* What is left of a line is no blank line, unless the line is one; it is  *)
(* a Content-Length only when nothing of it is missing.                    *)
LEMMA RestKind ==
  ASSUME Plain, req \in Requests, NEW i \in 1..BlankLine, NEW o \in Nat, o < Len(Line(i)), NEW s \in Seq(Tokens),
         s = Rest(Line(i), o) \/ (Part(s, Line(i), o) /\ Len(s) # 0)
  PROVE  ~LastHeader(s) /\ (IsLength(s) <=> o = 0 /\ IsLength(Line(i)))
<1>1. Line(i) \in Seq(Tokens) /\ Len(Line(i)) \in Nat
  BY LineShape
<1>2. PICK w \in Seq(Tokens), l \in Nat, n \in Nat : w = Line(i) /\ l = Len(w) /\ n = Len(s)
  BY <1>1
<1>3. o + 1 \in 1..l /\ i \in 1..Len(req.lines) /\ w = req.lines[i]
  <2>1. Len(req.lines) \in Nat
    BY RequestsAssumption DEF Request
  <2>2. o + 1 \in 1..l /\ i # BlankLine
    BY <1>2, LineShape
  <2> QED
    BY <1>2, <2>1, <2>2 DEF BlankLine, Line, LineOf
<1>4. s[1] = w[o + 1] /\ n # 0
  <2>1. CASE s = Rest(w, o)
    <3> DEFINE t == SubSeq(w, o + 1, l)
    <3>1. t \in Seq(Tokens) /\ Len(t) = l - o /\ t[1] = w[o + 1] /\ Len(t) \in Nat /\ 1 \in 1..Len(t)
      BY <1>2, <1>3
    <3>2. s = Append(t, "LF")
      BY <1>2, <2>1 DEF Rest
    <3> HIDE DEF t
    <3> QED
      BY <1>2, <3>1, <3>2
  <2>2. CASE Part(s, w, o) /\ n # 0
    <3>1. o + n <= l /\ s = SubSeq(w, o + 1, o + n) /\ 1 \in 1..n
      BY <1>2, <2>2 DEF Part
    <3> QED
      BY <1>2, <1>3, <3>1
  <2> QED
    BY <1>2, <2>1, <2>2
<1>5. w[o + 1] \notin {"CR", "LF"}
  BY <1>2, <1>3, StreamShape
<1>6. w[o + 1] = "name" => o = 0
  <2>1. \A k \in 2..Len(req.lines[i]) : req.lines[i][k] # "name"
    BY <1>3 DEF Plain
  <2>2. o # 0 => o + 1 \in 2..l
    BY <1>3
  <2> QED
    BY <1>2, <1>3, <2>1, <2>2
<1>7. ~LastHeader(s)
  <2>1. s # <<>>
    BY <1>2, <1>4
  <2>2. s # <<"LF">>
    BY <1>4, <1>5
  <2> QED
    BY <2>1, <2>2 DEF LastHeader
<1>8. IsLength(s) <=> w[o + 1] = "name"
  BY <1>2, <1>4 DEF IsLength
<1>9. w # <<>>
  BY <1>2, <1>3
<1> QED
  BY <1>2, <1>6, <1>7, <1>8, <1>9 DEF IsLength

(* The LF that get_line puts behind a line is no part of its number.       *)
LEMMA LengthEnds == ASSUME NEW w \in Seq(Tokens) PROVE LengthOf(Append(w, "LF")) = Atoi(SubSeq(w, 4, Len(w)))
<1>1. PICK n \in Nat : n = Len(w)
  OBVIOUS
<1>2. PICK v \in Seq(Tokens) : /\ v = Append(w, "LF") /\ Len(v) = n + 1 /\ v[n + 1] = "LF"
                               /\ \A k \in 1..n : v[k] = w[k]
  <2> DEFINE u == Append(w, "LF")
  <2>1. u \in Seq(Tokens) /\ Len(u) = n + 1 /\ u[n + 1] = "LF" /\ \A k \in 1..n : u[k] = w[k]
    <3>1. "LF" \in Tokens
      BY DEF Tokens
    <3> QED
      BY <1>1, <3>1
  <2> HIDE DEF u
  <2> QED
    BY <2>1 DEF u
<1>3. PICK s \in Seq(Tokens), m \in Nat :
        /\ s = SubSeq(w, 4, Len(w)) /\ m = Len(s) /\ m = (IF n >= 3 THEN n - 3 ELSE 0)
        /\ \A k \in 1..m : s[k] = w[3 + k]
  <2> DEFINE u == SubSeq(w, 4, Len(w))
  <2>1. u \in Seq(Tokens) /\ Len(u) = (IF n >= 3 THEN n - 3 ELSE 0) /\ \A k \in 1..Len(u) : u[k] = w[3 + k]
    BY <1>1
  <2>2. Len(u) \in Nat
    BY <2>1
  <2> HIDE DEF u
  <2> QED
    BY <2>1, <2>2 DEF u
<1>4. PICK t \in Seq(Tokens), l \in Nat :
        /\ t = SubSeq(v, 4, Len(v)) /\ l = Len(t) /\ l = (IF n >= 3 THEN n - 2 ELSE 0)
        /\ \A k \in 1..l : t[k] = v[3 + k]
  <2> DEFINE u == SubSeq(v, 4, Len(v))
  <2>1. u \in Seq(Tokens) /\ Len(u) = (IF n >= 3 THEN n - 2 ELSE 0) /\ \A k \in 1..Len(u) : u[k] = v[3 + k]
    BY <1>2
  <2>2. Len(u) \in Nat
    BY <2>1
  <2> HIDE DEF u
  <2> QED
    BY <2>1, <2>2 DEF u
<1>5. (\A k \in 1..m : t[k] = s[k]) /\ (l # m => l = m + 1 /\ t[m + 1] = "LF")
  <2>1. ASSUME NEW k \in 1..m PROVE t[k] = s[k]
    <3>1. k \in 1..l /\ 3 + k \in 1..n
      BY <1>3, <1>4
    <3> QED
      BY <1>2, <1>3, <1>4, <3>1
  <2>2. ASSUME l # m PROVE l = m + 1 /\ t[m + 1] = "LF"
    <3>1. l = m + 1 /\ m + 1 \in 1..l /\ 3 + (m + 1) = n + 1
      BY <1>3, <1>4, <2>2
    <3> QED
      BY <1>2, <1>4, <3>1
  <2> QED
    BY <2>1, <2>2
<1>6. m = Len(s) /\ l = Len(t)
  BY <1>3, <1>4
<1>7. l = m \/ l = m + 1
  <2>1. m = (IF n >= 3 THEN n - 3 ELSE 0) /\ l = (IF n >= 3 THEN n - 2 ELSE 0)
    BY <1>3, <1>4
  <2> QED
    BY <2>1
<1>8. ASSUME NEW i \in Nat \ {0} PROVE (IsDigit(t, i) <=> IsDigit(s, i)) /\ (IsDigit(s, i) => t[i] = s[i])
  <2>1. CASE i <= m
    BY <1>5, <1>6, <1>7, <2>1 DEF IsDigit
  <2>2. CASE i > m
    <3>1. "LF" \notin Digits
      BY DEF Digits
    <3>2. i <= l => i = m + 1 /\ t[i] = "LF"
      BY <1>5, <1>7, <2>2
    <3> QED
      BY <1>6, <2>2, <3>1, <3>2 DEF IsDigit
  <2> QED
    BY <2>1, <2>2
<1>9. ASSUME NEW i \in Nat \ {0} PROVE Number(t, i) = Number(s, i)
  <2>1. /\ (IsDigit(t, i) <=> IsDigit(s, i)) /\ (IsDigit(s, i) => t[i] = s[i])
        /\ (IsDigit(t, i + 1) <=> IsDigit(s, i + 1)) /\ (IsDigit(s, i + 1) => t[i + 1] = s[i + 1])
    BY <1>8
  <2> QED
    BY <2>1 DEF Number
<1>10. ASSUME NEW i \in Nat \ {0}, NEW x \in {"space", "minus"}
       PROVE  (i <= Len(t) /\ t[i] = x) <=> (i <= Len(s) /\ s[i] = x)
  <2>1. CASE i <= m
    BY <1>5, <1>6, <1>7, <2>1
  <2>2. CASE i > m
    <3>1. i <= l => t[i] = "LF"
      BY <1>5, <1>7, <2>2
    <3> QED
      BY <1>6, <2>2, <3>1
  <2> QED
    BY <2>1, <2>2
<1>11. Atoi(t) = Atoi(s)
  <2>1. (t # <<>> /\ t[1] = "space") <=> (s # <<>> /\ s[1] = "space")
    <3>1. (1 <= Len(t) /\ t[1] = "space") <=> (1 <= Len(s) /\ s[1] = "space")
      BY <1>10
    <3> QED
      BY <1>6, <3>1
  <2>2. /\ (1 <= Len(t) /\ t[1] = "minus") <=> (1 <= Len(s) /\ s[1] = "minus")
        /\ (2 <= Len(t) /\ t[2] = "minus") <=> (2 <= Len(s) /\ s[2] = "minus")
    BY <1>10
  <2>3. Number(t, 1) = Number(s, 1) /\ Number(t, 2) = Number(s, 2) /\ Number(t, 3) = Number(s, 3)
    BY <1>9
  <2> QED
    BY <2>1, <2>2, <2>3 DEF Atoi
<1> QED
  BY <1>2, <1>3, <1>4, <1>11 DEF LengthOf

(* A Content-Length fits the buffer, and announces what it should.         *)
LEMMA LengthFits ==
  ASSUME Plain, req \in Requests, req.post, Spaced(req), NEW i \in 2..Len(req.lines), IsLength(req.lines[i])
  PROVE  Len(req.lines[i]) < MaxLen - 1 /\ LengthOf(Append(req.lines[i], "LF")) = req.announced
<1>1. req.lines[i] \in Seq(Tokens)
  BY RequestsAssumption DEF Request
<1>2. Len(req.lines[i]) < MaxLen - 1 /\ Atoi(SubSeq(req.lines[i], 4, Len(req.lines[i]))) = req.announced
  BY DEF Plain, Announces
<1> QED
  BY <1>1, <1>2, LengthEnds

(* A buffer full of a line goes out, and the line goes on.                 *)
LEMMA FullReturns ==
  ASSUME Plain, IInv, NEW i \in 1..BlankLine, NEW o \in 0..Len(Line(i)), Place(i, o), Full(i, o), Return
  PROVE  /\ Reading'
         /\ \E p \in 0..Len(Line(i)) : Reads(i, p)'
<1>1. req \in Requests /\ length \in Int /\ buf \in Seq(Tokens)
  BY DEF IInv, TypeOK
<1>2. Line(i) \in Seq(Tokens) /\ req.from[i] \in Nat /\ Len(Line(i)) \in Nat
  BY <1>1, LineShape
<1>3. PICK w \in Seq(Tokens), f \in Nat, l \in Nat, n \in Nat, m \in Nat :
        w = Line(i) /\ f = req.from[i] /\ l = Len(w) /\ n = Len(buf) /\ m = MaxLen - 1 /\ m > 0
  <2>1. MaxLen - 1 \in Nat /\ MaxLen - 1 > 0 /\ Len(buf) \in Nat
    BY <1>1, MaxLenAssumption
  <2> QED
    BY <1>2, <2>1
<1>4. /\ n = m /\ Part(buf, w, o) /\ o + n <= l /\ read = f + o + n /\ o \in Nat
  BY <1>3 DEF Full, Part
<1>5. o < l
  BY <1>3, <1>4
<1>6. i \in 1..Len(req.lines) /\ w = req.lines[i] /\ i \in DOMAIN req.lines
  <2>1. Len(req.lines) \in Nat /\ req.lines \in Seq(Seq(Tokens))
    BY <1>1, RequestsAssumption DEF Request
  <2>2. i # BlankLine
    BY <1>1, <1>3, <1>5, LineShape
  <2> QED
    BY <1>3, <2>1, <2>2 DEF BlankLine, Line, LineOf
<1>7. ~LastHeader(buf) /\ (IsLength(buf) <=> o = 0 /\ IsLength(w))
  <2>1. o < Len(Line(i)) /\ Len(buf) # 0 /\ Part(buf, Line(i), o)
    BY <1>3, <1>4, <1>5
  <2>2. ~LastHeader(buf) /\ (IsLength(buf) <=> o = 0 /\ IsLength(Line(i)))
    BY <1>1, <1>4, <2>1, RestKind
  <2> QED
    BY <1>3, <2>2
<1>8. UNCHANGED <<req, read>> /\ buf' = <<>> /\ at' = "recv" /\ phase' = "headers" /\ lines' = Append(lines, buf)
  BY <1>7 DEF Return, client
<1>9. Line(i)' = Line(i) /\ EndOf(req, i)' = EndOf(req, i)
  BY <1>8 DEF Line
<1>10. ~(phase = "headers" /\ req.post /\ Spaced(req) /\ IsLength(buf))
  <2> SUFFICES ASSUME phase = "headers", req.post, Spaced(req), IsLength(buf) PROVE FALSE
    OBVIOUS
  <2>1. i # 1 /\ IsLength(req.lines[i])
    BY <1>6, <1>7 DEF Place
  <2>2. i \in 2..Len(req.lines)
    BY <1>6, <2>1
  <2> QED
    BY <1>1, <1>3, <1>4, <1>6, <2>1, <2>2, LengthFits
<1>11. req.post /\ Spaced(req) => length' = length
  BY <1>10 DEF Return
<1>12. ~Short
  BY <1>3, <1>4, <1>6 DEF Short
<1>13. o + n < l /\ \E c \in 0..(o + n) : o + n = c * (MaxLen - 1)
  <2>1. PICK c \in 0..o : o = c * m
    BY <1>3 DEF Place
  <2>2. o + n = (c + 1) * m /\ c + 1 \in 0..(o + n) /\ c + 1 \in 1..l
    <3>1. c \in Nat /\ (c + 1) * m = c * m + m
      BY <1>4
    <3>2. c <= o /\ n > 0 /\ o + n <= l
      BY <1>3, <1>4
    <3>3. c + 1 \in 0..(o + n) /\ c + 1 \in 1..l
      BY <1>4, <3>1, <3>2
    <3> QED
      BY <1>4, <2>1, <3>1, <3>3
  <2>3. l # (c + 1) * m
    BY <1>1, <1>3, <1>6, <2>2 DEF Plain
  <2>4. o + n < l
    <3>1. o + n # l
      BY <2>2, <2>3
    <3> QED
      BY <1>4, <3>1
  <2> QED
    BY <1>3, <2>2, <2>4
<1>14. Place(i, o + n)'
  <2>1. o + n # 0
    BY <1>3, <1>4
  <2>2. Short' => Short
    BY <1>8 DEF Short
  <2>3. (o + n)' = o + n
    OBVIOUS
  <2> QED
    BY <1>3, <1>8, <1>9, <1>11, <1>12, <1>13, <2>1, <2>2 DEF Place
<1>15. Where(i, o + n)'
  <2>1. Part(<<>>, w, o + n)
    <3>1. o + n \in Nat /\ o + n <= l
      BY <1>4
    <3> QED
      BY <1>3, <3>1, PartNone
  <2>2. read' = f + (o + n) + Len(buf')
    BY <1>3, <1>4, <1>8
  <2> QED
    BY <1>3, <1>8, <1>9, <2>1, <2>2 DEF Where, Within
<1>16. o + n \in 0..Len(Line(i))
  BY <1>3, <1>4
<1> QED
  BY <1>8, <1>14, <1>15, <1>16 DEF Reading, Reads

(* Whether a length is announced by line i, or was before.                 *)
LEMMA OneMoreLine ==
  ASSUME NEW i \in Nat
  PROVE  (\E j \in 2..i : IsLength(req.lines[j]))
           <=> (\E j \in 2..i - 1 : IsLength(req.lines[j])) \/ (i > 1 /\ IsLength(req.lines[i]))
OBVIOUS

(* The lines so far, and the next.                                         *)
LEMMA OneLineMore ==
  ASSUME NEW n \in Nat, lines \in Seq(Seq(Tokens)), Linewise(n), UNCHANGED req,
         NEW s \in Seq(Tokens), s = Append(Line(n + 1), "LF"), lines' = Append(lines, s)
  PROVE  Linewise(n + 1)'
<1>1. \A k \in 1..(n + 1) : Line(k)' = Line(k)
  BY DEF Line
<1>2. Len(lines) = n /\ \A k \in 1..n : lines[k] = Append(Line(k), "LF")
  BY DEF Linewise
<1>3. Len(lines') = n + 1 /\ lines'[n + 1] = s /\ \A k \in 1..n : lines'[k] = lines[k]
  BY <1>2
<1>4. ASSUME NEW k \in 1..(n + 1) PROVE lines'[k] = Append(Line(k)', "LF")
  <2>1. k \in 1..n \/ k = n + 1
    OBVIOUS
  <2> QED
    BY <1>1, <1>2, <1>3, <2>1
<1> QED
  BY <1>3, <1>4 DEF Linewise

(* All of a line that is left goes out, and the next line follows.         *)
LEMMA WholeReturns ==
  ASSUME Plain, IInv, NEW i \in 1..BlankLine, NEW o \in 0..Len(Line(i)), Place(i, o), Whole(i, o),
         o < Len(Line(i)), Return
  PROVE  /\ Reading' /\ i + 1 \in 1..BlankLine' /\ 0 \in 0..Len(Line(i + 1)')
         /\ Reads(i + 1, 0)'
<1>1. req \in Requests /\ length \in Int /\ buf \in Seq(Tokens) /\ lines \in Seq(Seq(Tokens))
  BY DEF IInv, TypeOK
<1>2. Line(i) \in Seq(Tokens) /\ Len(Line(i)) \in Nat /\ o \in Nat
  BY <1>1, LineShape
<1>3. i \in 1..Len(req.lines) /\ Line(i) = req.lines[i] /\ i \in DOMAIN req.lines
      /\ i < BlankLine /\ BlankLine \in Nat /\ i + 1 \in 1..BlankLine
  <2>1. Len(req.lines) \in Nat /\ req.lines \in Seq(Seq(Tokens))
    BY <1>1, RequestsAssumption DEF Request
  <2>2. Len(Line(i)) # 0
    BY <1>2
  <2>3. i # BlankLine
    BY <1>1, <2>2, LineShape
  <2> QED
    BY <2>1, <2>3 DEF BlankLine, Line, LineOf
<1>4. PICK w \in Seq(Tokens), l \in Nat : w = Line(i) /\ l = Len(w) /\ o < l
  BY <1>2
<1>5. buf = Rest(w, o) /\ read = EndOf(req, i)
  BY <1>4 DEF Whole
<1>6. ~LastHeader(buf) /\ (IsLength(buf) <=> o = 0 /\ IsLength(w))
  <2>1. ~LastHeader(buf) /\ (IsLength(buf) <=> o = 0 /\ IsLength(Line(i)))
    BY <1>1, <1>2, <1>4, <1>5, RestKind
  <2> QED
    BY <1>4, <2>1
<1>7. UNCHANGED <<req, read>> /\ buf' = <<>> /\ at' = "recv" /\ phase' = "headers" /\ lines' = Append(lines, buf)
  BY <1>6 DEF Return, client
<1>8. /\ Line(i + 1)' = Line(i + 1) /\ BlankLine' = BlankLine
      /\ EndOf(req, i)' = EndOf(req, i) /\ EndOf(req, i) = req.from[i + 1]
  <2>1. EndOf(req, i) = req.from[i + 1]
    BY <1>1, <1>3, LineShape
  <2> QED
    BY <1>7, <2>1 DEF Line, BlankLine
<1>9. Line(i + 1) \in Seq(Tokens) /\ Len(Line(i + 1)) \in Nat /\ req.from[i + 1] \in Nat
  BY <1>1, <1>3, LineShape
<1>10. o = 0 => buf = Append(Line(i), "LF")
  BY <1>2, <1>4, <1>5 DEF Rest
<1>11. PICK c \in 0..o : o = c * (MaxLen - 1)
  BY DEF Place
<1>12. o # 0 => l >= MaxLen - 1
  <2>1. PICK m \in Nat : m = MaxLen - 1
    BY MaxLenAssumption
  <2>2. o # 0 => c >= 1
    BY <1>2, <1>11, <2>1
  <2>3. ASSUME c >= 1 PROVE o >= m
    <3>1. PICK d \in Nat : c = d + 1
      BY <1>2, <2>3
    <3>2. (d + 1) * m = d * m + m /\ d * m \in Nat
      BY <2>1
    <3> QED
      BY <1>2, <1>11, <2>1, <3>1, <3>2
  <2> QED
    BY <1>2, <1>4, <2>1, <2>2, <2>3
<1>13. req.post /\ Spaced(req) => length' = IF \E j \in 2..i : IsLength(req.lines[j]) THEN req.announced ELSE 0
  <2> SUFFICES ASSUME req.post, Spaced(req)
               PROVE  length' = IF \E j \in 2..i : IsLength(req.lines[j]) THEN req.announced ELSE 0
    OBVIOUS
  <2>1. length = IF \E j \in 2..i - 1 : IsLength(req.lines[j]) THEN req.announced ELSE 0
    BY DEF Place
  <2>2. length' = IF phase = "headers" /\ IsLength(buf) THEN LengthOf(buf) ELSE length
    BY DEF Return
  <2>3. phase = "headers" <=> ~(i = 1 /\ o = 0)
    BY DEF Return, Reading, Place
  <2>4. i > 1 /\ IsLength(req.lines[i]) =>
          o = 0 /\ LengthOf(Append(req.lines[i], "LF")) = req.announced
    <3> SUFFICES ASSUME i > 1, IsLength(req.lines[i])
                 PROVE  o = 0 /\ LengthOf(Append(req.lines[i], "LF")) = req.announced
      OBVIOUS
    <3>1. i \in 2..Len(req.lines)
      BY <1>3
    <3>2. Len(req.lines[i]) < MaxLen - 1 /\ LengthOf(Append(req.lines[i], "LF")) = req.announced
      BY <1>1, <3>1, LengthFits
    <3> QED
      BY <1>3, <1>4, <1>12, <3>2, MaxLenAssumption
  <2>5. (\E j \in 2..i : IsLength(req.lines[j]))
           <=> (\E j \in 2..i - 1 : IsLength(req.lines[j])) \/ (i > 1 /\ IsLength(req.lines[i]))
    BY OneMoreLine
  <2>6. CASE i > 1 /\ IsLength(req.lines[i])
    <3>1. o = 0 /\ IsLength(buf) /\ phase = "headers" /\ LengthOf(buf) = req.announced
      <4>1. o = 0 /\ LengthOf(Append(req.lines[i], "LF")) = req.announced
        BY <2>4, <2>6
      <4>2. buf = Append(req.lines[i], "LF")
        BY <1>3, <1>10, <4>1
      <4>3. IsLength(w)
        BY <1>3, <1>4, <2>6
      <4> QED
        BY <1>6, <2>3, <2>6, <4>1, <4>2, <4>3
    <3> QED
      BY <2>2, <2>5, <2>6, <3>1
  <2>7. CASE ~(i > 1 /\ IsLength(req.lines[i]))
    <3>1. ~(phase = "headers" /\ IsLength(buf))
      BY <1>3, <1>4, <1>6, <2>3, <2>7
    <3>2. length' = length
      BY <2>2, <3>1
    <3> QED
      BY <2>1, <2>5, <2>7, <3>2
  <2> QED
    BY <2>6, <2>7
<1>14. Short => Linewise(i)'
  <2> SUFFICES ASSUME Short PROVE Linewise(i)'
    OBVIOUS
  <2>1. o = 0
    BY <1>3, <1>4, <1>12, MaxLenAssumption DEF Short
  <2>2. Linewise(i - 1) /\ i - 1 \in Nat /\ (i - 1) + 1 = i
    BY DEF Place
  <2>3. Linewise((i - 1) + 1)'
    BY <1>1, <1>7, <1>10, <2>1, <2>2, OneLineMore
  <2> QED
    BY <2>2, <2>3
<1>15. Place(i + 1, 0)'
  <2>1. \E d \in 0..0 : 0 = d * (MaxLen - 1)
    BY MaxLenAssumption
  <2>2. 0 < Len(Line(i + 1)) \/ Line(i + 1) = <<>>
    BY <1>9
  <2>3. i + 1 # 1 /\ (i + 1) - 1 = i
    OBVIOUS
  <2>4. Short' => Short
    BY <1>7 DEF Short
  <2> QED
    BY <1>7, <1>8, <1>13, <1>14, <2>1, <2>2, <2>3, <2>4 DEF Place
<1>16. Where(i + 1, 0)'
  <2>1. Part(<<>>, Line(i + 1), 0)
    BY <1>9, PartNone
  <2>2. read' = req.from[i + 1] + 0 + Len(buf')
    BY <1>5, <1>7, <1>8, <1>9
  <2> QED
    BY <1>7, <1>8, <2>1, <2>2 DEF Where, Within
<1> QED
  BY <1>3, <1>7, <1>8, <1>9, <1>15, <1>16 DEF Reading, Reads

(* Of a blank line there is the LF.                                        *)
LEMMA BlankRest == Rest(<<>>, 0) = <<"LF">>
<1>1. Len(<<>>) = 0 /\ SubSeq(<<>>, 0 + 1, 0) = <<>>
  OBVIOUS
<1>2. Append(<<>>, "LF") = <<"LF">>
  OBVIOUS
<1> QED
  BY <1>1, <1>2 DEF Rest

(* A blank line ends the head, or is all there is of the request line.     *)
LEMMA BlankReturns ==
  ASSUME Plain, IInv, NEW i \in 1..BlankLine, NEW o \in 0..Len(Line(i)), Place(i, o), Whole(i, o),
         ~(o < Len(Line(i))), Return
  PROVE  /\ ~Reading'
         /\ phase' \in {"feed", "done"} => InBody'
         /\ phase' = "refused" /\ Short' => \E n \in 0..BlankLine' : Linewise(n)'
<1>1. req \in Requests /\ length \in Int /\ buf \in Seq(Tokens) /\ lines \in Seq(Seq(Tokens))
  BY DEF IInv, TypeOK
<1>2. o = 0 /\ Line(i) = <<>>
  BY DEF Place
<1>3. buf = <<"LF">> /\ buf = Append(Line(i), "LF") /\ read = EndOf(req, i)
  BY <1>2, BlankRest DEF Whole, Rest
<1>4. LastHeader(buf) /\ ~IsLength(buf)
  BY <1>3 DEF LastHeader, IsLength
<1>5. /\ UNCHANGED <<req, read, posted, length>> /\ lines' = Append(lines, buf)
      /\ phase' = IF phase = "request" THEN "refused" ELSE IF ~req.post THEN "done"
                  ELSE IF length' = -1 THEN "refused" ELSE "feed"
  BY <1>4 DEF Return, client
<1>6. posted = <<>>
  BY DEF Return, IInv, Filling
<1>7. Len(req.lines) \in Nat /\ BlankLine = Len(req.lines) + 1 /\ BlankLine' = BlankLine /\ (Short' <=> Short)
  BY <1>1, <1>5, RequestsAssumption DEF Request, BlankLine, Short
<1>8. Short => Linewise(i)'
  <2>1. i - 1 \in Nat /\ (i - 1) + 1 = i
    OBVIOUS
  <2>2. Short => Linewise(i - 1)
    BY DEF Place
  <2>3. Short => Linewise((i - 1) + 1)'
    BY <1>1, <1>3, <1>5, <2>1, <2>2, OneLineMore
  <2> QED
    BY <2>1, <2>3
<1>9. phase' = "refused" /\ Short' => \E n \in 0..BlankLine' : Linewise(n)'
  <2>1. i \in 0..BlankLine'
    BY <1>7
  <2> QED
    BY <1>7, <1>8, <2>1
<1>10. ASSUME phase' \in {"feed", "done"} PROVE InBody'
  <2>1. i # 1
    BY <1>2, <1>5, <1>10 DEF Place
  <2>2. i = BlankLine
    <3> SUFFICES ASSUME i # BlankLine PROVE FALSE
      OBVIOUS
    <3>1. i \in 2..Len(req.lines) /\ Line(i) = req.lines[i]
      BY <1>7, <2>1 DEF Line, LineOf
    <3> QED
      BY <1>1, <1>2, <3>1 DEF Plain
  <2>3. read = Len(req.head) /\ Len(req.head) \in Nat
    BY <1>1, <1>3, <2>2, LineShape, RequestsAssumption DEF Request
  <2>4. req.post /\ Spaced(req) => length = req.announced
    <3>1. req.post /\ Spaced(req) => length = IF \E j \in 2..Len(req.lines) : IsLength(req.lines[j]) THEN req.announced ELSE 0
      BY <1>7, <2>2 DEF Place
    <3>2. req.post /\ Spaced(req) => Announces(req)
      BY <1>1 DEF Plain
    <3> QED
      BY <3>1, <3>2 DEF Announces
  <2>5. Len(posted') = 0 /\ read' = Len(req'.head) + Len(posted')
    BY <1>5, <1>6, <2>3
  <2> QED
    BY <1>5, <1>7, <1>8, <2>2, <2>4, <2>5 DEF InBody
<1>11. ~Reading'
  BY <1>5 DEF Reading
<1> QED
  BY <1>9, <1>10, <1>11

(* A byte of the body is fed.                                              *)
LEMMA FeedMoves ==
  ASSUME IInv, ~left, InBody, Feed
  PROVE  InBody'
<1>1. req \in Requests /\ posted \in Seq(Tokens \cup {NUL})
  BY DEF IInv, TypeOK
<1>2. /\ Available /\ char' = Stream[read + 1] /\ read' = read + 1 /\ posted' = Append(posted, char')
      /\ UNCHANGED <<req, lines, length>>
  BY DEF Feed, AtEnd, client, Next1
<1>3. /\ Len(Stream) = Len(req.head) + Len(req.body)
      /\ \A k \in 1..Len(req.body) : Stream[Len(req.head) + k] = req.body[k]
  <2>1. 1 \in 1..BlankLine
    BY <1>1, RequestsAssumption DEF Request, BlankLine
  <2> QED
    BY <1>1, <2>1, StreamShape
<1>4. PICK h \in Nat, m \in Nat, p \in Nat : h = Len(req.head) /\ m = Len(req.body) /\ p = Len(posted)
  <2>1. req.head \in Seq(Tokens) /\ req.body \in Seq(Tokens)
    BY <1>1, RequestsAssumption DEF Request
  <2>2. Len(req.head) \in Nat /\ Len(req.body) \in Nat /\ Len(posted) \in Nat
    BY <1>1, <2>1
  <2> QED
    BY <2>2
<1>5. read = h + p /\ \A k \in 1..p : k <= m /\ posted[k] = req.body[k]
  BY <1>4 DEF InBody
<1>6. p + 1 \in 1..m /\ read + 1 = h + (p + 1)
  <2>1. sent \in 0..(h + m) /\ read < sent
    BY <1>2, <1>3, <1>4 DEF Available, IInv, TypeOK
  <2> QED
    BY <1>5, <2>1
<1>7. char' = req.body[p + 1]
  BY <1>2, <1>3, <1>4, <1>6
<1>8. Len(posted') = p + 1 /\ posted'[p + 1] = char' /\ \A k \in 1..p : posted'[k] = posted[k]
  <2>1. char' \in Tokens
    <3>1. req.body \in Seq(Tokens)
      BY <1>1, RequestsAssumption DEF Request
    <3> QED
      BY <1>4, <1>6, <1>7, <3>1
  <2> QED
    BY <1>1, <1>2, <1>4, <2>1
<1>9. ASSUME NEW k \in 1..(p + 1) PROVE k <= m /\ posted'[k] = req.body[k]
  <2>1. k \in 1..p \/ k = p + 1
    OBVIOUS
  <2> QED
    BY <1>5, <1>6, <1>7, <1>8, <2>1
<1>10. read' = h + Len(posted')
  BY <1>2, <1>5, <1>6, <1>8
<1>11. /\ req'.post /\ Spaced(req') => length' = req'.announced
       /\ Short' => Linewise(BlankLine)'
  BY <1>2 DEF InBody, Short, Linewise, BlankLine, Line
<1> QED
  BY <1>2, <1>4, <1>8, <1>9, <1>10, <1>11 DEF InBody

(* get_line returns, whatever it has.                                      *)
LEMMA Returns ==
  ASSUME Plain, IInv, ~left, Course, Return
  PROVE  Course'
<1>0. PICK i \in 1..BlankLine : \E o \in 0..Len(Line(i)) : Reads(i, o)
  BY DEF Course, Return
<1>1. PICK o \in 0..Len(Line(i)) : Place(i, o) /\ Where(i, o)
  BY <1>0 DEF Reads
<1>2. CASE Full(i, o)
  <2>1. Reading' /\ \E q \in 0..Len(Line(i)) : Reads(i, q)'
    BY <1>1, <1>2, FullReturns
  <2>2. Line(i)' = Line(i) /\ BlankLine' = BlankLine
    BY DEF Return, client, Line, BlankLine
  <2>3. phase' \notin {"feed", "done", "refused"}
    BY <2>1 DEF Reading
  <2>4. \E j \in 1..BlankLine' : \E q \in 0..Len(Line(j)') : Reads(j, q)'
    BY <2>1, <2>2
  <2> QED
    BY <2>3, <2>4 DEF Course
<1>3. CASE Whole(i, o) /\ o < Len(Line(i))
  <2>1. /\ Reading' /\ i + 1 \in 1..BlankLine' /\ 0 \in 0..Len(Line(i + 1)')
        /\ Reads(i + 1, 0)'
    BY <1>1, <1>3, WholeReturns
  <2>2. phase' \notin {"feed", "done", "refused"}
    BY <2>1 DEF Reading
  <2>3. \E j \in 1..BlankLine' : \E q \in 0..Len(Line(j)') : Reads(j, q)'
    BY <2>1
  <2> QED
    BY <2>2, <2>3 DEF Course
<1>4. CASE Whole(i, o) /\ ~(o < Len(Line(i)))
  BY <1>1, <1>4, BlankReturns DEF Course
<1> QED
  BY <1>1, <1>2, <1>3, <1>4 DEF Where, Within, Between, Return

(* Before anything is read the thread is at the first line.                *)
LEMMA InitCourse == Init => Course
<1> SUFFICES ASSUME Init PROVE Course
  OBVIOUS
<1>1. req \in Requests /\ read = 0 /\ at = "recv" /\ buf = <<>> /\ phase = "request" /\ lines = <<>> /\ length = 0
  BY DEF Init
<1>2. Len(req.lines) \in Nat /\ 1 \in 1..BlankLine /\ req.from[1] = 0
  <2>1. Len(req.lines) \in Nat
    BY <1>1, RequestsAssumption DEF Request
  <2>2. req.from[1] = 0
    BY <1>1, SentAssumption DEF AsSent
  <2> QED
    BY <2>1, <2>2 DEF BlankLine
<1>3. Line(1) \in Seq(Tokens) /\ Len(Line(1)) \in Nat
  BY <1>1, <1>2, LineShape
<1>4. Place(1, 0)
  <2>1. \E c \in 0..0 : 0 = c * (MaxLen - 1)
    BY MaxLenAssumption
  <2>2. 0 < Len(Line(1)) \/ Line(1) = <<>>
    BY <1>3
  <2>3. ~ \E j \in 2..0 : IsLength(req.lines[j])
    OBVIOUS
  <2>4. Linewise(0)
    BY <1>1 DEF Linewise
  <2>5. 1 - 1 = 0
    OBVIOUS
  <2> QED
    BY <1>1, <2>1, <2>2, <2>3, <2>4, <2>5 DEF Place
<1>5. Where(1, 0)
  <2>1. Part(<<>>, Line(1), 0)
    BY <1>3, PartNone
  <2>2. read = req.from[1] + 0 + Len(buf)
    BY <1>1, <1>2
  <2> QED
    BY <1>1, <2>1, <2>2 DEF Where, Within
<1>6. 0 \in 0..Len(Line(1))
  BY <1>3
<1> QED
  BY <1>1, <1>2, <1>4, <1>5, <1>6 DEF Course, Reads

(* Every step keeps the thread on its course through the request.          *)
LEMMA NextCourse == Plain /\ IInv /\ Course /\ [Next]_vars => Course'
<1> SUFFICES ASSUME Plain, IInv, Course, [Next]_vars, ~left' PROVE Course'
  BY DEF Course
<1>0. ~left
  BY DEF Next, Thread, SendByte, Leave, RecvByte, RecvEnd, PeekTakes, PeekLeaves, Return, Feed, FeedEnds,
         Over, vars, client
<1>1. ASSUME UNCHANGED <<req, read, at, buf, phase, lines, length, posted>> PROVE Course'
  <2>1. BlankLine' = BlankLine /\ (Short' <=> Short) /\ (Reading' <=> Reading)
    BY <1>1 DEF BlankLine, Short, Reading
  <2>2. \A i : Line(i)' = Line(i)
    BY <1>1 DEF Line
  <2>3. \A n : Linewise(n)' <=> Linewise(n)
    BY <1>1, <2>2 DEF Linewise
  <2>4. ASSUME NEW i, NEW o, Reads(i, o) PROVE Reads(i, o)'
    <3>1. Place(i, o)'
      BY <1>1, <2>1, <2>2, <2>3, <2>4 DEF Reads, Place
    <3>2. Where(i, o)'
      BY <1>1, <2>2, <2>4 DEF Reads, Where, Within, Between, Full, Whole
    <3> QED
      BY <3>1, <3>2 DEF Reads
  <2>5. InBody => InBody'
    BY <1>1, <2>1, <2>3 DEF InBody
  <2>6. Reading => \E i \in 1..BlankLine' : \E o \in 0..Len(Line(i)') : Reads(i, o)'
    <3>1. Reading => \E i \in 1..BlankLine : \E o \in 0..Len(Line(i)) : Reads(i, o)
      BY <1>0 DEF Course
    <3> QED
      BY <2>1, <2>2, <2>4, <3>1
  <2> QED
    BY <1>0, <1>1, <2>1, <2>3, <2>5, <2>6 DEF Course
<1>2. CASE RecvByte \/ PeekTakes \/ PeekLeaves
  <2>1. UNCHANGED <<req, phase, lines, length>> /\ Reading
    BY <1>2 DEF RecvByte, PeekTakes, PeekLeaves, client
  <2>0. PICK i \in 1..BlankLine : \E o \in 0..Len(Line(i)) : Reads(i, o)
    BY <1>0, <2>1 DEF Course
  <2>2. PICK o \in 0..Len(Line(i)) : Place(i, o) /\ Where(i, o)
    BY <2>0 DEF Reads
  <2>3. Where(i, o)'
    BY <1>0, <1>2, <2>2, RecvMoves, PeekMoves
  <2>4. Place(i, o)'
    BY <2>1, <2>2 DEF Place, Linewise, Line, Short
  <2>5. Line(i)' = Line(i) /\ BlankLine' = BlankLine /\ phase' = phase
    BY <2>1 DEF Line, BlankLine
  <2>6. \E j \in 1..BlankLine' : \E q \in 0..Len(Line(j)') : Reads(j, q)'
    BY <2>2, <2>3, <2>4, <2>5 DEF Reads
  <2>7. phase' \notin {"feed", "done", "refused"}
    BY <2>1 DEF Reading
  <2> QED
    BY <2>6, <2>7 DEF Course
<1>3. CASE Return
  BY <1>0, <1>3, Returns
<1>4. CASE Feed
  <2>1. InBody'
    BY <1>0, <1>4, FeedMoves DEF Feed, Course
  <2> QED
    BY <1>4, <2>1 DEF Feed, Course, Reading
<1>5. CASE FeedEnds
  <2>1. InBody /\ phase' = "done" /\ UNCHANGED <<req, read, lines, length, posted>>
    BY <1>0, <1>5 DEF FeedEnds, Course, client
  <2>2. InBody'
    BY <2>1 DEF InBody, Linewise, Line, BlankLine, Short
  <2> QED
    BY <2>1, <2>2 DEF Course, Reading
<1>6. CASE SendByte
  BY <1>1, <1>6 DEF SendByte
<1>7. CASE Over \/ UNCHANGED vars
  BY <1>1, <1>7 DEF Over, vars
<1> QED
  BY <1>0, <1>2, <1>3, <1>4, <1>5, <1>6, <1>7 DEF Next, Thread, Leave, RecvEnd, AtEnd

(* In a plain request of which nobody reads ahead, every line get_line     *)
(* returns is the next one the client sent, with a LF for its end.         *)
THEOREM LinesArrive == Plain => (Spec => []LineByLine)
<1> SUFFICES ASSUME Plain PROVE Spec => []LineByLine
  OBVIOUS
<1>1. Init => IInv /\ Course
  BY InitInv, InitCourse
<1>2. IInv /\ Course /\ [Next]_vars => (IInv /\ Course)'
  BY NextInv, NextCourse
<1>3. IInv /\ Course => LineByLine
  <2> SUFFICES ASSUME IInv, Course, Short, ~left PROVE LineByLine
    BY DEF LineByLine
  <2>1. Len(req.lines) \in Nat /\ BlankLine = Len(req.lines) + 1 /\ lines \in Seq(Seq(Tokens))
    BY RequestsAssumption DEF IInv, TypeOK, Request, BlankLine
  <2>2. PICK n \in 0..BlankLine : Linewise(n)
    <3>1. CASE Reading
      <4>1. PICK i \in 1..BlankLine : \E o \in 0..Len(Line(i)) : Reads(i, o)
        BY <3>1 DEF Course
      <4>2. i - 1 \in 0..BlankLine /\ Linewise(i - 1)
        BY <2>1, <4>1 DEF Reads, Place
      <4> QED
        BY <4>2
    <3>2. CASE phase \in {"feed", "done"}
      <4>1. Linewise(BlankLine) /\ BlankLine \in 0..BlankLine
        BY <2>1, <3>2 DEF Course, InBody
      <4> QED
        BY <4>1
    <3>3. CASE phase = "refused"
      BY <3>3 DEF Course
    <3> QED
      BY <3>1, <3>2, <3>3 DEF IInv, TypeOK, Reading
  <2>3. ASSUME NEW k \in 1..n
        PROVE  lines[k] = IF k <= Len(req.lines) THEN Append(req.lines[k], "LF") ELSE <<"LF">>
    <3>1. lines[k] = Append(Line(k), "LF")
      BY <2>2 DEF Linewise
    <3>2. Append(<<>>, "LF") = <<"LF">>
      OBVIOUS
    <3> QED
      BY <3>1, <3>2 DEF Line, LineOf
  <2>4. DOMAIN lines = 1..n /\ Len(lines) = n
    BY <2>1, <2>2 DEF Linewise
  <2>5. n <= Len(req.lines) + 1
    BY <2>1, <2>2
  <2> QED
    BY <2>3, <2>4, <2>5, Zenon DEF LineByLine
<1> QED
  BY <1>1, <1>2, <1>3, PTL DEF Spec

(* The headers of a plain request end where the client ended them: the     *)
(* program is fed the body, all of it, and nothing else.                   *)
THEOREM BodyIsWhole == Plain => (Spec => []BodyWhole)
<1> SUFFICES ASSUME Plain PROVE Spec => []BodyWhole
  OBVIOUS
<1>1. Init => IInv /\ Course
  BY InitInv, InitCourse
<1>2. IInv /\ Course /\ [Next]_vars => (IInv /\ Course)'
  BY NextInv, NextCourse
<1>3. IInv /\ Course => BodyWhole
  <2> SUFFICES ASSUME IInv, Course, phase \in {"feed", "done"}, ~left
               PROVE  /\ read = Len(req.head) + Len(posted)
                      /\ posted = SubSeq(req.body, 1, Len(posted))
                      /\ phase = "done" /\ req.post /\ Spaced(req) => posted = req.body
    BY DEF BodyWhole
  <2>1. InBody
    BY DEF Course
  <2>2. req \in Requests /\ posted \in Seq(Tokens \cup {NUL}) /\ length \in Int
    BY DEF IInv, TypeOK
  <2>3. req.body \in Seq(Tokens)
    BY <2>2, RequestsAssumption DEF Request
  <2>4. PICK p \in Nat, m \in Nat : p = Len(posted) /\ m = Len(req.body)
    BY <2>2, <2>3
  <2>5. \A k \in 1..p : k <= m /\ posted[k] = req.body[k]
    BY <2>1, <2>4 DEF InBody
  <2>6. p <= m
    <3>1. p # 0 => p \in 1..p
      OBVIOUS
    <3> QED
      BY <2>5, <3>1
  <2>7. posted = SubSeq(req.body, 1, p)
    <3> DEFINE t == SubSeq(req.body, 1, p)
    <3>1. t \in Seq(Tokens) /\ Len(t) = p /\ \A k \in 1..p : t[k] = req.body[k]
      BY <2>3, <2>4, <2>6
    <3>2. t \in Seq(Tokens \cup {NUL})
      BY <3>1
    <3>3. \A k \in 1..p : posted[k] = t[k]
      BY <2>5, <3>1
    <3> HIDE DEF t
    <3> QED
      BY <2>2, <2>4, <3>1, <3>2, <3>3
  <2>8. ASSUME phase = "done", req.post, Spaced(req) PROVE posted = req.body
    <3>1. length = req.announced /\ (m <= req.announced \/ req.body = <<>>)
      BY <2>1, <2>2, <2>4, <2>8 DEF InBody, Plain, Announces
    <3>2. length >= 0 => p = length
      BY <2>4, <2>8 DEF IInv, PipeFilled
    <3>3. req.body = <<>> => m = 0
      BY <2>4
    <3>4. p = m
      BY <2>2, <2>6, <3>1, <3>2, <3>3
    <3>5. SubSeq(req.body, 1, m) = req.body
      BY <2>3, <2>4
    <3> QED
      BY <2>7, <3>4, <3>5
  <2> QED
    BY <2>1, <2>4, <2>7, <2>8 DEF InBody
<1> QED
  BY <1>1, <1>2, <1>3, PTL DEF Spec

(* When the headers of a plain POST are through, content_length is what    *)
(* its client announced.                                                   *)
THEOREM LengthIsKnown == Plain => (Spec => []LengthKnown)
<1> SUFFICES ASSUME Plain PROVE Spec => []LengthKnown
  OBVIOUS
<1>1. Init => IInv /\ Course
  BY InitInv, InitCourse
<1>2. IInv /\ Course /\ [Next]_vars => (IInv /\ Course)'
  BY NextInv, NextCourse
<1>3. Course => LengthKnown
  BY DEF Course, InBody, LengthKnown
<1> QED
  BY <1>1, <1>2, <1>3, PTL DEF Spec
-----------------------------------------------------------------------------
(* Gateway, from here on.                                                  *)

(* Each step of the gateway is a step of the line reader or leaves its      *)
(* variables alone.                                                        *)
LEMMA StepReads == [GatewayNext]_gvars => [Next]_vars
<1> SUFFICES ASSUME [GatewayNext]_gvars PROVE [Next]_vars
  OBVIOUS
<1>1. CASE ClientStep
  BY <1>1 DEF ClientStep, Next
<1>2. CASE ReadHead
  BY <1>2 DEF ReadHead, Next, Thread
<1>3. CASE Write
  BY <1>3 DEF Write, Next, Thread
<1>4. CASE WriteEnds
  BY <1>4 DEF WriteEnds, Next, Thread
<1>5. CASE Fork \/ WriteBreaks \/ SendBreaks \/ Relay \/ Wait
  BY <1>5 DEF Fork, WriteBreaks, SendBreaks, Killed, Relay, Wait
<1>6. CASE ChildStep
  BY <1>6 DEF ChildStep, Output, ReadBody, Exit, Crash
<1>7. CASE UNCHANGED gvars
  BY <1>7 DEF gvars
<1> QED
  BY <1>1, <1>2, <1>3, <1>4, <1>5, <1>6, <1>7 DEF GatewayNext, GatewayThread

(* Gateway is written on top of HeadReader, so what is proved of that       *)
(* module holds here.                                                      *)
LEMMA ReadsAsHead == GatewaySpec => Spec
<1>1. GatewayInit => Init
  BY DEF GatewayInit
<1> QED
  BY <1>1, StepReads, PTL DEF GatewaySpec, Spec
-----------------------------------------------------------------------------
(* What the gateway keeps: the program runs after the head only; while the *)
(* server lives it has read no more than was written for it; one that      *)
(* ended of its own has read its body, or more than post_data holds, and   *)
(* one that did not crash has printed everything; who waited for it has    *)
(* passed on all its output.                                               *)
Begun ==
  /\ child # "none" => phase \in {"feed", "done"}
  /\ child = "none" => took = 0 /\ wrote = 0 /\ relayed = 0

Drained ==
  /\ up => took <= Len(posted)
  /\ child \in {"exit", "crash"} => took = ToRead \/ took > PostSize
  /\ child = "sigpipe" => ~up
  /\ child = "exit" => wrote = prog.before + prog.after
  /\ waited => child \in {"exit", "crash"} /\ relayed = wrote

Own ==
  /\ up \in BOOLEAN /\ prog \in Programs /\ waited \in BOOLEAN
  /\ child \in {"none", "running", "exit", "crash", "sigpipe"}
  /\ took \in 0..ToRead /\ wrote \in 0..(prog.before + prog.after) /\ relayed \in 0..wrote
  /\ wrote - relayed <= PipeSize /\ Len(posted) <= took + PipeSize
  /\ sum \in -IntMax - 1..IntMax

GInv == IInv /\ Own /\ Begun /\ Drained /\ KilledOnly

(* The sum of two ints, wrapped, is an int again.                          *)
LEMMA SumType == ASSUME NEW s PROVE MathAdd(s) \in -IntMax - 1..IntMax
<1> DEFINE n == Atoi(AfterToken(s, "eq")) + Atoi(AfterToken(AfterToken(s, "eq"), "eq"))
<1>1. n \in Int
  BY AtoiType
<1>2. Wrap(n) \in -IntMax - 1..IntMax
  <2> HIDE DEF n
  <2> DEFINE k == n + IntMax + 1
             w == 2 * (IntMax + 1)
  <2>1. k \in Int /\ w \in Nat /\ w > 0 /\ IntMax \in Nat
    BY <1>1, SizesAssumption
  <2>2. k % w \in 0..(w - 1)
    <3> HIDE DEF k, w
    <3> QED
      BY <2>1
  <2>3. Wrap(n) = (k % w) - (IntMax + 1)
    BY DEF Wrap
  <2> QED
    BY <2>1, <2>2, <2>3
<1> QED
  BY <1>2 DEF MathAdd

(* What a program prints is counted in naturals.                           *)
LEMMA ProgramType ==
  prog \in Programs => prog.before \in Nat /\ prog.after \in Nat /\ prog.reads \in BOOLEAN
  BY ProgramsAssumption DEF Program

(* A program is told to read no more than the length, and nothing if that  *)
(* is negative.                                                            *)
LEMMA ToReadType ==
  ASSUME length \in Int
  PROVE  /\ ToRead \in Nat
         /\ ToRead <= length \/ ToRead = 0
  BY DEF ToRead

(* The invariant holds when no program has begun.                          *)
LEMMA GatewayInitInv == GatewayInit => GInv
<1> SUFFICES ASSUME GatewayInit PROVE GInv
  OBVIOUS
<1>1. Init /\ IInv
  BY InitInv DEF GatewayInit
<1>2. posted = <<>> /\ Len(posted) = 0 /\ length = 0
  BY <1>1 DEF Init
<1>3. ToRead = 0
  BY <1>2 DEF ToRead
<1>4. up = TRUE /\ prog \in Programs /\ child = "none" /\ took = 0 /\ wrote = 0 /\ relayed = 0 /\ sum = 0 /\ waited = FALSE
  BY DEF GatewayInit
<1>5. up \in BOOLEAN /\ waited \in BOOLEAN
  BY <1>4, Zenon
<1>6. Own
  BY <1>2, <1>3, <1>4, <1>5, ProgramType, SizesAssumption DEF Own
<1>7. Begun /\ Drained
  BY <1>2, <1>3, <1>4 DEF Begun, Drained
<1>8. KilledOnly
  BY <1>4 DEF KilledOnly
<1> QED
  BY <1>1, <1>6, <1>7, <1>8 DEF GInv

(* Every step preserves the invariant; the part about the line reader is   *)
(* HeadReader's own lemma.                                                 *)
LEMMA GatewayNextInv == GInv /\ [GatewayNext]_gvars => GInv'
<1> SUFFICES ASSUME GInv, [GatewayNext]_gvars PROVE GInv'
  OBVIOUS
<1>i. IInv /\ Own /\ Begun /\ Drained /\ KilledOnly
  BY DEF GInv
<1>r. IInv'
  BY <1>i, StepReads, NextInv
<1>t. /\ prog.before \in Nat /\ prog.after \in Nat /\ length \in Int /\ PipeSize \in Nat
      /\ Len(posted) \in Nat /\ ToRead \in Nat
  BY <1>i, ProgramType, ToReadType, SizesAssumption DEF Own, IInv, TypeOK
<1>u. UNCHANGED <<req, length, prog>> => ToRead' = ToRead
  BY DEF ToRead
<1> SUFFICES Own' /\ Begun' /\ Drained' /\ KilledOnly'
  BY <1>r DEF GInv
<1>1. CASE ClientStep
  <2>1. UNCHANGED <<req, length, posted, phase, gateway>> /\ (left => left')
    BY <1>1 DEF ClientStep, SendByte, Leave
  <2> QED
    BY <1>i, <1>t, <1>u, <2>1 DEF Own, Begun, Drained, KilledOnly, gateway
<1>2. CASE ReadHead
  <2>1. UNCHANGED <<req, left, posted, gateway>> /\ up /\ Reading
    BY <1>2 DEF ReadHead, RecvByte, RecvEnd, PeekTakes, PeekLeaves, Return, client
  <2>2. child = "none" /\ took = 0 /\ wrote = 0 /\ relayed = 0
    BY <1>i, <2>1 DEF Begun, Reading
  <2>3. length' \in Int /\ ToRead' \in Nat
    <3>1. length' \in Int
      BY <1>r DEF IInv, TypeOK
    <3> QED
      BY <3>1 DEF ToRead
  <2> QED
    BY <1>i, <1>t, <2>1, <2>2, <2>3 DEF Own, Begun, Drained, KilledOnly, gateway
<1>3. CASE Fork
  BY <1>3, <1>i, <1>t, <1>u DEF Fork, vars, Own, Begun, Drained, KilledOnly
<1>4. CASE Write
  <2>1. /\ UNCHANGED <<req, length, phase, left, gateway>> /\ up /\ child = "running" /\ HasRoom
        /\ posted' = Append(posted, char')
    BY <1>4 DEF Write, Feed, client
  <2>2. Len(posted') = Len(posted) + 1
    BY <2>1, <1>i DEF IInv, TypeOK
  <2>3. Len(posted) - took < PipeSize
    BY <2>1 DEF HasRoom
  <2> QED
    BY <1>i, <1>t, <1>u, <2>1, <2>2, <2>3 DEF Own, Begun, Drained, KilledOnly, gateway
<1>5. CASE WriteEnds
  <2>1. UNCHANGED <<req, length, posted, left, gateway>> /\ up /\ phase' = "done"
    BY <1>5 DEF WriteEnds, FeedEnds, client
  <2> QED
    BY <1>i, <1>t, <1>u, <2>1 DEF Own, Begun, Drained, KilledOnly, gateway
<1>6. CASE WriteBreaks
  <2>1. UNCHANGED <<req, length, posted, left, phase, prog, child, took, wrote, relayed, sum, waited>>
        /\ up /\ ~up' /\ up' = FALSE /\ phase = "feed" /\ Len(posted) < length /\ child \in {"exit", "crash", "sigpipe"}
    BY <1>6 DEF WriteBreaks, Killed, vars, Ended
  <2>2. (took = ToRead \/ took > PostSize) /\ took <= Len(posted) /\ took < length /\ took \in Nat
    BY <1>i, <1>t, <2>1 DEF Drained, Own
  <2>3. req.post
    BY <1>i, <1>t, <2>1 DEF IInv, Filling
  <2>4. length > 0 /\ (prog.reads => length > PostSize)
    <3>1. length > 0
      BY <1>t, <2>1
    <3>2. prog.reads => ToRead = length
      BY <2>3, <3>1 DEF ToRead
    <3> QED
      BY <1>t, <2>2, <3>1, <3>2, SizesAssumption
  <2>5. KilledOnly'
    BY <2>1, <2>4 DEF KilledOnly
  <2>6. up' \in BOOLEAN
    BY <2>1, Zenon
  <2> QED
    BY <1>i, <1>t, <1>u, <2>1, <2>5, <2>6 DEF Own, Begun, Drained
<1>7. CASE SendBreaks
  <2>1. UNCHANGED <<req, length, posted, left, phase, prog, child, took, wrote, relayed, sum, waited>>
        /\ up' = FALSE /\ left
    BY <1>7 DEF SendBreaks, Killed, vars
  <2>2. up' \in BOOLEAN
    BY <2>1, Zenon
  <2> QED
    BY <1>i, <1>t, <1>u, <2>1, <2>2 DEF Own, Begun, Drained, KilledOnly
<1>8. CASE Relay
  BY <1>8, <1>i, <1>t, <1>u DEF Relay, vars, Own, Begun, Drained, KilledOnly
<1>9. CASE Wait
  <2>1. child \in {"exit", "crash"} /\ waited' = TRUE /\ relayed = wrote
        /\ UNCHANGED <<vars, up, prog, child, took, wrote, relayed, sum>>
    BY <1>9, <1>i DEF Wait, Ended, Drained
  <2>2. waited' \in BOOLEAN
    BY <2>1, Zenon
  <2> QED
    BY <1>i, <1>t, <1>u, <2>1, <2>2 DEF vars, Own, Begun, Drained, KilledOnly
<1>10. CASE Output
  <2>1. UNCHANGED <<req, length, posted, left, phase, up, prog, took, relayed, sum, waited>> /\ child = "running"
    BY <1>10 DEF Output, vars
  <2>2. wrote < prog.before + prog.after
    BY <1>10, <1>i, <1>t DEF Output, Own
  <2>3. \/ up /\ wrote - relayed < PipeSize /\ wrote' = wrote + 1 /\ child' = child
        \/ ~up /\ child' = "sigpipe" /\ wrote' = wrote
    BY <1>10 DEF Output
  <2>4. ~waited
    BY <1>i, <2>1 DEF Drained
  <2> QED
    BY <1>i, <1>t, <1>u, <2>1, <2>2, <2>3, <2>4, SMTT(30) DEF Own, Begun, Drained, KilledOnly
<1>11. CASE ReadBody
  <2>1. UNCHANGED <<req, length, posted, left, phase, up, prog, child, wrote, relayed, sum, waited>>
        /\ child = "running" /\ took < ToRead /\ (took < Len(posted) \/ ~up) /\ took' = took + 1
    BY <1>11 DEF ReadBody, vars
  <2> QED
    BY <1>i, <1>t, <1>u, <2>1 DEF Own, Begun, Drained, KilledOnly
<1>12. CASE Exit
  <2>1. UNCHANGED <<req, length, posted, left, phase, up, prog, took, wrote, relayed, waited>>
        /\ child = "running" /\ child' = "exit" /\ took = ToRead /\ wrote = prog.before + prog.after
    BY <1>12 DEF Exit, HasRead, vars
  <2>2. sum' \in -IntMax - 1..IntMax
    BY <1>12, <1>i, SumType DEF Exit, Own
  <2> QED
    BY <1>i, <1>t, <1>u, <2>1, <2>2 DEF Own, Begun, Drained, KilledOnly
<1>13. CASE Crash
  <2>1. UNCHANGED <<req, length, posted, left, phase, up, prog, took, wrote, relayed, sum, waited>>
        /\ child = "running" /\ child' = "crash" /\ (took = ToRead \/ took > PostSize)
    BY <1>13 DEF Crash, HasRead, Smashed, vars
  <2> QED
    BY <1>i, <1>t, <1>u, <2>1 DEF Own, Begun, Drained, KilledOnly
<1>14. CASE UNCHANGED gvars
  BY <1>14, <1>i, <1>t, <1>u DEF gvars, vars, gateway, Own, Begun, Drained, KilledOnly
<1> QED
  BY <1>1, <1>2, <1>3, <1>4, <1>5, <1>6, <1>7, <1>8, <1>9, <1>10, <1>11, <1>12, <1>13, <1>14
  DEF GatewayNext, GatewayThread, ChildStep

(* So it always holds.                                                     *)
LEMMA GatewayInvariant == GatewaySpec => []GInv
  BY GatewayInitInv, GatewayNextInv, PTL DEF GatewaySpec
-----------------------------------------------------------------------------
(* Neither pipe holds more than it can, no program reads more than was      *)
(* announced, and the sum math_cgi prints is an int.                       *)
THEOREM GatewayTyping == GatewaySpec => []GatewayTypeOK
<1>1. GInv => GatewayTypeOK
  BY DEF GInv, IInv, Own, GatewayTypeOK
<1> QED
  BY <1>1, GatewayInvariant, PTL

(* When exe_cgi has waited for a program that did not crash, everything    *)
(* the program printed has been passed on.                                 *)
THEOREM AllDelivered == GatewaySpec => []Delivered
<1>1. GInv => Delivered
  BY DEF GInv, Drained, Delivered
<1> QED
  BY <1>1, GatewayInvariant, PTL

(* A program that reads its body never costs the server its life, unless   *)
(* the body is longer than its array: otherwise only a client that has     *)
(* left, or a body for a program that reads none, does.                    *)
THEOREM KilledBy == GatewaySpec => []KilledOnly
<1>1. GInv => KilledOnly
  BY DEF GInv
<1> QED
  BY <1>1, GatewayInvariant, PTL

(* The pipe gets the announced number of bytes here too, where writes can  *)
(* block and the program can die.                                          *)
THEOREM PipeIsFilledToo == GatewaySpec => []PipeFilled
<1>1. GInv => PipeFilled
  BY DEF GInv, IInv
<1> QED
  BY <1>1, GatewayInvariant, PTL

(* Nor do pipes and programs disturb what is read: lines, length and body  *)
(* of a plain request arrive as the client meant them.                     *)
THEOREM ReadsPlainToo == Plain => (GatewaySpec => [](LineByLine /\ BodyWhole /\ LengthKnown))
<1> SUFFICES ASSUME Plain PROVE GatewaySpec => [](LineByLine /\ BodyWhole /\ LengthKnown)
  OBVIOUS
<1>1. Spec => []LineByLine
  BY LinesArrive
<1>2. Spec => []BodyWhole
  BY BodyIsWhole
<1>3. Spec => []LengthKnown
  BY LengthIsKnown
<1> QED
  BY <1>1, <1>2, <1>3, ReadsAsHead, PTL
-----------------------------------------------------------------------------
(* What follows a token is what follows the first of its kind.             *)
LEMMA FirstToken ==
  ASSUME NEW s \in Seq(Tokens), NEW t, NEW c \in 1..Len(s), s[c] = t, \A k \in 1..(c - 1) : s[k] # t
  PROVE  AfterToken(s, t) = SubSeq(s, c + 1, Len(s))
<1> DEFINE First(i) == s[i] = t /\ \A k \in 1..(i - 1) : s[k] # t
<1>1. DOMAIN s = 1..Len(s) /\ Len(s) \in Nat
  OBVIOUS
<1>2. First(c)
  OBVIOUS
<1>3. ASSUME NEW i \in 1..Len(s), First(i) PROVE i = c
  <2>1. ~(i < c)
    <3>1. i < c => i \in 1..(c - 1)
      BY <1>1
    <3> QED
      BY <1>3, <3>1
  <2>2. ~(c < i)
    <3>1. c < i => c \in 1..(i - 1)
      BY <1>1
    <3> QED
      BY <1>3, <3>1
  <2> QED
    BY <1>1, <2>1, <2>2
<1>4. (CHOOSE i \in DOMAIN s : First(i)) = c
  <2> HIDE DEF First
  <2> QED
    BY <1>1, <1>2, <1>3
<1> QED
  BY <1>4 DEF AfterToken

(* The end of a sequence, and the number at its beginning.                 *)
LEMMA TailOf ==
  ASSUME NEW s \in Seq(Tokens), NEW c \in 1..Len(s), NEW t, t = SubSeq(s, c + 1, Len(s))
  PROVE  /\ t \in Seq(Tokens) /\ Len(t) = Len(s) - c /\ Len(t) \in Nat
         /\ \A k \in 1..Len(t) : t[k] = s[c + k]
OBVIOUS

(* Two members are two.                                                    *)
LEMMA TwoMembers == ASSUME NEW a, NEW b, a # b PROVE Cardinality({a, b}) = 2
<1>1. IsFiniteSet({a}) /\ Cardinality({a}) = 1
  BY FS_Singleton
<1>2. b \notin {a} /\ {a} \cup {b} = {a, b}
  OBVIOUS
<1>3. Cardinality({a} \cup {b}) = Cardinality({a}) + 1
  BY <1>1, <1>2, FS_AddElement
<1> QED
  BY <1>1, <1>2, <1>3

(* atoi() of a tail that begins with a digit is the number that begins     *)
(* there.                                                                  *)
LEMMA NumberOf ==
  ASSUME NEW s \in Seq(Tokens), NEW c \in 1..Len(s), NEW t, t = SubSeq(s, c + 1, Len(s)), IsDigit(s, c + 1)
  PROVE  Atoi(t) = Number(s, c + 1)
<1>1. PICK n \in Nat, m \in Nat : n = Len(s) /\ m = Len(t) /\ m = n - c /\ c \in Nat
  BY TailOf
<1>2. t \in Seq(Tokens) /\ \A k \in 1..m : t[k] = s[c + k]
  BY <1>1, TailOf
<1>3. IsDigit(t, 1) /\ t[1] = s[c + 1]
  <2>1. c + 1 <= n /\ s[c + 1] \in Digits
    BY <1>1 DEF IsDigit
  <2>2. 1 \in 1..m
    BY <1>1, <2>1
  <2> QED
    BY <1>1, <1>2, <2>1, <2>2 DEF IsDigit
<1>4. (IsDigit(t, 2) <=> IsDigit(s, c + 2)) /\ (IsDigit(t, 2) => t[2] = s[c + 2])
  <2>1. (2 <= m <=> c + 2 <= n) /\ (2 <= m => 2 \in 1..m)
    BY <1>1
  <2>2. 2 <= m => t[2] = s[c + 2]
    BY <1>2, <2>1
  <2> QED
    BY <1>1, <2>1, <2>2 DEF IsDigit
<1>5. Number(t, 1) = Number(s, c + 1)
  <2>1. 1 + 1 = 2 /\ (c + 1) + 1 = c + 2
    BY <1>1
  <2> QED
    BY <1>3, <1>4, <2>1 DEF Number
<1>6. t # <<>> /\ t[1] # "space" /\ t[1] # "minus"
  <2>1. t[1] \in Digits /\ 1 <= Len(t)
    BY <1>3 DEF IsDigit
  <2>2. t # <<>>
    <3>1. Len(<<>>) = 0 /\ Len(t) # 0
      BY <1>1, <2>1
    <3> QED
      BY <3>1, Zenon
  <2>3. "space" \notin Digits /\ "minus" \notin Digits
    BY DEF Digits
  <2> QED
    BY <2>1, <2>2, <2>3
<1>7. 1 <= Len(t)
  BY <1>3 DEF IsDigit
<1> QED
  BY <1>5, <1>6, <1>7 DEF Atoi

(* math_add() reads the two numbers of a form that is filled in.           *)
LEMMA FormSum ==
  ASSUME NEW s \in Seq(Tokens), NEW f, FilledIn(s, f)
  PROVE  /\ MathAdd(s) = Wrap(f[1] + f[2]) /\ f[1] \in Nat /\ f[2] \in Nat
         /\ Cardinality({i \in DOMAIN s : s[i] = "eq"}) >= 2 /\ s # <<>>
<1>1. DOMAIN s = 1..Len(s)
  OBVIOUS
<1>2. PICK n \in Nat : n = Len(s)
  OBVIOUS
<1>3. PICK a \in 1..n, b \in 1..n :
        /\ a < b /\ \A k \in 1..b : s[k] = "eq" <=> k \in {a, b}
        /\ IsDigit(s, a + 1) /\ Number(s, a + 1) = f[1]
        /\ IsDigit(s, b + 1) /\ Number(s, b + 1) = f[2]
  BY <1>1, <1>2 DEF FilledIn
<1> DEFINE t == SubSeq(s, a + 1, n)
           u == SubSeq(t, (b - a) + 1, Len(t))
<1>4. AfterToken(s, "eq") = t
  <2>1. s[a] = "eq" /\ \A k \in 1..(a - 1) : s[k] # "eq"
    BY <1>3
  <2> QED
    BY <1>2, <2>1, FirstToken
<1>5. t \in Seq(Tokens) /\ Len(t) = n - a /\ \A k \in 1..(n - a) : t[k] = s[a + k]
  BY <1>2, TailOf
<1>6. b - a \in 1..(n - a)
  BY <1>3
<1>7. AfterToken(t, "eq") = u
  <2>1. t[b - a] = "eq"
    <3>1. t[b - a] = s[b]
      BY <1>5, <1>6
    <3> QED
      BY <1>3, <3>1
  <2>2. ASSUME NEW k \in 1..((b - a) - 1) PROVE t[k] # "eq"
    <3>1. k \in 1..(n - a) /\ a + k \in 1..b /\ a + k # a /\ a + k # b
      BY <1>6
    <3>2. s[a + k] # "eq"
      BY <1>3, <3>1
    <3> QED
      BY <1>5, <3>1, <3>2
  <2> HIDE DEF t
  <2> QED
    BY <1>5, <1>6, <2>1, <2>2, FirstToken
<1>8. u = SubSeq(s, b + 1, n)
  <2> DEFINE v == SubSeq(s, b + 1, n)
  <2>1. v \in Seq(Tokens) /\ Len(v) = n - b /\ \A k \in 1..(n - b) : v[k] = s[b + k]
    BY <1>2, TailOf
  <2>2. u \in Seq(Tokens) /\ Len(u) = (n - a) - (b - a) /\ \A k \in 1..((n - a) - (b - a)) : u[k] = t[(b - a) + k]
    <3> HIDE DEF t
    <3>1. PICK d \in 1..Len(t) : d = b - a
      BY <1>5, <1>6
    <3>2. u \in Seq(Tokens) /\ Len(u) = Len(t) - (b - a) /\ \A k \in 1..Len(u) : u[k] = t[(b - a) + k]
      <4>1. u = SubSeq(t, d + 1, Len(t))
        BY <3>1
      <4> HIDE DEF u
      <4>2. u \in Seq(Tokens) /\ Len(u) = Len(t) - d /\ \A k \in 1..Len(u) : u[k] = t[d + k]
        <5>1. PICK x \in Seq(Tokens), y \in {u} : x = t
          BY <1>5
        <5>2. d \in 1..Len(x) /\ y = SubSeq(x, d + 1, Len(x))
          BY <3>1, <4>1, <5>1, Zenon
        <5>3. y \in Seq(Tokens) /\ Len(y) = Len(x) - d /\ \A k \in 1..Len(y) : y[k] = x[d + k]
          BY <5>2, TailOf
        <5> QED
          BY <5>1, <5>3, Zenon
      <4> QED
        BY <3>1, <4>2
    <3> QED
      BY <1>5, <3>2
  <2>3. (n - a) - (b - a) = n - b
    OBVIOUS
  <2>4. ASSUME NEW k \in 1..(n - b) PROVE u[k] = v[k]
    <3>1. (b - a) + k \in 1..(n - a) /\ a + ((b - a) + k) = b + k
      BY <1>6
    <3>2. u[k] = s[a + ((b - a) + k)]
      BY <1>5, <2>2, <2>3, <3>1
    <3> QED
      BY <2>1, <3>1, <3>2
  <2> HIDE DEF u, v
  <2>5. u = v
    BY <2>1, <2>2, <2>3, <2>4
  <2> QED
    BY <2>5 DEF v
<1>9. Atoi(t) = f[1] /\ Atoi(u) = f[2]
  BY <1>2, <1>3, <1>8, NumberOf
<1>10. MathAdd(s) = Wrap(f[1] + f[2])
  BY <1>4, <1>7, <1>9 DEF MathAdd
<1>11. f[1] \in Nat /\ f[2] \in Nat
  <2>1. \A d \in Digits : Value[d] \in Nat
    BY DEF Value, Digits
  <2>2. ASSUME NEW i, IsDigit(s, i) PROVE Number(s, i) \in Nat
    <3>1. Value[s[i]] \in Nat
      BY <2>1, <2>2 DEF IsDigit
    <3>2. IsDigit(s, i + 1) => Value[s[i + 1]] \in Nat
      BY <2>1 DEF IsDigit
    <3> QED
      BY <2>2, <3>1, <3>2 DEF Number
  <2> QED
    BY <1>3, <2>2
<1>12. Cardinality({i \in DOMAIN s : s[i] = "eq"}) >= 2
  <2> DEFINE S == {i \in DOMAIN s : s[i] = "eq"}
  <2>1. IsFiniteSet(1..n) /\ S \subseteq 1..n
    BY <1>1, <1>2, FS_Interval
  <2>2. IsFiniteSet(S)
    BY <2>1, FS_Subset
  <2>3. {a, b} \subseteq S
    BY <1>1, <1>2, <1>3
  <2>4. a # b
    BY <1>3
  <2>5. Cardinality({a, b}) = 2
    BY <2>4, TwoMembers
  <2>6. Cardinality({a, b}) <= Cardinality(S)
    BY <2>2, <2>3, FS_Subset
  <2>7. Cardinality(S) \in Nat
    BY <2>2, FS_CardinalityType
  <2> HIDE DEF S
  <2>8. Cardinality(S) >= 2
    BY <2>5, <2>6, <2>7
  <2> QED
    BY <2>8 DEF S
<1> QED
  BY <1>2, <1>3, <1>10, <1>11, <1>12

(* A form that math_add() can get right, for which the client waits, and   *)
(* what becomes of it: math_cgi does not crash on it, and adds it up.      *)
Fits  == prog.does = "math" /\ req.form # <<>> /\ up /\ (req.post => ~left /\ Len(req.body) < PostSize)
Added == Fits => child # "crash" /\ (child = "exit" => sum = MathAdd(Text(req)))

(* When the calculator has read its input, that is the form.               *)
LEMMA FormRead ==
  ASSUME Plain, Summable, GInv, Course, Fits, child = "running", HasRead
  PROVE  Input = Text(req) /\ (ToRead + prog.adds < PostSize \/ ToRead = 0)
<1>1. /\ req \in Requests /\ prog \in Programs /\ posted \in Seq(Tokens \cup {NUL})
      /\ length \in Int /\ phase \in {"feed", "done"}
  BY DEF GInv, IInv, TypeOK, Own, Begun
<1>2. prog.reads /\ prog.adds = 0
  BY <1>1 DEF Summable, Fits
<1>3. CASE ~req.post
  BY <1>3 DEF Input, Text, ToRead
<1>4. CASE req.post
  <2>1. ~left /\ Len(req.body) < PostSize /\ up
    BY <1>4 DEF Fits
  <2>0. Spaced(req)
    BY <1>1 DEF Summable, Fits
  <2>2. InBody /\ length = req.announced
    BY <1>1, <1>4, <2>0, <2>1 DEF Course, InBody
  <2>3. FilledIn(req.body, req.form) /\ req.body \in Seq(Tokens)
    BY <1>1, <1>4, RequestsAssumption DEF Summable, Fits, Text, Request
  <2>4. req.body # <<>>
    BY <2>3, FormSum
  <2>5. PICK p \in Nat, m \in Nat : p = Len(posted) /\ m = Len(req.body) /\ m # 0
    <3>1. Len(posted) \in Nat /\ Len(req.body) \in Nat /\ Len(req.body) # 0
      BY <1>1, <2>3, <2>4
    <3> QED
      BY <3>1
  <2>6. m <= length
    BY <1>1, <1>4, <2>0, <2>2, <2>4, <2>5 DEF Plain, Announces
  <2>7. ToRead = length /\ took = length
    BY <1>1, <1>2, <1>4, <2>5, <2>6 DEF ToRead, HasRead
  <2>8. took <= p
    BY <2>1, <2>5 DEF GInv, Drained
  <2>9. \A k \in 1..p : k <= m /\ posted[k] = req.body[k]
    BY <2>2, <2>5 DEF InBody
  <2>10. p <= m
    <3>1. p # 0 => p \in 1..p
      OBVIOUS
    <3> QED
      BY <2>9, <3>1
  <2>11. p = m /\ length = m
    BY <1>1, <2>5, <2>6, <2>7, <2>8, <2>10
  <2>12. posted = req.body
    <3>1. req.body \in Seq(Tokens \cup {NUL})
      BY <2>3
    <3>2. PICK t \in Seq(Tokens \cup {NUL}), q \in Seq(Tokens \cup {NUL}) : t = req.body /\ q = posted
      BY <1>1, <3>1
    <3>3. Len(t) = m /\ Len(q) = m /\ \A k \in 1..m : q[k] = t[k]
      BY <2>5, <2>9, <2>11, <3>2
    <3>4. q = t
      BY <3>3
    <3> QED
      BY <3>2, <3>4
  <2> QED
    BY <1>2, <1>4, <2>1, <2>5, <2>7, <2>11, <2>12 DEF Input, Text
<1> QED
  BY <1>3, <1>4

(* While it reads, nothing of such a form lands behind post_data.          *)
LEMMA FormFits == ASSUME GInv, Course, Fits, child = "running" PROVE ~Smashed
<1>1. /\ req \in Requests /\ posted \in Seq(Tokens \cup {NUL}) /\ phase \in {"feed", "done"}
      /\ took \in 0..ToRead /\ PostSize \in Nat
  BY SizesAssumption DEF GInv, IInv, TypeOK, Own, Begun
<1>2. CASE ~req.post
  <2>1. ToRead = 0
    BY <1>2 DEF ToRead
  <2> QED
    BY <1>1, <2>1 DEF Smashed
<1>3. CASE req.post
  <2>1. ~left /\ Len(req.body) < PostSize
    BY <1>3 DEF Fits
  <2>2. PICK p \in Nat, m \in Nat : p = Len(posted) /\ m = Len(req.body)
    <3>1. req.body \in Seq(Tokens)
      BY <1>1, RequestsAssumption DEF Request
    <3>2. Len(posted) \in Nat /\ Len(req.body) \in Nat
      BY <1>1, <3>1
    <3> QED
      BY <3>2
  <2>3. \A k \in 1..p : k <= m
    BY <1>1, <2>1, <2>2 DEF Course, InBody
  <2>4. p <= m
    <3>1. p # 0 => p \in 1..p
      OBVIOUS
    <3> QED
      BY <2>3, <3>1
  <2> QED
    BY <1>1, <2>1, <2>2, <2>4 DEF Smashed
<1> QED
  BY <1>2, <1>3

(* Every step keeps what has been added up.                                *)
LEMMA AddedStep ==
  ASSUME Plain, Summable, GInv, Course, Added, [GatewayNext]_gvars
  PROVE  Added'
<1> SUFFICES ASSUME Fits'
               PROVE  child' # "crash" /\ (child' = "exit" => sum' = MathAdd(Text(req')))
  BY DEF Added
<1>2. /\ UNCHANGED <<req, prog>> /\ (left => left') /\ (up' => up) /\ PostSize' = PostSize
  BY DEF GatewayNext, GatewayThread, ClientStep, ReadHead, Fork, Write, WriteEnds, WriteBreaks, SendBreaks, Killed,
         Relay, Wait, ChildStep, Output, ReadBody, Exit, Crash, SendByte, Leave, RecvByte, RecvEnd, PeekTakes,
         PeekLeaves, Return, Feed, FeedEnds, gateway, client, gvars, vars
<1>3. Fits
  BY <1>2 DEF Fits
<1>4. FilledIn(Text(req), req.form) /\ Text(req) \in Seq(Tokens)
  <2>1. req \in Requests
    BY DEF GInv, IInv, TypeOK
  <2> QED
    BY <1>3, <2>1, RequestsAssumption DEF Fits, Summable, Text, Request
<1>5. CASE Exit
  <2>1. Input = Text(req)
    BY <1>3, <1>5, FormRead DEF Exit
  <2>2. child' = "exit" /\ sum' = MathAdd(Input)
    BY <1>3, <1>5 DEF Exit, Fits
  <2> QED
    BY <1>2, <2>1, <2>2
<1>6. CASE Crash
  <2>0. child = "running" /\ HasRead
    BY <1>3, <1>6, FormFits DEF Crash
  <2>1. Input = Text(req) /\ (ToRead + prog.adds < PostSize \/ ToRead = 0)
    BY <1>3, <2>0, FormRead
  <2>2. TwoValues
    BY <1>4, <2>1, FormSum DEF TwoValues
  <2>3. ~MustCrash
    BY <1>3, <2>2 DEF MustCrash, Fits
  <2>4. ~Overrun
    <3>1. ToRead \in Nat /\ prog.adds \in Nat /\ PostSize \in Nat
      <4>1. prog.adds = 0
        BY <1>3 DEF Summable, Fits, GInv, Own
      <4> QED
        BY <4>1, ToReadType, SizesAssumption DEF GInv, IInv, TypeOK
    <3> QED
      BY <2>1, <3>1 DEF Overrun
  <2> QED
    BY <1>3, <1>6, <2>0, <2>3, <2>4, FormFits DEF Crash
<1>7. CASE ~Exit /\ ~Crash
  <2>1. child' \in {"running", "sigpipe"} \/ UNCHANGED <<child, sum>>
    BY <1>7 DEF GatewayNext, GatewayThread, ClientStep, ReadHead, Fork, Write, WriteEnds, WriteBreaks, SendBreaks,
         Killed, Relay, Wait, ChildStep, Output, ReadBody, gateway, gvars
  <2> QED
    BY <1>2, <1>3, <2>1 DEF Added
<1> QED
  BY <1>5, <1>6, <1>7

(* A form that is filled in, whose client waits for it and which fits      *)
(* post_data, is added up: math_cgi does not crash, and its sum is right   *)
(* as far as an int holds it.                                              *)
THEOREM SumsAreRight == Plain /\ Summable => (GatewaySpec => []SumRight)
<1> SUFFICES ASSUME Plain, Summable PROVE GatewaySpec => []SumRight
  OBVIOUS
<1>1. GatewayInit => GInv /\ Course /\ Added
  <2>1. GatewayInit => GInv /\ Course
    BY GatewayInitInv, InitCourse DEF GatewayInit
  <2> QED
    BY <2>1 DEF GatewayInit, Added
<1>2. GInv /\ Course /\ Added /\ [GatewayNext]_gvars => (GInv /\ Course /\ Added)'
  <2> SUFFICES ASSUME GInv, Course, Added, [GatewayNext]_gvars PROVE GInv' /\ Course' /\ Added'
    OBVIOUS
  <2>1. GInv'
    BY GatewayNextInv
  <2>2. Course'
    BY StepReads, NextCourse DEF GInv
  <2>3. Added'
    BY AddedStep
  <2> QED
    BY <2>1, <2>2, <2>3
<1>3. GInv /\ Added => SumRight
  <2> SUFFICES ASSUME GInv, Added, Fits
               PROVE  /\ child # "crash"
                      /\ child = "exit" /\ req.form[1] + req.form[2] <= IntMax => sum = req.form[1] + req.form[2]
    BY DEF SumRight, Fits
  <2>1. child # "crash" /\ (child = "exit" => sum = MathAdd(Text(req)))
    BY DEF Added
  <2>2. FilledIn(Text(req), req.form) /\ Text(req) \in Seq(Tokens)
    <3>1. req \in Requests
      BY DEF GInv, IInv, TypeOK
    <3> QED
      BY <3>1, RequestsAssumption DEF Fits, Summable, Text, Request
  <2>3. /\ MathAdd(Text(req)) = Wrap(req.form[1] + req.form[2])
        /\ req.form[1] \in Nat /\ req.form[2] \in Nat
    BY <2>2, FormSum
  <2>4. ASSUME NEW n \in Nat, n <= IntMax PROVE Wrap(n) = n
    <3>1. PICK w \in Nat : w = IntMax + 1 /\ w > 0 /\ n < w
      BY <2>4, SizesAssumption
    <3>2. n + IntMax + 1 = n + w
      BY <3>1, SizesAssumption
    <3>3. (n + w) % (2 * w) = n + w
      BY <3>1
    <3> QED
      BY <3>1, <3>2, <3>3 DEF Wrap
  <2> QED
    BY <2>1, <2>3, <2>4
<1> QED
  BY <1>1, <1>2, <1>3, PTL DEF GatewaySpec
=============================================================================
