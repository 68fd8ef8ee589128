--------------------------- MODULE ResourceProofs ---------------------------
(***************************************************************************)
(* Proofs about Resource, for any set of request lines that mean what they *)
(* say, any texts of the files, and any number of edits.                   *)
(***************************************************************************)
EXTENDS Resource, SequenceTheorems, NaturalsInduction, WellFoundedInduction, TLAPS

(* The loops over the line.                                                *)

(* A set of natural numbers has a least member.                            *)
LEMMA Least == ASSUME NEW T \in SUBSET Nat, T # {} PROVE \E m \in T : \A k \in T : m <= k
<1> DEFINE R == {ss \in Nat \X Nat : ss[1] < ss[2]}
<1>1. IsWellFoundedOn(R, Nat)
  BY NatLessThanWellFounded, Zenon DEF OpToRel
<1>2. PICK m \in T : \A k \in T : ~(<<k, m>> \in R)
  BY <1>1, WFMin
<1>3. \A k \in T : ~(k < m)
  BY <1>2
<1> QED
  BY <1>3

(* A part of a line, by its places.                                        *)
LEMMA PartIs ==
  ASSUME NEW s \in Seq(Tokens), NEW i \in Nat \ {0}, NEW j \in Nat, i <= j + 1, j <= Len(s)
  PROVE  /\ SubSeq(s, i, j) \in Seq(Tokens) /\ Len(SubSeq(s, i, j)) = j - i + 1
         /\ \A k \in 1..(j - i + 1) : SubSeq(s, i, j)[k] = s[i + k - 1]
<1>1. \A k \in i..j : s[k] \in Tokens
  <2>1. Len(s) \in Nat
    OBVIOUS
  <2>2. SUFFICES ASSUME NEW k \in i..j PROVE s[k] \in Tokens
    OBVIOUS
  <2>3. k \in 1..Len(s)
    BY <2>1
  <2> QED
    BY <2>3
<1>2. i \in Int /\ j \in Int
  OBVIOUS
<1>3. /\ SubSeq(s, i, j) \in Seq(Tokens)
      /\ Len(SubSeq(s, i, j)) = IF i <= j THEN j - i + 1 ELSE 0
      /\ \A k \in 1..(j - i + 1) : SubSeq(s, i, j)[k] = s[i + k - 1]
  BY <1>1, <1>2, SubSeqProperties
<1>4. (IF i <= j THEN j - i + 1 ELSE 0) = j - i + 1
  OBVIOUS
<1> QED
  BY <1>3, <1>4

(* Lines of the same length with the same tokens are the same.             *)
LEMMA SameLine ==
  ASSUME NEW u \in Seq(Tokens), NEW v \in Seq(Tokens), Len(u) = Len(v),
         \A k \in 1..Len(u) : u[k] = v[k]
  PROVE  u = v
  OBVIOUS

(* Where a loop over the line stops: at the first token of S, or behind    *)
(* the last token.                                                         *)
LEMMA FirstWhere ==
  ASSUME NEW s \in Seq(Tokens), NEW i \in Nat \ {0}, i <= Len(s) + 1, NEW S
  PROVE  /\ FirstAt(s, i, S) \in i..(Len(s) + 1)
         /\ FirstAt(s, i, S) <= Len(s) => s[FirstAt(s, i, S)] \in S
         /\ \A k \in i..(FirstAt(s, i, S) - 1) : s[k] \notin S
<1>l. PICK l \in Nat : l = Len(s)
  OBVIOUS
<1>1. CASE \E k \in i..l : s[k] \in S
  <2> DEFINE T == {k \in i..l : s[k] \in S}
             Best(k) == s[k] \in S /\ \A m \in i..(k - 1) : s[m] \notin S
  <2>1. T \in SUBSET Nat /\ T # {}
    BY <1>1
  <2>2. PICK f \in T : \A k \in T : f <= k
    BY <2>1, Least
  <2>3. f \in i..l /\ Best(f)
    BY <2>2
  <2>4. FirstAt(s, i, S) = CHOOSE k \in i..l : Best(k)
    BY <1>1, <1>l DEF FirstAt
  <2>5. FirstAt(s, i, S) \in i..l /\ Best(FirstAt(s, i, S))
    <3> HIDE DEF Best
    <3> QED
      BY <2>3, <2>4
  <2> QED
    BY <2>5, <1>l
<1>2. CASE ~\E k \in i..l : s[k] \in S
  <2>1. FirstAt(s, i, S) = l + 1
    BY <1>2, <1>l DEF FirstAt
  <2> QED
    BY <2>1, <1>2, <1>l
<1> QED
  BY <1>1, <1>2

(* There is only one such place.                                           *)
LEMMA FirstIs ==
  ASSUME NEW s \in Seq(Tokens), NEW i \in Nat \ {0}, NEW S, NEW c \in i..(Len(s) + 1),
         c <= Len(s) => s[c] \in S, \A k \in i..(c - 1) : s[k] \notin S
  PROVE  FirstAt(s, i, S) = c
<1>l. PICK l \in Nat : l = Len(s)
  OBVIOUS
<1>1. PICK f : f = FirstAt(s, i, S)
  OBVIOUS
<1>2. i <= Len(s) + 1
  BY <1>l
<1>3. /\ f \in i..(l + 1)
      /\ f <= l => s[f] \in S
      /\ \A k \in i..(f - 1) : s[k] \notin S
  BY <1>1, <1>2, <1>l, FirstWhere
<1>4. ~(f < c)
  BY <1>3, <1>l
<1>5. ~(c < f)
  BY <1>3, <1>l
<1> QED
  BY <1>1, <1>3, <1>4, <1>5, <1>l

(* What an array keeps of a word.                                          *)
LEMMA KeptOf ==
  ASSUME NEW s \in Seq(Tokens), NEW n \in Nat
  PROVE  /\ AtMost(s, n) \in Seq(Tokens)
         /\ Len(AtMost(s, n)) = IF n < Len(s) THEN n ELSE Len(s)
         /\ \A k \in 1..Len(AtMost(s, n)) : AtMost(s, n)[k] = s[k]
         /\ Len(s) <= n => AtMost(s, n) = s
<1>l. PICK l \in Nat : l = Len(s)
  OBVIOUS
<1>1. PICK j \in Nat : j = IF n < l THEN n ELSE l
  OBVIOUS
<1>2. j <= Len(s) /\ 1 <= j + 1
  BY <1>1, <1>l
<1>3. PICK t : t = SubSeq(s, 1, j)
  OBVIOUS
<1>4. t \in Seq(Tokens) /\ Len(t) = j - 1 + 1 /\ \A k \in 1..(j - 1 + 1) : t[k] = s[1 + k - 1]
  BY <1>2, <1>3, PartIs
<1>5. Len(t) = j /\ \A k \in 1..j : t[k] = s[k]
  BY <1>4
<1>6. l <= n => t = s
  BY <1>1, <1>4, <1>5, <1>l, SameLine
<1>7. AtMost(s, n) = t
  BY <1>1, <1>3, <1>l DEF AtMost
<1> QED
  BY <1>1, <1>4, <1>5, <1>6, <1>7, <1>l

(* A word begins where one looks for it and goes to the blank.             *)
LEMMA WordIs ==
  ASSUME NEW s \in Seq(Tokens), NEW i \in Nat \ {0}, i <= Len(s) + 1
  PROVE  /\ Word(s, i) \in Seq(Tokens)
         /\ Len(Word(s, i)) = FirstAt(s, i, {"space"}) - i
         /\ \A k \in 1..Len(Word(s, i)) : Word(s, i)[k] = s[i + k - 1]
<1>1. PICK f : f = FirstAt(s, i, {"space"})
  OBVIOUS
<1>l. PICK l \in Nat : l = Len(s)
  OBVIOUS
<1>2. f \in i..(l + 1)
  BY <1>1, <1>l, FirstWhere
<1>3. PICK j \in Nat : j = f - 1
  BY <1>2
<1>4. i <= j + 1 /\ j <= Len(s)
  BY <1>2, <1>3, <1>l
<1>5. PICK t : t = SubSeq(s, i, j)
  OBVIOUS
<1>6. t \in Seq(Tokens) /\ Len(t) = j - i + 1 /\ \A k \in 1..(j - i + 1) : t[k] = s[i + k - 1]
  BY <1>4, <1>5, PartIs
<1>7. Word(s, i) = t
  BY <1>1, <1>3, <1>5 DEF Word
<1>8. j - i + 1 = f - i
  BY <1>2, <1>3
<1> QED
  BY <1>1, <1>6, <1>7, <1>8
-----------------------------------------------------------------------------
(* What the loops come to, for a line whose author means what it says.     *)

(* The method is what its array holds of the first word.                   *)
LEMMA MethodIs ==
  ASSUME NEW s \in Seq(Tokens)
  PROVE  /\ MethodOf(s) \in Seq(Tokens) /\ Len(MethodOf(s)) < MethodSize /\ Len(MethodOf(s)) <= Len(s)
         /\ \A m \in {"GET", "POST"} :
              MethodOf(s) = <<m>> <=> s # <<>> /\ s[1] = m /\ (Len(s) > 1 => s[2] = "space")
<1>l. PICK l \in Nat : l = Len(s)
  OBVIOUS
<1>1. PICK f : f = FirstAt(s, 1, {"space"})
  OBVIOUS
<1>2. 1 \in Nat \ {0} /\ 1 <= Len(s) + 1
  BY <1>l
<1>3. /\ f \in 1..(l + 1)
      /\ f <= l => s[f] = "space"
      /\ \A k \in 1..(f - 1) : s[k] # "space"
  BY <1>1, <1>2, <1>l, FirstWhere
<1>4. PICK w \in Seq(Tokens) : w = Word(s, 1) /\ Len(w) = f - 1 /\ \A k \in 1..Len(w) : w[k] = s[1 + k - 1]
  BY <1>1, <1>2, WordIs
<1>5. PICK n \in Nat : n = MethodSize - 1 /\ n >= 2 /\ n < MethodSize
  BY ResourceSizes
<1>6. PICK t : t = AtMost(w, n)
  OBVIOUS
<1>7. PICK j \in Nat : j = IF n < f - 1 THEN n ELSE f - 1
  BY <1>3
<1>8. t \in Seq(Tokens) /\ Len(t) = j /\ \A k \in 1..j : t[k] = w[k]
  BY <1>4, <1>6, <1>7, KeptOf
<1>9. t = MethodOf(s)
  BY <1>4, <1>5, <1>6 DEF MethodOf
<1>10. j <= n /\ j <= l
  BY <1>3, <1>7
<1>11. ASSUME NEW m \in {"GET", "POST"}
       PROVE  t = <<m>> <=> l > 0 /\ s[1] = m /\ (l > 1 => s[2] = "space")
  <2>1. t = <<m>> <=> j = 1 /\ t[1] = m
    <3>1. m \in Tokens
      BY DEF Tokens
    <3>2. <<m>> \in Seq(Tokens) /\ Len(<<m>>) = 1 /\ <<m>>[1] = m
      BY <3>1
    <3>3. PICK v \in Seq(Tokens) : v = <<m>> /\ Len(v) = 1 /\ v[1] = m
      BY <3>2
    <3>4. t = v => j = 1 /\ t[1] = m
      BY <1>8, <3>3
    <3>5. ASSUME j = 1, t[1] = m PROVE t = v
      <4>1. Len(t) = Len(v) /\ \A k \in 1..Len(t) : t[k] = v[k]
        BY <1>8, <3>3, <3>5
      <4> QED
        BY <1>8, <4>1, SameLine
    <3> QED
      BY <3>3, <3>4, <3>5
  <2>2. j = 1 <=> f = 2
    BY <1>3, <1>5, <1>7
  <2>3. f = 2 => t[1] = s[1]
    <3>1. f = 2 => 1 \in 1..j /\ 1 \in 1..Len(w) /\ 1 + 1 - 1 = 1
      BY <1>4, <2>2
    <3> QED
      BY <1>4, <1>8, <3>1
  <2>4. f = 2 <=> l > 0 /\ s[1] # "space" /\ (l > 1 => s[2] = "space")
    BY <1>3
  <2>5. m # "space"
    OBVIOUS
  <2> QED
    BY <2>1, <2>2, <2>3, <2>4, <2>5
<1>12. s # <<>> <=> l > 0
  BY <1>l
<1>13. Len(t) < MethodSize /\ Len(t) <= l
  BY <1>5, <1>8, <1>10, ResourceSizes
<1>14. \A m \in {"GET", "POST"} : t = <<m>> <=> s # <<>> /\ s[1] = m /\ (l > 1 => s[2] = "space")
  BY <1>11, <1>12, Zenon
<1> QED
  BY <1>8, <1>9, <1>13, <1>14, <1>l, Zenon

(* The URL fits its array.                                                 *)
LEMMA UrlFits ==
  ASSUME NEW s \in Seq(Tokens), Len(s) < LineSize
  PROVE  UrlOf(s) \in Seq(Tokens) /\ Len(UrlOf(s)) < LineSize
<1>l. PICK l \in Nat : l = Len(s)
  OBVIOUS
<1>1. PICK i \in Nat \ {0} : i = Len(MethodOf(s)) + 1 /\ i <= l + 1
  BY <1>l, MethodIs
<1>2. PICK a : a = FirstAt(s, i, Tokens \ {"space"})
  OBVIOUS
<1>3. a \in i..(l + 1)
  BY <1>1, <1>2, <1>l, FirstWhere
<1>4. a \in Nat \ {0} /\ a <= l + 1
  BY <1>1, <1>3
<1>5. PICK w \in Seq(Tokens) : w = Word(s, a)
  BY <1>4, <1>l, WordIs
<1>6. PICK n \in Nat : n = LineSize - 1 /\ n < LineSize
  BY ResourceSizes, <1>l
<1>7. PICK t : t = AtMost(w, n)
  OBVIOUS
<1>8. t \in Seq(Tokens) /\ Len(t) <= n
  <2>1. PICK k \in Nat : k = Len(w)
    OBVIOUS
  <2>2. t \in Seq(Tokens) /\ Len(t) = IF n < k THEN n ELSE k
    BY <1>7, <2>1, KeptOf
  <2> QED
    BY <2>2
<1>9. t = UrlOf(s)
  BY <1>1, <1>2, <1>5, <1>6, <1>7 DEF UrlOf
<1>10. Len(t) \in Nat
  BY <1>8
<1> QED
  BY <1>6, <1>8, <1>9, <1>10, ResourceSizes

(* Of a URL, what precedes the ? and what follows it.                      *)
LEMMA UrlParts ==
  ASSUME NEW u \in Seq(Tokens)
  PROVE  /\ AtMost(u, Question(u) - 1) \in Seq(Tokens) /\ Len(AtMost(u, Question(u) - 1)) <= Len(u)
         /\ QueryOf(u) \in Seq(Tokens) /\ Len(QueryOf(u)) <= Len(u)
<1>l. PICK l \in Nat : l = Len(u)
  OBVIOUS
<1>1. PICK q : q = Question(u)
  OBVIOUS
<1>2. q \in 1..(l + 1)
  <2>1. 1 \in Nat \ {0} /\ 1 <= Len(u) + 1
    BY <1>l
  <2> QED
    BY <1>1, <1>l, <2>1, FirstWhere DEF Question
<1>3. PICK n \in Nat : n = q - 1
  BY <1>2
<1>4. PICK t : t = AtMost(u, n)
  OBVIOUS
<1>5. t \in Seq(Tokens) /\ Len(t) <= l
  <2>1. t \in Seq(Tokens) /\ Len(t) = IF n < l THEN n ELSE l
    BY <1>4, <1>l, KeptOf
  <2> QED
    BY <2>1
<1>6. QueryOf(u) \in Seq(Tokens) /\ Len(QueryOf(u)) <= l
  <2>1. CASE q <= l
    <3>1. PICK i \in Nat \ {0} : i = q + 1 /\ i <= l + 1
      BY <1>2, <2>1
    <3>2. PICK t2 : t2 = SubSeq(u, i, l)
      OBVIOUS
    <3>3. t2 \in Seq(Tokens) /\ Len(t2) = l - i + 1
      BY <1>l, <3>1, <3>2, PartIs
    <3>4. Len(t2) <= l
      BY <3>1, <3>3
    <3> QED
      BY <1>1, <1>l, <3>1, <3>2, <3>3, <3>4 DEF QueryOf
  <2>2. CASE q = l + 1
    <3>1. q + 1 \in Int /\ l \in Int /\ l < q + 1
      BY <1>2, <2>2
    <3>2. SubSeq(u, q + 1, l) = <<>>
      BY <3>1, SubSeqEmpty
    <3>3. QueryOf(u) = <<>>
      BY <1>1, <1>l, <3>2 DEF QueryOf
    <3> QED
      BY <3>3
  <2> QED
    BY <1>2, <2>1, <2>2
<1> QED
  BY <1>1, <1>3, <1>4, <1>5, <1>6, <1>l

(* The URL is the second word.                                             *)
LEMMA UrlIs ==
  ASSUME NEW s \in Seq(Tokens), Len(s) < LineSize, Len(MethodOf(s)) = 1,
         NEW a \in 2..(Len(s) + 1), NEW b \in a..(Len(s) + 1),
         \A k \in 2..(a - 1) : s[k] = "space",
         \A k \in a..(b - 1) : s[k] # "space",
         a <= Len(s) => s[a] # "space", b <= Len(s) => s[b] = "space"
  PROVE  UrlOf(s) = SubSeq(s, a, b - 1)
<1>l. PICK l \in Nat : l = Len(s)
  OBVIOUS
<1>1. a \in Nat \ {0} /\ b \in Nat \ {0} /\ a \in 2..(l + 1) /\ b \in a..(l + 1) /\ 2 \in Nat \ {0}
  BY <1>l
<1>2. FirstAt(s, 2, Tokens \ {"space"}) = a
  <2>1. a <= Len(s) => s[a] \in Tokens \ {"space"}
    BY <1>1
  <2>2. \A k \in 2..(a - 1) : s[k] \notin Tokens \ {"space"}
    OBVIOUS
  <2> QED
    BY <1>1, <2>1, <2>2, FirstIs
<1>3. FirstAt(s, a, {"space"}) = b
  <2>1. b <= Len(s) => s[b] \in {"space"}
    OBVIOUS
  <2>2. \A k \in a..(b - 1) : s[k] \notin {"space"}
    OBVIOUS
  <2> QED
    BY <1>1, <2>1, <2>2, FirstIs
<1>4. PICK w \in Seq(Tokens) : w = Word(s, a) /\ Len(w) = b - a
  <2>1. a <= Len(s) + 1
    BY <1>1, <1>l
  <2> QED
    BY <1>1, <1>3, <2>1, WordIs
<1>5. w = SubSeq(s, a, b - 1)
  BY <1>3, <1>4, Zenon DEF Word
<1>6. PICK n \in Nat : n = LineSize - 1 /\ l <= n
  BY ResourceSizes, <1>l
<1>7. AtMost(w, n) = w
  <2>1. Len(w) <= n
    BY <1>1, <1>4, <1>6
  <2> QED
    BY <2>1, KeptOf
<1>8. UrlOf(s) = AtMost(w, n)
  <2>1. Len(MethodOf(s)) + 1 = 2
    OBVIOUS
  <2> QED
    BY <1>2, <1>4, <1>6, <2>1, Zenon DEF UrlOf
<1> QED
  BY <1>5, <1>7, <1>8, Zenon

(* A URL stands in the line from a to b, with its ? or its end at c.       *)
UrlAt(s, a, b, c, u) ==
  /\ s \in Seq(Tokens) /\ a \in 2..(Len(s) + 1) /\ b \in a..(Len(s) + 1) /\ c \in a..b
  /\ u = SubSeq(s, a, b - 1)
  /\ \A k \in a..(c - 1) : s[k] # "question"
  /\ c < b => s[c] = "question"

(* It is cut there.                                                        *)
CutAt(s, a, b, c, u) ==
  /\ AtMost(u, Question(u) - 1) = SubSeq(s, a, c - 1)
  /\ QueryOf(u) = SubSeq(s, c + 1, b - 1)
  /\ Question(u) <= Len(u) <=> c < b

(* The ? divides it: what precedes it is the path, what follows it the     *)
(* query.                                                                  *)
LEMMA QuestionIs ==
  ASSUME NEW s, NEW a, NEW b, NEW c, NEW u, UrlAt(s, a, b, c, u)
  PROVE  CutAt(s, a, b, c, u)
<1>0. /\ s \in Seq(Tokens) /\ a \in 2..(Len(s) + 1) /\ b \in a..(Len(s) + 1) /\ c \in a..b
      /\ u = SubSeq(s, a, b - 1)
      /\ \A k \in a..(c - 1) : s[k] # "question"
      /\ c < b => s[c] = "question"
  BY Zenon DEF UrlAt
<1>l. PICK l \in Nat : l = Len(s)
  BY <1>0
<1>1. a \in 2..(l + 1) /\ b \in a..(l + 1) /\ c \in a..b
  BY <1>0, <1>l
<1>2. PICK j \in Nat, q \in Nat, n \in Nat : j = b - 1 /\ n = c - a /\ q = n + 1
  BY <1>1
<1>3. /\ u \in Seq(Tokens) /\ Len(u) = b - a
      /\ \A k \in 1..(b - a) : u[k] = s[a + k - 1]
  <2>1. a \in Nat \ {0} /\ a <= j + 1 /\ j <= Len(s) /\ j - a + 1 = b - a
    BY <1>1, <1>2, <1>l
  <2>2. /\ SubSeq(s, a, j) \in Seq(Tokens) /\ Len(SubSeq(s, a, j)) = j - a + 1
        /\ \A k \in 1..(j - a + 1) : SubSeq(s, a, j)[k] = s[a + k - 1]
    BY <1>0, <2>1, PartIs
  <2> QED
    BY <1>0, <1>2, <2>1, <2>2
<1>4. Question(u) = q
  <2>1. q \in 1..(Len(u) + 1) /\ 1 \in Nat \ {0}
    BY <1>1, <1>2, <1>3
  <2>2. q <= Len(u) => u[q] \in {"question"}
    <3>1. SUFFICES ASSUME q <= b - a PROVE u[q] = "question"
      BY <1>3
    <3>2. q \in 1..(b - a) /\ a + q - 1 = c /\ c < b
      BY <1>1, <1>2, <3>1
    <3> QED
      BY <1>0, <1>3, <3>2
  <2>3. ASSUME NEW k \in 1..(q - 1) PROVE u[k] \notin {"question"}
    <3>1. k \in 1..(b - a) /\ a + k - 1 \in a..(c - 1)
      BY <1>1, <1>2
    <3> QED
      BY <1>0, <1>3, <3>1
  <2> QED
    BY <1>3, <2>1, <2>2, <2>3, FirstIs DEF Question
<1>5. AtMost(u, q - 1) = SubSeq(s, a, c - 1)
  <2>1. PICK v : v = SubSeq(s, a, c - 1)
    OBVIOUS
  <2>2. PICK i \in Nat : i = c - 1 /\ a <= i + 1 /\ i <= l /\ i - a + 1 = n
    BY <1>1, <1>2
  <2>3. v \in Seq(Tokens) /\ Len(v) = n /\ \A k \in 1..n : v[k] = s[a + k - 1]
    <3>1. a \in Nat \ {0}
      BY <1>1
    <3>2. /\ SubSeq(s, a, i) \in Seq(Tokens) /\ Len(SubSeq(s, a, i)) = i - a + 1
          /\ \A k \in 1..(i - a + 1) : SubSeq(s, a, i)[k] = s[a + k - 1]
      BY <1>0, <1>l, <2>2, <3>1, PartIs
    <3> QED
      BY <2>1, <2>2, <3>2
  <2>4. PICK t : t = AtMost(u, n)
    OBVIOUS
  <2>5. t \in Seq(Tokens) /\ Len(t) = n /\ \A k \in 1..Len(t) : t[k] = u[k]
    <3>1. (IF n < b - a THEN n ELSE b - a) = n
      BY <1>1, <1>2
    <3>2. t \in Seq(Tokens) /\ Len(t) = (IF n < Len(u) THEN n ELSE Len(u)) /\ \A k \in 1..Len(t) : t[k] = u[k]
      BY <1>3, <2>4, KeptOf
    <3> QED
      BY <1>3, <3>1, <3>2
  <2>6. ASSUME NEW k \in 1..n PROVE t[k] = v[k]
    <3>1. k \in 1..(b - a)
      BY <1>1, <1>2
    <3> QED
      BY <1>3, <2>3, <2>5, <3>1
  <2>7. t = v
    BY <2>3, <2>5, <2>6, SameLine
  <2>8. q - 1 = n
    BY <1>2
  <2> QED
    BY <2>1, <2>4, <2>7, <2>8
<1>6. QueryOf(u) = SubSeq(s, c + 1, b - 1)
  <2>0. QueryOf(u) = SubSeq(u, q + 1, Len(u))
    BY <1>4, Zenon DEF QueryOf
  <2>1. CASE c < b
    <3>1. PICK i \in Nat, m \in Nat, d \in Nat :
             i = c + 1 /\ m = b - a /\ d = q + 1 /\ m - d + 1 = j - i + 1 /\ i <= j + 1 /\ j <= l
             /\ d <= m + 1 /\ i # 0 /\ d # 0 /\ i = a + d - 1
      BY <1>1, <1>2, <2>1
    <3>2. PICK v : v = SubSeq(s, i, j)
      OBVIOUS
    <3>3. v \in Seq(Tokens) /\ Len(v) = j - i + 1 /\ \A k \in 1..(j - i + 1) : v[k] = s[i + k - 1]
      <4>1. i \in Nat \ {0} /\ j \in Nat /\ i <= j + 1 /\ j <= Len(s) /\ s \in Seq(Tokens)
        BY <1>0, <1>l, <3>1
      <4> QED
        BY <3>2, <4>1, PartIs
    <3>4. PICK t : t = SubSeq(u, d, m)
      OBVIOUS
    <3>5. t \in Seq(Tokens) /\ Len(t) = m - d + 1 /\ \A k \in 1..(m - d + 1) : t[k] = u[d + k - 1]
      <4>1. d \in Nat \ {0} /\ m \in Nat /\ d <= m + 1 /\ m <= Len(u) /\ u \in Seq(Tokens)
        BY <1>3, <3>1
      <4> QED
        BY <3>4, <4>1, PartIs
    <3>6. ASSUME NEW k \in 1..(j - i + 1) PROVE t[k] = v[k]
      <4>1. k \in 1..(m - d + 1) /\ d + k - 1 \in 1..(b - a) /\ a + (d + k - 1) - 1 = i + k - 1
        <5>1. d + k - 1 = c - a + 1 + k /\ k <= b - 1 - (c + 1) + 1
          BY <1>1, <1>2, <3>1
        <5> QED
          BY <1>1, <1>2, <2>1, <3>1, <5>1
      <4>2. u[d + k - 1] = s[a + (d + k - 1) - 1]
        BY <1>3, <4>1
      <4> QED
        BY <3>3, <3>5, <4>1, <4>2
    <3>7. t = v
      <4>1. Len(t) = Len(v) /\ \A k \in 1..Len(t) : t[k] = v[k]
        BY <3>1, <3>3, <3>5, <3>6
      <4> QED
        BY <3>3, <3>5, <4>1, SameLine
    <3> QED
      BY <1>2, <1>3, <2>0, <3>1, <3>2, <3>4, <3>7
  <2>2. CASE c = b
    <3>1. c + 1 \in Int /\ b - 1 \in Int /\ b - 1 < c + 1
      BY <1>1, <2>2
    <3>2. SubSeq(s, c + 1, b - 1) = <<>>
      BY <3>1, SubSeqEmpty
    <3>3. q + 1 \in Int /\ b - a \in Int /\ b - a < q + 1
      BY <1>1, <1>2, <2>2
    <3>4. SubSeq(u, q + 1, b - a) = <<>>
      BY <3>3, SubSeqEmpty
    <3> QED
      BY <1>3, <2>0, <3>2, <3>4
  <2> QED
    BY <1>1, <2>1, <2>2
<1>7. q <= Len(u) <=> c < b
  BY <1>1, <1>2, <1>3
<1> QED
  BY <1>4, <1>5, <1>6, <1>7, Zenon DEF CutAt

-----------------------------------------------------------------------------
(* The invariant: what the thread knows of the line, and what it knows of  *)
(* the page, call by call.                                                 *)

(* Before stat(): the method, the query and the path are the line's.       *)
Parsed ==
  /\ pc = "bad_request" => line.method = "other"
  /\ pc \notin {"line", "bad_request"} => line.method \in {"GET", "POST"}
  /\ pc = "stat" => LeadsTo(url, line.place) /\ (cgi <=> line.method = "POST" \/ line.asks)
  /\ pc \in {"stat", "cgi_head"} /\ line.method = "GET" => query = line.query

(* After it: what was found is what the line means, its length was taken,  *)
(* and no text has been missed since.                                      *)
Sized == \/ found = "page" /\ line.place \in Pages /\ \E v \in versions : v # Absent /\ size = Len(v)
         \/ found \in {"dir", "bare"} /\ size = DirSize

Looked ==
  /\ pc \notin {"line", "stat", "bad_request"} /\ line.place \in Pages => text[line.place] \in versions
  /\ pc = "not_found" => found = "none"
  /\ pc = "cgi_head" => found # "none" /\ UsesCgi(Meant) /\ (found \in Programs => path = line.place)
  /\ pc = "open" => ~UsesCgi(Meant)
  /\ pc \in {"open", "sendfile", "html_404", "close"} => path = line.place /\ Sized

(* After open(): what is open is a text of the page, and stays in touch    *)
(* with its name until it is closed at the latest.                         *)
Opened ==
  /\ pc \in {"sendfile", "close"} => opened \in versions /\ opened # Absent
  /\ pc \notin {"sendfile", "close"} => sent = <<>>
  /\ linked => pc = "sendfile" /\ line.place \in Pages

(* And what has been sent: bytes of texts the page has had, all of what is *)
(* open if nobody wrote into it; and sendfile() does not stop before it    *)
(* has to.                                                                 *)
Passed ==
  /\ \A k \in DOMAIN sent : \E v \in versions : Has(v, k) /\ sent[k] = v[k]
  /\ ~written => \A k \in DOMAIN sent : k <= Len(opened) /\ sent[k] = opened[k]
  /\ pc = "close" => Len(sent) >= size \/ Len(sent) >= Len(opened)

IInv == TypeOK /\ Parsed /\ Looked /\ Opened /\ Passed /\ MissingOnly

(* How long a text is.                                                     *)
LEMMA TextIs == ASSUME NEW t \in Texts PROVE t \in Seq(Nat) /\ Len(t) \in Nat /\ t # Absent
<1>1. t \in Seq(Nat) /\ t # Absent
  BY TextsAssumption
<1> QED
  BY <1>1

(* Before the line is read nothing is known and nothing claimed.           *)
LEMMA InitInv == Init => IInv
<1> SUFFICES ASSUME Init PROVE IInv
  OBVIOUS
<1>1. MethodSize \in Nat /\ MethodSize > 0 /\ LineSize > 0 /\ MaxEdits \in Nat
  <2>1. line.text \in Seq(Tokens) /\ Len(line.text) < LineSize
    BY LinesAssumption DEF Init, Line
  <2>2. Len(line.text) \in Nat
    BY <2>1
  <2> QED
    BY <2>1, <2>2, ResourceSizes
<1>2. TypeOK
  <2>1. <<>> \in Seq(Tokens) /\ Len(<<>>) = 0
    OBVIOUS
  <2>2. text \in [Pages -> Texts \cup {Absent}]
    BY DEF Init
  <2> QED
    <3>1. /\ line \in Lines /\ edits \in 0..MaxEdits /\ size \in Nat /\ found \in Files
          /\ pc \in {"line", "stat", "open", "sendfile", "bad_request", "not_found", "cgi_head", "html_404", "close"}
          /\ opened \in Texts \cup {Absent} /\ versions \subseteq Texts \cup {Absent}
          /\ sent \in Seq(Nat) /\ Len(sent) <= size
      BY <1>1 DEF Init, Files
    <3>3. cgi \in BOOLEAN /\ linked \in BOOLEAN /\ written \in BOOLEAN
      BY Zenon DEF Init
    <3>2. /\ method \in Seq(Tokens) /\ Len(method) < MethodSize
          /\ url \in Seq(Tokens) /\ Len(url) < LineSize /\ query \in Seq(Tokens) /\ Len(query) < LineSize
          /\ path \in Seq(Tokens)
      BY <1>1, <2>1 DEF Init
    <3> QED
      BY <2>2, <3>1, <3>2, <3>3 DEF TypeOK
<1> QED
  BY <1>2 DEF IInv, Init, Parsed, Looked, Opened, Passed, MissingOnly

(* The loops over the line leave its method, its query and its path.       *)
LEMMA ReadLineInv == IInv /\ ReadLine => IInv'
<1> SUFFICES ASSUME IInv, ReadLine PROVE IInv'
  OBVIOUS
<1>1. /\ line \in Lines /\ line.text \in Seq(Tokens) /\ Len(line.text) < LineSize /\ Means(line)
      /\ line.method \in {"GET", "POST", "other"} /\ line.asks \in BOOLEAN
  BY LinesAssumption, LinesMean DEF IInv, TypeOK, Line
<1>2. PICK s \in Seq(Tokens), u \in Seq(Tokens) : s = line.text /\ u = UrlOf(s) /\ Len(u) < LineSize /\ Len(s) < LineSize
  BY <1>1, UrlFits
<1>3. /\ pc = "line" /\ method' = MethodOf(s) /\ cgi' = Cgi(method', u)
      /\ url' = IF method' = <<"GET">> THEN AtMost(u, Question(u) - 1) ELSE u
      /\ query' = IF method' = <<"GET">> THEN QueryOf(u) ELSE u
      /\ pc' = IF method' \in {<<"GET">>, <<"POST">>} THEN "stat" ELSE "bad_request"
      /\ UNCHANGED <<line, text, edits, path, size, found, sent, opened, linked, written, versions>>
  BY <1>2, Zenon DEF ReadLine, file
<1>4. /\ method' \in Seq(Tokens) /\ Len(method') < MethodSize
      /\ \A m \in {"GET", "POST"} : method' = <<m>> <=> line.method = m
  <2>1. /\ MethodOf(s) \in Seq(Tokens) /\ Len(MethodOf(s)) < MethodSize
        /\ \A m \in {"GET", "POST"} :
              MethodOf(s) = <<m>> <=> s # <<>> /\ s[1] = m /\ (Len(s) > 1 => s[2] = "space")
    BY MethodIs
  <2>2. \A m \in {"GET", "POST"} : line.method = m <=> s # <<>> /\ s[1] = m /\ (Len(s) > 1 => s[2] = "space")
    BY <1>1, <1>2, Zenon DEF Means
  <2> QED
    BY <1>3, <2>1, <2>2, Zenon
<1>5. url' \in Seq(Tokens) /\ Len(url') < LineSize /\ query' \in Seq(Tokens) /\ Len(query') < LineSize
  <2>1. PICK x \in Seq(Tokens), y \in Seq(Tokens) :
           x = AtMost(u, Question(u) - 1) /\ y = QueryOf(u) /\ Len(x) <= Len(u) /\ Len(y) <= Len(u)
    BY UrlParts
  <2>2. Len(x) < LineSize /\ Len(y) < LineSize
    BY <1>2, <2>1, ResourceSizes
  <2> QED
    BY <1>2, <1>3, <2>1, <2>2, Zenon
<1>6. cgi' \in BOOLEAN
  BY <1>3 DEF Cgi
<1>7. TypeOK'
  BY <1>3, <1>4, <1>5, <1>6 DEF IInv, TypeOK
<1>8. pc' = IF line.method \in {"GET", "POST"} THEN "stat" ELSE "bad_request"
  BY <1>3, <1>4
<1>9. ASSUME line.method \in {"GET", "POST"}
      PROVE  /\ LeadsTo(url', line.place) /\ (cgi' <=> line.method = "POST" \/ line.asks)
             /\ line.method = "GET" => query' = line.query
  <2>1. PICK a \in 2..(Len(s) + 1) : \E b \in a..(Len(s) + 1) : \E c \in a..b : Divides(line, a, b, c)
    BY <1>1, <1>2, <1>9, Zenon DEF Means
  <2>2. PICK b \in a..(Len(s) + 1) : \E c \in a..b : Divides(line, a, b, c)
    BY <2>1, Zenon
  <2>3. PICK c \in a..b : Divides(line, a, b, c)
    BY <2>2, Zenon
  <2>4. /\ \A k \in 2..(a - 1) : s[k] = "space"
        /\ \A k \in a..(b - 1) : s[k] # "space" /\ (k < c => s[k] # "question")
        /\ a <= Len(s) => s[a] # "space"
        /\ b <= Len(s) => s[b] = "space"
        /\ c < b => s[c] = "question"
        /\ line.asks = (c < b) /\ line.query = SubSeq(s, c + 1, b - 1)
        /\ LeadsTo(SubSeq(s, a, (IF line.method = "GET" THEN c ELSE b) - 1), line.place)
    BY <1>2, <2>3, Zenon DEF Divides
  <2>5. Len(MethodOf(s)) = 1
    BY <1>3, <1>4, <1>9
  <2>6. u = SubSeq(s, a, b - 1)
    <3>1. \A k \in a..(b - 1) : s[k] # "space"
      BY <2>4, Zenon
    <3> QED
      BY <1>2, <2>4, <2>5, <3>1, UrlIs
  <2>7. /\ AtMost(u, Question(u) - 1) = SubSeq(s, a, c - 1)
        /\ QueryOf(u) = SubSeq(s, c + 1, b - 1)
        /\ Question(u) <= Len(u) <=> c < b
    <3>1. \A k \in a..(c - 1) : s[k] # "question"
      <4>1. ASSUME NEW k \in a..(c - 1) PROVE s[k] # "question"
        <5>1. k \in a..(b - 1) /\ k < c
          OBVIOUS
        <5> QED
          BY <2>4, <5>1
      <4> QED
        BY <4>1
    <3>2. c < b => s[c] = "question"
      BY <2>4
    <3>3. UrlAt(s, a, b, c, u)
      BY <2>6, <3>1, <3>2 DEF UrlAt
    <3>4. CutAt(s, a, b, c, u)
      BY <3>3, QuestionIs
    <3> QED
      BY <3>4, Zenon DEF CutAt
  <2>8. CASE line.method = "GET"
    <3>1. method' = <<"GET">> /\ method' # <<"POST">>
      BY <1>4, <2>8
    <3>2. cgi' <=> line.asks
      BY <1>3, <2>4, <2>7, <3>1, Zenon DEF Cgi
    <3>3. url' = SubSeq(s, a, c - 1) /\ query' = line.query
      BY <1>3, <2>4, <2>7, <3>1, Zenon
    <3>4. LeadsTo(SubSeq(s, a, c - 1), line.place)
      BY <2>4, <2>8, Zenon
    <3> QED
      BY <2>8, <3>2, <3>3, <3>4, Zenon
  <2>9. CASE line.method = "POST"
    <3>1. method' = <<"POST">> /\ method' # <<"GET">>
      BY <1>4, <2>9
    <3>2. cgi' /\ url' = SubSeq(s, a, b - 1)
      BY <1>3, <2>6, <3>1, Zenon DEF Cgi
    <3>3. line.method # "GET"
      BY <2>9
    <3>4. LeadsTo(SubSeq(s, a, b - 1), line.place)
      BY <2>4, <3>3, Zenon
    <3> QED
      BY <2>9, <3>2, <3>3, <3>4, Zenon
  <2> QED
    BY <1>9, <2>8, <2>9
<1>10. Parsed'
  <2>1. line' = line
    BY <1>3
  <2>2. CASE line.method \in {"GET", "POST"}
    <3>1. pc' = "stat"
      BY <1>8, <2>2
    <3> QED
      BY <1>9, <2>1, <2>2, <3>1 DEF Parsed
  <2>3. CASE line.method \notin {"GET", "POST"}
    BY <1>1, <1>8, <2>1, <2>3 DEF Parsed
  <2> QED
    BY <2>2, <2>3
<1>11. Looked' /\ Opened' /\ Passed' /\ MissingOnly'
  BY <1>3, <1>8 DEF IInv, Looked, Opened, Passed, MissingOnly
<1> QED
  BY <1>7, <1>10, <1>11 DEF IInv

(* The places are paths.                                                   *)
LEMMA PlaceType == ASSUME NEW p \in Places PROVE p \in Seq(Tokens)
<1>1. "index" \in Tokens /\ "page" \in Tokens /\ "dir" \in Tokens /\ "bare" \in Tokens /\ "cgi" \in Tokens
  BY DEF Tokens, Names
<1>2. /\ <<>> \in Seq(Tokens) /\ <<"index">> \in Seq(Tokens) /\ <<"page">> \in Seq(Tokens)
      /\ <<"dir">> \in Seq(Tokens) /\ <<"bare">> \in Seq(Tokens) /\ <<"cgi">> \in Seq(Tokens)
  BY <1>1
<1>3. <<"dir", "index">> \in Seq(Tokens)
  BY <1>1
<1> QED
  BY <1>2, <1>3 DEF Places

(* stat() finds what the line means, if that is there.                     *)
LEMMA StatInv == IInv /\ Stat => IInv'
<1> SUFFICES ASSUME IInv, Stat PROVE IInv'
  OBVIOUS
<1>1. PICK w, p : w = PathOf(url) /\ p = Steps(w)
  OBVIOUS
<1>2. /\ pc = "stat" /\ UNCHANGED <<line, text, edits, method, url, query, sent, opened, linked, written>>
      /\ versions' = IF line.place \in Pages THEN {text[line.place]} ELSE {}
  BY DEF Stat, file
<1>3. /\ Spelt(p, w) => line.place = IF IsDir(p) THEN Append(p, "index") ELSE p
      /\ line.place \in Pages => Spelt(p, w)
  BY <1>1, <1>2, Zenon DEF IInv, Parsed, LeadsTo
<1>4. /\ line.method \in {"GET", "POST"} /\ (cgi <=> line.method = "POST" \/ line.asks)
      /\ line.method = "GET" => query = line.query
  BY <1>2 DEF IInv, Parsed
<1>5. sent = <<>> /\ Len(sent) = 0 /\ DOMAIN sent = {}
  BY <1>2 DEF IInv, Opened
<1>6. versions' \subseteq Texts \cup {Absent}
  BY <1>2 DEF IInv, TypeOK
<1>7. CASE ~Finds(p, w)
  <2>1. found' = "none" /\ pc' = "not_found" /\ UNCHANGED <<path, cgi, size>>
    BY <1>1, <1>7, Zenon DEF Stat
  <2>2. TypeOK'
    BY <1>2, <1>6, <2>1 DEF IInv, TypeOK, Files
  <2>3. Parsed' /\ Opened' /\ Passed'
    BY <1>2, <1>4, <1>5, <2>1 DEF IInv, Parsed, Opened, Passed
  <2>4. Looked'
    BY <1>2, <2>1 DEF Looked
  <2>5. MissingOnly'
    <3>1. SUFFICES ASSUME line.place \in Pages PROVE Absent \in versions'
      BY <1>2 DEF MissingOnly
    <3>2. Spelt(p, w) /\ p \in Places
      BY <1>3, <3>1 DEF Spelt
    <3>3. p \in Pages /\ text[p] = Absent
      BY <1>7, <3>2 DEF Finds
    <3>4. ~IsDir(p)
      BY <3>3 DEF IsDir, Pages
    <3>5. line.place = p
      BY <1>3, <3>2, <3>4
    <3> QED
      BY <1>2, <3>3, <3>5
  <2> QED
    BY <2>2, <2>3, <2>4, <2>5 DEF IInv
<1>8. CASE Finds(p, w)
  <2>1. /\ found' = IF p = <<"cgi">> THEN "cgi"
                    ELSE IF ~IsDir(p) THEN "page"
                    ELSE IF p = <<"bare">> \/ text[Append(p, "index")] = Absent THEN "bare" ELSE "dir"
        /\ path' = IF IsDir(p) THEN Append(p, "index") ELSE p
        /\ cgi' = (cgi \/ p = <<"cgi">>)
        /\ size' = IF p \in Pages THEN Len(text[p]) ELSE DirSize
        /\ pc' = IF cgi' THEN "cgi_head" ELSE "open"
    BY <1>1, <1>8, Zenon DEF Stat
  <2>2. Spelt(p, w) /\ p \in Places /\ (p \in Pages => text[p] # Absent)
    BY <1>8 DEF Finds, Spelt
  <2>3. line.place = path'
    BY <1>3, <2>1, <2>2
  <2>4. path' \in Seq(Tokens)
    <3>1. p \in Seq(Tokens)
      BY <2>2, PlaceType
    <3>2. Append(p, "index") \in Seq(Tokens)
      BY <3>1 DEF Tokens, Names, Marks
    <3> QED
      BY <2>1, <3>1, <3>2
  <2>5. size' \in Nat
    <3>1. p \in Pages => text[p] \in Texts
      BY <2>2 DEF IInv, TypeOK
    <3> QED
      BY <2>1, <3>1, TextIs, ResourceSizes
  <2>6. /\ found' \in Files /\ found' # "none" /\ (found' \in Programs <=> p = <<"cgi">>)
        /\ found' = "page" <=> p # <<"cgi">> /\ ~IsDir(p)
        /\ p # <<"cgi">> => found' \in {"page", "dir", "bare"}
    BY <2>1 DEF Files, Programs
  <2>7. cgi' \in BOOLEAN
    BY <2>1
  <2>8. TypeOK'
    BY <1>2, <1>5, <1>6, <2>1, <2>4, <2>5, <2>6, <2>7 DEF IInv, TypeOK
  <2>9. Parsed' /\ Opened' /\ Passed' /\ MissingOnly'
    BY <1>2, <1>4, <1>5, <2>1 DEF IInv, Parsed, Opened, Passed, MissingOnly
  <2>10. cgi' <=> UsesCgi(Meant')
    <3>1. /\ Meant'.method = line.method /\ Meant'.query = line.asks /\ Meant'.file = found'
      BY <1>2 DEF Meant
    <3> QED
      BY <1>4, <2>1, <2>6, <3>1 DEF UsesCgi
  <2>11. CASE cgi'
    <3>1. pc' = "cgi_head"
      BY <2>1, <2>11
    <3>2. Looked'
      BY <1>2, <2>3, <2>6, <2>10, <2>11, <3>1 DEF Looked
    <3> QED
      BY <2>8, <2>9, <3>2 DEF IInv
  <2>12. CASE ~cgi'
    <3>1. pc' = "open" /\ p # <<"cgi">>
      BY <2>1, <2>12
    <3>2. CASE IsDir(p)
      <4>1. found' \in {"dir", "bare"} /\ p \notin Pages
        BY <2>6, <3>1, <3>2 DEF IsDir, Pages
      <4>2. size' = DirSize
        BY <2>1, <4>1
      <4>3. Looked'
        BY <1>2, <2>3, <2>10, <2>12, <3>1, <4>1, <4>2 DEF Looked, Sized
      <4> QED
        BY <2>8, <2>9, <4>3 DEF IInv
    <3>3. CASE ~IsDir(p)
      <4>1. found' = "page" /\ p \in Pages /\ line.place = p
        BY <1>3, <2>2, <2>6, <3>1, <3>3 DEF Places, IsDir, Pages
      <4>2. text[p] \in versions' /\ text[p] # Absent /\ size' = Len(text[p]) /\ line'.place \in Pages
        BY <1>2, <2>1, <2>2, <4>1
      <4>3. Looked'
        BY <1>2, <2>3, <2>10, <2>12, <3>1, <4>1, <4>2 DEF Looked, Sized
      <4> QED
        BY <2>8, <2>9, <4>3 DEF IInv
    <3> QED
      BY <3>2, <3>3
  <2> QED
    BY <2>11, <2>12
<1> QED
  BY <1>7, <1>8

(* open() finds the page with the text it has now.                         *)
LEMMA OpenInv == IInv /\ Open => IInv'
<1> SUFFICES ASSUME IInv, Open PROVE IInv'
  OBVIOUS
<1>1. /\ pc = "open"
      /\ UNCHANGED <<line, text, edits, method, url, query, cgi, path, size, found, sent, written, versions>>
      /\ \/ path \in Pages /\ text[path] # Absent /\ pc' = "sendfile" /\ opened' = text[path] /\ linked' = TRUE
         \/ ~(path \in Pages /\ text[path] # Absent) /\ pc' = "html_404" /\ UNCHANGED <<opened, linked>>
  BY DEF Open
<1>2. /\ path = line.place /\ line.method \in {"GET", "POST"} /\ sent = <<>> /\ DOMAIN sent = {} /\ ~linked
      /\ line.place \in Pages => text[line.place] \in versions
  BY <1>1 DEF IInv, Parsed, Looked, Opened
<1>3. opened' \in Texts \cup {Absent}
  BY <1>1 DEF IInv, TypeOK
<1>4. linked \in BOOLEAN
  BY DEF IInv, TypeOK
<1>10. linked' \in BOOLEAN
  <2>1. linked' = TRUE \/ linked' = linked
    BY <1>1, Zenon
  <2> QED
    BY <1>4, <2>1, Zenon
<1>5. TypeOK'
  BY <1>1, <1>3, <1>10 DEF IInv, TypeOK
<1>6. Parsed' /\ Looked'
  BY <1>1 DEF IInv, Parsed, Looked, Sized
<1>7. Opened' /\ Passed'
  BY <1>1, <1>2 DEF Opened, Passed
<1>8. MissingOnly'
  BY <1>1, <1>2 DEF MissingOnly
<1> QED
  BY <1>5, <1>6, <1>7, <1>8 DEF IInv

(* sendfile() takes the next byte of what is open, until there is none.    *)
LEMMA SendFileInv == IInv /\ SendFile => IInv'
<1> SUFFICES ASSUME IInv, SendFile PROVE IInv'
  OBVIOUS
<1>1. /\ pc = "sendfile"
      /\ UNCHANGED <<line, text, edits, method, url, query, cgi, path, size, found, opened, written, versions>>
  BY DEF SendFile
<1>2. /\ opened \in versions /\ opened # Absent /\ opened \in Texts /\ sent \in Seq(Nat) /\ size \in Nat
      /\ Len(sent) <= size /\ linked \in BOOLEAN
  BY <1>1 DEF IInv, TypeOK, Opened
<1>3. PICK n \in Nat, m \in Nat : n = Len(sent) /\ m = Len(opened) /\ opened \in Seq(Nat)
  BY <1>2, TextIs
<1>4. Looked' /\ MissingOnly' /\ Parsed'
  BY <1>1 DEF SendFile, IInv, Parsed, Looked, Sized, MissingOnly
<1>5. CASE Copies(size, Len(sent), opened)
  <2>1. sent' = Append(sent, opened[n + 1]) /\ UNCHANGED <<pc, linked>>
    BY <1>3, <1>5 DEF SendFile
  <2>2. n < size /\ n < m
    BY <1>3, <1>5 DEF Copies
  <2>3. opened[n + 1] \in Nat
    BY <1>3, <2>2
  <2>4. /\ sent' \in Seq(Nat) /\ Len(sent') = n + 1 /\ DOMAIN sent' = 1..(n + 1)
        /\ sent'[n + 1] = opened[n + 1] /\ \A k \in 1..n : sent'[k] = sent[k]
    BY <1>2, <1>3, <2>1, <2>3
  <2>5. TypeOK'
    <3>1. Len(sent') <= size
      BY <1>2, <2>2, <2>4
    <3> QED
      BY <1>1, <2>1, <2>4, <3>1 DEF IInv, TypeOK
  <2>6. Opened'
    BY <1>1, <2>1 DEF IInv, Opened
  <2>7. \A k \in 1..(n + 1) : k \in 1..n \/ k = n + 1
    BY <1>3
  <2>8. \A k \in 1..n : k \in DOMAIN sent
    BY <1>2, <1>3
  <2>9. ASSUME NEW k \in DOMAIN sent' PROVE \E v \in versions : Has(v, k) /\ sent'[k] = v[k]
    <3>1. CASE k \in 1..n
      BY <2>4, <2>8, <3>1 DEF IInv, Passed
    <3>2. CASE k = n + 1
      <4>1. Has(opened, n + 1)
        BY <1>2, <1>3, <2>2 DEF Has
      <4> QED
        BY <1>2, <2>4, <3>2, <4>1
    <3> QED
      BY <2>4, <2>7, <2>9, <3>1, <3>2
  <2>10. ASSUME ~written, NEW k \in DOMAIN sent' PROVE k <= Len(opened) /\ sent'[k] = opened[k]
    <3>1. CASE k \in 1..n
      BY <2>4, <2>8, <2>10, <3>1 DEF IInv, Passed
    <3>2. CASE k = n + 1
      BY <1>3, <2>2, <2>4, <3>2
    <3> QED
      BY <2>4, <2>7, <2>10, <3>1, <3>2
  <2>11. Passed'
    BY <1>1, <2>1, <2>9, <2>10 DEF Passed
  <2> QED
    BY <1>4, <2>5, <2>6, <2>11 DEF IInv
<1>6. CASE ~Copies(size, Len(sent), opened)
  <2>1. pc' = "close" /\ linked' = FALSE /\ sent' = sent
    BY <1>6 DEF SendFile
  <2>2. Len(sent) >= size \/ Len(sent) >= Len(opened)
    <3>1. n >= size \/ n >= m
      BY <1>2, <1>3, <1>6 DEF Copies
    <3> QED
      BY <1>3, <3>1
  <2>3. linked' \in BOOLEAN
    BY <2>1, Zenon
  <2>4. TypeOK'
    BY <1>1, <2>1, <2>3 DEF IInv, TypeOK
  <2>5. Opened' /\ Passed'
    BY <1>1, <2>1, <2>2 DEF IInv, Opened, Passed
  <2> QED
    BY <1>4, <2>4, <2>5 DEF IInv
<1> QED
  BY <1>5, <1>6

(* Whoever edits, the texts of the page are all remembered.                *)
LEMMA EditInv == IInv /\ Edit => IInv'
<1> SUFFICES ASSUME IInv, Edit PROVE IInv'
  OBVIOUS
<1>1. PICK p \in Pages, t \in Texts \cup {Absent} :
        /\ text' = [text EXCEPT ![p] = t]
        /\ versions' = IF p = line.place /\ pc \notin {"line", "stat"} THEN versions \cup {t} ELSE versions
        /\ WriteInto(p, t) \/ Replace(p)
  BY DEF Edit
<1>2. /\ edits < MaxEdits /\ edits' = edits + 1
      /\ UNCHANGED <<line, pc, method, url, query, cgi, path, size, found, sent>>
  BY DEF Edit, thread
<1>3. /\ versions \subseteq versions' /\ versions' \subseteq Texts \cup {Absent}
      /\ opened' \in Texts \cup {Absent} /\ text' \in [Pages -> Texts \cup {Absent}]
  BY <1>1 DEF IInv, TypeOK, WriteInto, Replace
<1>4. edits' \in 0..MaxEdits
  BY <1>2, ResourceSizes DEF IInv, TypeOK
<1>5. linked' \in BOOLEAN /\ written' \in BOOLEAN /\ (linked' => linked) /\ (written => written')
  BY <1>1, Zenon DEF IInv, TypeOK, WriteInto, Replace
<1>6. TypeOK'
  BY <1>2, <1>3, <1>4, <1>5 DEF IInv, TypeOK
<1>7. Parsed' /\ MissingOnly'
  BY <1>2, <1>3 DEF IInv, Parsed, MissingOnly
<1>8. pc \notin {"line", "stat", "bad_request"} /\ line.place \in Pages => text'[line.place] \in versions'
  <2>1. SUFFICES ASSUME pc \notin {"line", "stat", "bad_request"}, line.place \in Pages
                 PROVE  text'[line.place] \in versions'
    OBVIOUS
  <2>2. text[line.place] \in versions
    BY <2>1 DEF IInv, Looked
  <2> QED
    BY <1>1, <2>1, <2>2 DEF IInv, TypeOK
<1>9. Sized => Sized'
  BY <1>2, <1>3 DEF Sized
<1>10. Looked'
  BY <1>2, <1>3, <1>8, <1>9 DEF IInv, Looked, Meant
<1>11. \/ opened' = opened
       \/ written' /\ opened' # Absent /\ opened' \in versions' /\ pc = "sendfile"
  <2>1. CASE Replace(p)
    BY <2>1 DEF Replace
  <2>2. CASE WriteInto(p, t)
    <3>1. linked /\ p = path /\ t # Absent /\ opened' = t /\ written'
      BY <2>2 DEF WriteInto
    <3>2. pc = "sendfile" /\ path = line.place
      BY <3>1 DEF IInv, Looked, Opened
    <3> QED
      BY <1>1, <3>1, <3>2
  <2> QED
    BY <1>1, <2>1, <2>2
<1>12. Opened'
  BY <1>2, <1>3, <1>5, <1>11 DEF IInv, Opened
<1>13. Passed'
  <2>1. \A k \in DOMAIN sent : \E v \in versions' : Has(v, k) /\ sent[k] = v[k]
    BY <1>3 DEF IInv, Passed
  <2>2. ~written' => opened' = opened /\ ~written
    BY <1>5, <1>11
  <2>3. pc = "close" => opened' = opened
    BY <1>11
  <2> QED
    BY <1>2, <2>1, <2>2, <2>3 DEF IInv, Passed
<1> QED
  BY <1>6, <1>7, <1>10, <1>12, <1>13 DEF IInv

(* Every step keeps the invariant.                                         *)
LEMMA NextInv == IInv /\ [Next]_vars => IInv'
<1> SUFFICES ASSUME IInv, [Next]_vars PROVE IInv'
  OBVIOUS
<1>1. CASE UNCHANGED vars
  BY <1>1 DEF vars, thread, file, IInv, TypeOK, Parsed, Looked, Sized, Meant, Opened, Passed, MissingOnly
<1>2. CASE Over
  BY <1>1, <1>2 DEF Over
<1> QED
  BY <1>1, <1>2, ReadLineInv, StatInv, OpenInv, SendFileInv, EditInv DEF Next

(* So it holds throughout, for any lines, files and edits: what            *)
(* accept_request() and echo_html() have in their variables is what the    *)
(* line means and what the page has had in it.                             *)
THEOREM Invariant == Spec => []IInv
<1>1. IInv /\ [Next]_vars => IInv'
  BY NextInv
<1> QED
  BY InitInv, <1>1, PTL DEF Spec

-----------------------------------------------------------------------------
(* The variables keep their types: the method and the URL of any line fit  *)
(* their arrays, whatever the line is.                                     *)
THEOREM TypesHold == Spec => []TypeOK
<1>1. IInv => TypeOK
  BY DEF IInv
<1> QED
  BY Invariant, <1>1, PTL

(* For any lines that mean what they say, the thread goes where Route of   *)
(* HttpRequest sends the request that is meant, and runs the program that  *)
(* is meant: the requests of Httpd are what accept_request() makes of any  *)
(* such line.                                                              *)
THEOREM RoutedRight == Spec => []Routed
<1>1. IInv => Routed
  <2> SUFFICES ASSUME IInv PROVE Routed
    OBVIOUS
  <2>1. Meant.method = line.method /\ Meant.file = found
    BY DEF Meant
  <2>2. CASE pc = "bad_request"
    BY <2>1, <2>2 DEF IInv, Parsed, Routed, Route
  <2>3. CASE pc = "not_found"
    BY <2>1, <2>3 DEF IInv, Parsed, Looked, Routed, Route
  <2>4. CASE pc = "cgi_head"
    BY <2>1, <2>4 DEF IInv, Parsed, Looked, Routed, Route
  <2>5. CASE pc = "open"
    BY <2>1, <2>5 DEF IInv, Parsed, Looked, Sized, Routed, Route
  <2> QED
    BY <2>2, <2>3, <2>4, <2>5 DEF Routed
<1> QED
  BY Invariant, <1>1, PTL

(* A program asked for with GET gets the query that stands in the line,    *)
(* from the first ? to the blank, however long, question marks and all.    *)
THEOREM QueryIsKept == Spec => []QueryKept
<1>1. IInv => QueryKept
  BY DEF IInv, Parsed, QueryKept
<1> QED
  BY Invariant, <1>1, PTL

(* However often and whenever the files are edited, in place or not: every *)
(* byte that echo_html() sends stands in some text the page has had since  *)
(* stat(), at this place; if nobody wrote into the open file they are the  *)
(* beginning of one text, as long as one of them or as the directory; and  *)
(* of a page that has had one text only all of it goes out.                *)
THEOREM PageIsWhole == Spec => []PageWhole
<1>1. IInv => PageWhole
  <2> SUFFICES ASSUME IInv, pc = "close"
               PROVE  /\ \A k \in DOMAIN sent : \E v \in versions : Has(v, k) /\ sent[k] = v[k]
                      /\ ~written => \E v, w \in versions : v # Absent /\ w # Absent /\
                                        sent = AtMost(v, IF found = "page" THEN Len(w) ELSE DirSize)
                      /\ found = "page" => \A v \in versions : versions = {v} => sent = v
    BY DEF PageWhole
  <2>1. /\ opened \in versions /\ opened # Absent /\ opened \in Texts /\ sent \in Seq(Nat) /\ size \in Nat
        /\ Len(sent) <= size /\ (Len(sent) >= size \/ Len(sent) >= Len(opened)) /\ Sized
    BY DEF IInv, TypeOK, Looked, Opened, Passed
  <2>2. PICK n \in Nat, m \in Nat : n = Len(sent) /\ m = Len(opened) /\ opened \in Seq(Nat)
    BY <2>1, TextIs
  <2>3. ASSUME \A k \in DOMAIN sent : k <= Len(opened) /\ sent[k] = opened[k]
        PROVE  sent = AtMost(opened, size)
    <3>1. n <= m
      <4>1. n # 0 => n \in DOMAIN sent
        BY <2>1, <2>2
      <4> QED
        BY <2>2, <2>3, <4>1
    <3>2. n = IF size < m THEN size ELSE m
      <4>1. n <= size /\ (n >= size \/ n >= m)
        BY <2>1, <2>2
      <4> QED
        BY <2>1, <3>1, <4>1
    <3>3. PICK t : t = SubSeq(opened, 1, n)
      OBVIOUS
    <3>4. t \in Seq(Nat) /\ Len(t) = n /\ \A k \in 1..n : t[k] = opened[k]
      BY <2>2, <3>1, <3>3
    <3>5. DOMAIN sent = 1..n
      BY <2>1, <2>2
    <3>6. \A k \in 1..n : sent[k] = t[k]
      BY <2>3, <3>4, <3>5
    <3>7. sent = t
      <4>1. \A a, b \in Seq(Nat) : Len(a) = Len(b) /\ (\A k \in 1..Len(a) : a[k] = b[k]) => a = b
        OBVIOUS
      <4> QED
        BY <2>1, <2>2, <3>4, <3>6, <4>1
    <3> QED
      BY <2>2, <3>2, <3>3, <3>7 DEF AtMost
  <2>4. \A k \in DOMAIN sent : \E v \in versions : Has(v, k) /\ sent[k] = v[k]
    BY DEF IInv, Passed
  <2>5. ASSUME ~written
        PROVE  \E v, w \in versions : v # Absent /\ w # Absent /\
                  sent = AtMost(v, IF found = "page" THEN Len(w) ELSE DirSize)
    <3>1. sent = AtMost(opened, size)
      BY <2>3, <2>5 DEF IInv, Passed
    <3>2. CASE found = "page"
      <4>1. PICK w \in versions : w # Absent /\ size = Len(w)
        BY <2>1, <3>2 DEF Sized
      <4> QED
        BY <2>1, <3>1, <3>2, <4>1
    <3>3. CASE found # "page"
      <4>1. size = DirSize
        BY <2>1, <3>3 DEF Sized
      <4> QED
        BY <2>1, <3>1, <3>3, <4>1
    <3> QED
      BY <3>2, <3>3
  <2>6. ASSUME found = "page", NEW v \in versions, versions = {v} PROVE sent = v
    <3>1. opened = v
      BY <2>1, <2>6
    <3>2. size = m
      BY <2>1, <2>2, <2>6, <3>1 DEF Sized
    <3>3. \A k \in DOMAIN sent : k <= Len(opened) /\ sent[k] = opened[k]
      BY <2>4, <2>6, <3>1 DEF Has
    <3>4. sent = AtMost(opened, m)
      BY <2>3, <3>2, <3>3
    <3>5. AtMost(opened, m) = SubSeq(opened, 1, m)
      BY <2>2 DEF AtMost
    <3>6. SubSeq(opened, 1, m) = opened
      BY <2>2
    <3> QED
      BY <3>1, <3>4, <3>5, <3>6
  <2> QED
    BY <2>4, <2>5, <2>6
<1> QED
  BY Invariant, <1>1, PTL

(* And a page is called missing only if it was missing since stat().       *)
THEOREM MissingIsMissing == Spec => []MissingOnly
<1>1. IInv => MissingOnly
  BY DEF IInv
<1> QED
  BY Invariant, <1>1, PTL
=============================================================================
