---------------------------- MODULE GoodsAnswers ----------------------------
(***************************************************************************)
(* Proofs about what the programs of Goods store, list and say, for any    *)
(* number of browsers, any ids, entries and searches.                      *)
(***************************************************************************)
EXTENDS GoodsProofs, FiniteSetTheorems, SequenceTheorems

(* The rows that users send, and the screens that programs print.          *)
Form(e, t) == [name |-> e.name, type |-> t, price |-> e.price, size |-> e.size]

(* A form filled in with an entry and a type is a row.                     *)
LEMMA FormIsRow ==
  ASSUME NEW e \in Entries, NEW t \in TypeSet \cup {NoType}, types \in 0..Len(TypeIds)
  PROVE  Form(e, t) \in Row /\ t \in Numbers
<1>1. t \in Numbers
  BY IdsAssumption DEF TypeSet, Numbers, Elems
<1>2. t \in Text
  BY <1>1 DEF Text, Words
<1>4. e.name \in Text /\ e.size \in Text
  <2>1. {e.name, e.size} \in {{x.name, x.size} : x \in Entries}
    OBVIOUS
  <2>2. e.name \in UNION {{x.name, x.size} : x \in Entries} /\ e.size \in UNION {{x.name, x.size} : x \in Entries}
    BY <2>1
  <2> QED
    BY <2>2 DEF Text, Words
<1>3. e.price \in Text
  BY SearchAssumption DEF Text, Words, Numbers
<1> QED
  BY <1>1, <1>2, <1>3, <1>4 DEF Form, Row

(* What is read from the words of a form are the words that were sent, or  *)
(* what the array held.                                                    *)
LEMMA FieldIsText ==
  ASSUME NEW ws \in Seq(Text), NEW n \in Nat \ {0} PROVE Field(ws, n, Garbage) \in Text
<1>1. 2 * n <= Len(ws) => ws[2 * n] \in Text
  OBVIOUS
<1> QED
  BY <1>1 DEF Field, Text

(* What a browser sends of a field is words.                               *)
LEMMA PairsAreText ==
  ASSUME NEW key \in Text, NEW w \in Text
  PROVE  Pair(key, w) \in Seq(Text) /\ Radio(key, w) \in Seq(Text)
BY DEF Pair, Radio

(* And so is what it sends of a form.                                      *)
LEMMA PostedIsText == ASSUME NEW r \in Row PROVE Posted(r) \in Seq(Text)
<1>1. {"god_name", "god_type", "god_price", "god_size"} \subseteq Text
  BY DEF Text, Words, Keys
<1>2. r.name \in Text /\ r.type \in Text /\ r.price \in Text /\ r.size \in Text
  BY DEF Row
<1>3. /\ Pair("god_name", r.name) \in Seq(Text) /\ Pair("god_type", r.type) \in Seq(Text)
      /\ Pair("god_price", r.price) \in Seq(Text) /\ Radio("god_size", r.size) \in Seq(Text)
  BY <1>1, <1>2, PairsAreText
<1> QED
  BY <1>3 DEF Posted

(* A pair at the end of some others is one more field.                     *)
LEMMA OneMoreField ==
  ASSUME NEW ws \in Seq(Text), NEW key \in Text, NEW w \in Text, NEW n \in Nat, Len(ws) = n
  PROVE  /\ ws \o <<key, w>> \in Seq(Text) /\ Len(ws \o <<key, w>>) = n + 2
         /\ \A i \in 1..n : (ws \o <<key, w>>)[i] = ws[i]
         /\ (ws \o <<key, w>>)[n + 2] = w
<1>1. <<key, w>> \in Seq(Text) /\ Len(<<key, w>>) = 2 /\ <<key, w>>[2] = w
  OBVIOUS
<1> QED
  BY <1>1

(* The four fields of a form, behind whatever is before them.              *)
Four(ws, r) == ((ws \o <<"god_name", r.name>>) \o <<"god_type", r.type>>)
                    \o <<"god_price", r.price>> \o <<"god_size", r.size>>

(* Four fields filled in are eight words behind what precedes them, and    *)
(* the values are every second.                                            *)
LEMMA FourFields ==
  ASSUME NEW r \in Row, NEW ws \in Seq(Text), NEW n \in Nat, Len(ws) = n
  PROVE  /\ Four(ws, r) \in Seq(Text) /\ Len(Four(ws, r)) = n + 8
         /\ Four(ws, r)[n + 2] = r.name /\ Four(ws, r)[n + 4] = r.type
         /\ Four(ws, r)[n + 6] = r.price /\ Four(ws, r)[n + 8] = r.size
<1>1. /\ "god_name" \in Text /\ "god_type" \in Text
      /\ "god_price" \in Text /\ "god_size" \in Text
  BY DEF Text, Words, Keys
<1>2. r.name \in Text /\ r.type \in Text /\ r.price \in Text /\ r.size \in Text
  BY DEF Row
<1> DEFINE w1 == ws \o <<"god_name", r.name>>
           w2 == w1 \o <<"god_type", r.type>>
           w3 == w2 \o <<"god_price", r.price>>
           w4 == w3 \o <<"god_size", r.size>>
<1>3. w1 \in Seq(Text) /\ Len(w1) = n + 2 /\ w1[n + 2] = r.name
  BY <1>1, <1>2, OneMoreField
<1> HIDE DEF w1
<1>4. w2 \in Seq(Text) /\ Len(w2) = n + 4 /\ w2[n + 2] = r.name /\ w2[n + 4] = r.type
  <2>1. n + 2 \in Nat /\ n + 2 \in 1..(n + 2) /\ (n + 2) + 2 = n + 4
    OBVIOUS
  <2>2. /\ w2 \in Seq(Text) /\ Len(w2) = (n + 2) + 2 /\ w2[(n + 2) + 2] = r.type
        /\ \A i \in 1..(n + 2) : w2[i] = w1[i]
    BY <1>1, <1>2, <1>3, <2>1, OneMoreField
  <2> HIDE DEF w2
  <2> QED
    BY <1>3, <2>1, <2>2
<1> HIDE DEF w2
<1>5. /\ w3 \in Seq(Text) /\ Len(w3) = n + 6
      /\ w3[n + 2] = r.name /\ w3[n + 4] = r.type /\ w3[n + 6] = r.price
  <2>1. n + 4 \in Nat /\ n + 2 \in 1..(n + 4) /\ n + 4 \in 1..(n + 4) /\ (n + 4) + 2 = n + 6
    OBVIOUS
  <2>2. /\ w3 \in Seq(Text) /\ Len(w3) = (n + 4) + 2 /\ w3[(n + 4) + 2] = r.price
        /\ \A i \in 1..(n + 4) : w3[i] = w2[i]
    BY <1>1, <1>2, <1>4, <2>1, OneMoreField
  <2> HIDE DEF w3
  <2> QED
    BY <1>4, <2>1, <2>2
<1> HIDE DEF w3
<1>6. /\ w4 \in Seq(Text) /\ Len(w4) = n + 8
      /\ w4[n + 2] = r.name /\ w4[n + 4] = r.type /\ w4[n + 6] = r.price /\ w4[n + 8] = r.size
  <2>1. /\ n + 6 \in Nat /\ n + 2 \in 1..(n + 6) /\ n + 4 \in 1..(n + 6) /\ n + 6 \in 1..(n + 6)
        /\ (n + 6) + 2 = n + 8
    OBVIOUS
  <2>2. /\ w4 \in Seq(Text) /\ Len(w4) = (n + 6) + 2 /\ w4[(n + 6) + 2] = r.size
        /\ \A i \in 1..(n + 6) : w4[i] = w3[i]
    BY <1>1, <1>2, <1>5, <2>1, OneMoreField
  <2> HIDE DEF w4
  <2> QED
    BY <1>5, <2>1, <2>2
<1> HIDE DEF w4
<1> QED
  BY <1>6 DEF w1, w2, w3, w4, Four

(* The fields of a form that was filled in are the fields of the row.      *)
LEMMA FilledFields ==
  ASSUME NEW r \in Row, None \notin {r.name, r.type, r.price, r.size}, NEW id \in Text
  PROVE  /\ Fields(Posted(r), 0) = [n \in 1..4 |-> <<r.name, r.type, r.price, r.size>>[n]]
         /\ Fields(<<"god_id", id>> \o Posted(r), 1) = [n \in 1..4 |-> <<r.name, r.type, r.price, r.size>>[n]]
<1>1. r.name \in Text /\ r.type \in Text /\ r.price \in Text /\ r.size \in Text
  BY DEF Row
<1>2. /\ "god_id" \in Text /\ "god_name" \in Text /\ "god_type" \in Text
      /\ "god_price" \in Text /\ "god_size" \in Text
  BY DEF Text, Words, Keys
<1> DEFINE p1 == <<"god_name", r.name>>
           p2 == <<"god_type", r.type>>
           p3 == <<"god_price", r.price>>
           p4 == <<"god_size", r.size>>
           p0 == <<"god_id", id>>
<1>3. p0 \in Seq(Text) /\ p1 \in Seq(Text) /\ p2 \in Seq(Text) /\ p3 \in Seq(Text) /\ p4 \in Seq(Text)
  BY <1>1, <1>2
<1>4. Posted(r) = p1 \o p2 \o p3 \o p4
  BY DEF Posted, Pair, Radio
<1> HIDE DEF p1, p2, p3, p4
<1>5. /\ <<>> \o p1 = p1
      /\ p0 \o (p1 \o p2 \o p3 \o p4) = p0 \o p1 \o p2 \o p3 \o p4
  BY <1>3, SMTT(30)
<1>6. Posted(r) = Four(<<>>, r)
  BY <1>4, <1>5 DEF Four, p1, p2, p3, p4
<1>7. <<"god_id", id>> \o Posted(r) = Four(p0, r)
  BY <1>4, <1>5 DEF Four, p1, p2, p3, p4
<1> HIDE DEF p0
<1>8. /\ Len(Posted(r)) = 8 /\ Posted(r)[2] = r.name /\ Posted(r)[4] = r.type
      /\ Posted(r)[6] = r.price /\ Posted(r)[8] = r.size
  <2>1. <<>> \in Seq(Text) /\ Len(<<>>) = 0 /\ 0 \in Nat
    OBVIOUS
  <2>2. /\ Len(Four(<<>>, r)) = 0 + 8
        /\ Four(<<>>, r)[0 + 2] = r.name /\ Four(<<>>, r)[0 + 4] = r.type
        /\ Four(<<>>, r)[0 + 6] = r.price /\ Four(<<>>, r)[0 + 8] = r.size
    BY <2>1, FourFields, Zenon
  <2> QED
    BY <1>6, <2>2
<1>9. /\ Len(p0 \o Posted(r)) = 10 /\ (p0 \o Posted(r))[4] = r.name /\ (p0 \o Posted(r))[6] = r.type
      /\ (p0 \o Posted(r))[8] = r.price /\ (p0 \o Posted(r))[10] = r.size
  <2>1. Len(p0) = 2 /\ 2 \in Nat
    BY DEF p0
  <2>2. /\ Len(Four(p0, r)) = 2 + 8
        /\ Four(p0, r)[2 + 2] = r.name /\ Four(p0, r)[2 + 4] = r.type
        /\ Four(p0, r)[2 + 6] = r.price /\ Four(p0, r)[2 + 8] = r.size
    BY <1>3, <2>1, FourFields, Zenon
  <2>3. p0 \o Posted(r) = Four(p0, r)
    BY <1>7 DEF p0
  <2> QED
    BY <2>2, <2>3
<1>10. \A n \in 1..4 : Field(Posted(r), n, Garbage) = <<r.name, r.type, r.price, r.size>>[n]
  BY <1>8 DEF Field
<1>11. \A n \in 1..4 : Field(p0 \o Posted(r), 1 + n, Garbage) = <<r.name, r.type, r.price, r.size>>[n]
  BY <1>9 DEF Field
<1> QED
  BY <1>10, <1>11 DEF Fields, p0

(* The id comes first, whatever is missing after it.                       *)
LEMMA IdField ==
  ASSUME NEW r \in Row, NEW id \in Text
  PROVE  /\ <<"god_id", id>> \o Posted(r) \in Seq(Text)
         /\ Field(<<"god_id", id>> \o Posted(r), 1, Garbage) = id
<1>1. "god_id" \in Text
  BY DEF Text, Words, Keys
<1>2. Posted(r) \in Seq(Text) /\ <<"god_id", id>> \in Seq(Text) /\ Len(<<"god_id", id>>) = 2
  BY <1>1, PostedIsText
<1>3. Len(<<"god_id", id>> \o Posted(r)) >= 2 /\ (<<"god_id", id>> \o Posted(r))[2] = id
  BY <1>2
<1> QED
  BY <1>2, <1>3 DEF Field
-----------------------------------------------------------------------------
(* Whatever the words, the row a program makes of them is one the table    *)
(* can hold.                                                               *)
LEMMA RowsAreRows ==
  ASSUME NEW ws \in Seq(Text), NEW skip \in Nat PROVE RowsOf(Fields(ws, skip)) \subseteq Row
<1>1. \A n \in 1..4 : Fields(ws, skip)[n] \in Text
  <2> TAKE n \in 1..4
  <2>1. skip + n \in Nat \ {0}
    OBVIOUS
  <2> QED
    BY <2>1, FieldIsText DEF Fields
<1>2. \A w : Taken(w) \subseteq Text
  BY DEF Taken, Text, Words
<1> QED
  BY <1>1, <1>2 DEF RowsOf, Row

(* What is on a screen, or is about to be.                                 *)
Screen(p) == p.ids \subseteq Elems(GoodsIds) /\ p.row \in Row /\ p.types \subseteq TypeSet

(* The types of what belongs to one browser, among them that whatever is   *)
(* about one of the goods has an id that the database may give.            *)
Typed(b) ==
  /\ Screen(page[b]) /\ Screen(prog[b].page)
  /\ prog[b].kind \in Kinds \cup {"none"} /\ prog[b].pc \in {"none", "connect", "run", "row", "exit"}
  /\ objs[b] \in Seq(Object) /\ touched[b] \subseteq Elems(GoodsIds)
  /\ prog[b].kind \in {"del", "change_show", "change"} => prog[b].id \in Elems(GoodsIds)
  /\ page[b].at = "change_show" /\ prog[b].kind = "none" => page[b].id \in Elems(GoodsIds)
  /\ prog[b].kind = "change_show" /\ prog[b].pc = "exit" => prog[b].page.id \in Elems(GoodsIds)
  /\ prog[b].pc = "row" => prog[b].kind = "change_show"

(* What the programs that store were asked is what somebody entered.       *)
Asked(b) ==
  LET p == prog[b]
  IN /\ p.kind = "add" =>
          \E e \in Entries, t \in TypeSet \cup {NoType} : p.want = Form(e, t) /\ p.post = Posted(p.want)
     /\ p.kind = "change" =>
          \E e \in Entries, t \in TypeSet \cup {NoType} :
            p.want = Form(e, t) /\ p.post = <<"god_id", p.id>> \o Posted(p.want)

(* How many objects a program has.                                         *)
Held(b) ==
  LET n == Len(objs[b])  full == IF prog[b].kind = "change" THEN 2 ELSE 1
  IN /\ prog[b].pc = "none" => prog[b].kind = "none"
     /\ prog[b].kind = "none" => n = 0
     /\ prog[b].pc = "connect" => n = 0 \/ (n = 1 /\ prog[b].kind = "change")
     /\ prog[b].pc \in {"run", "row"} => n = full
     /\ n <= full

(* The programs that are about to ask for one more type.                   *)
TypesAsked == {b \in Browsers : prog[b].kind = "add_type" /\ prog[b].pc \in {"connect", "run"}}

Tables ==
  /\ DOMAIN goods \subseteq {GoodsIds[i] : i \in 1..given} /\ \A i \in DOMAIN goods : goods[i] \in Row
  /\ given \in 0..Len(GoodsIds) /\ types \in FirstTypes..Len(TypeIds)
  /\ types + Cardinality(TypesAsked) <= Len(TypeIds)

GInv ==
  /\ FInv /\ Tables /\ DOMAIN objs = Browsers
  /\ \A b \in Browsers : Typed(b) /\ Asked(b) /\ Held(b)

(* The invariant holds while the browsers are idle.                        *)
LEMMA GoodsInit == Init => GInv
<1> SUFFICES ASSUME Init PROVE GInv
  OBVIOUS
<1>1. FInv
  BY FormInit
<1>2. TypesAsked = {}
  BY DEF Init, TypesAsked, Idle
<1>3. Tables
  BY <1>2, FS_EmptySet, BoundsAssumption, IdsAssumption DEF Init, Tables
<1>4. NoRow \in Row
  BY DEF NoRow, Row, Text
<1>5. ASSUME NEW b \in Browsers PROVE Typed(b) /\ Asked(b) /\ Held(b)
  BY <1>4 DEF Init, Typed, Asked, Held, Idle, Page, Screen
<1> QED
  BY <1>1, <1>3, <1>5 DEF GInv, Init

(* What one step does to the browsers and programs it is not about.        *)
LEMMA TypesGrow == types \in Nat /\ types' \in Nat /\ types <= types' => TypeSet \subseteq TypeSet'
BY DEF TypeSet

(* It holds after a step if it does for the browser that moves, and the    *)
(* others have at most more goods touched and more types.                  *)
LEMMA GoodsOthers ==
  ASSUME GInv, NEW b \in Browsers, FInv', Tables', types <= types', DOMAIN objs' = Browsers,
         \A x \in Browsers : x # b =>
           /\ prog'[x] = prog[x] /\ page'[x] = page[x] /\ objs'[x] = objs[x]
           /\ touched'[x] \subseteq Elems(GoodsIds),
         Typed(b)', Asked(b)', Held(b)'
  PROVE  GInv'
<1>1. TypeSet \subseteq TypeSet'
  BY TypesGrow, BoundsAssumption, IdsAssumption DEF GInv, Tables
<1>2. ASSUME NEW x \in Browsers, x # b PROVE Typed(x)' /\ Asked(x)' /\ Held(x)'
  <2>1. Typed(x) /\ Asked(x) /\ Held(x)
    BY DEF GInv
  <2>2. Typed(x)'
    BY <1>1, <1>2, <2>1 DEF Typed, Screen
  <2>3. Asked(x)'
    <3>1. prog'[x] = prog[x]
      BY <1>2
    <3>2. /\ prog[x].kind = "add" =>
               \E e \in Entries, t \in TypeSet' \cup {NoType} :
                 prog[x].want = Form(e, t) /\ prog[x].post = Posted(prog[x].want)
          /\ prog[x].kind = "change" =>
               \E e \in Entries, t \in TypeSet' \cup {NoType} :
                 prog[x].want = Form(e, t) /\ prog[x].post = <<"god_id", prog[x].id>> \o Posted(prog[x].want)
      BY <1>1, <2>1 DEF Asked
    <3> QED
      BY <3>1, <3>2, Zenon DEF Asked
  <2>4. Held(x)'
    BY <1>2, <2>1 DEF Held
  <2> QED
    BY <2>2, <2>3, <2>4
<1> QED
  BY <1>2 DEF GInv

(* The tables, while nobody asks for one more type.                        *)
LEMMA TablesStay ==
  ASSUME Tables, UNCHANGED <<goods, given, types>>, TypesAsked' \subseteq TypesAsked PROVE Tables'
<1>1. IsFiniteSet(TypesAsked)
  BY BoundsAssumption, FS_Subset DEF TypesAsked
<1>2. /\ Cardinality(TypesAsked') <= Cardinality(TypesAsked)
      /\ Cardinality(TypesAsked') \in Nat /\ Cardinality(TypesAsked) \in Nat
  BY <1>1, FS_Subset, FS_CardinalityType
<1>3. types \in Nat /\ Len(TypeIds) \in Nat
  BY BoundsAssumption, IdsAssumption DEF Tables
<1>4. types' + Cardinality(TypesAsked') <= Len(TypeIds)
  BY <1>2, <1>3 DEF Tables
<1> QED
  BY <1>4 DEF Tables

(* A request: what it asks for was on the screen or was entered.           *)
LEMMA UserAsks ==
  ASSUME GInv, NEW b \in Browsers, User(b)
  PROVE  \E kind \in Kinds : \E id, post, want :
           /\ Starts(b, kind, id, post, want)
           /\ kind \in {"del", "change_show", "change"} => id \in Elems(GoodsIds)
           /\ kind = "add" =>
                \E e \in Entries, t \in TypeSet \cup {NoType} : want = Form(e, t) /\ post = Posted(want)
           /\ kind = "change" =>
                \E e \in Entries, t \in TypeSet \cup {NoType} :
                  want = Form(e, t) /\ post = <<"god_id", id>> \o Posted(want)
           /\ kind = "add_type" => types + Cardinality(TypesAsked) < Len(TypeIds)
<1>1. Screen(page[b]) /\ Typed(b)
  BY DEF GInv, Typed
<1>2. CASE Follow(b)
  BY <1>2 DEF Follow, Kinds
<1>3. CASE Pick(b)
  BY <1>1, <1>3 DEF Pick, Kinds, Screen
<1>4. CASE SubmitAdd(b)
  <2>1. PICK e \in Entries, t \in TypeSet \cup {NoType} :
          Starts(b, "add", None, Posted(Form(e, t)), Form(e, t))
    BY <1>1, <1>4 DEF SubmitAdd, Form, Screen
  <2> QED
    BY <2>1 DEF Kinds
<1>5. CASE SubmitType(b)
  <2>1. types + Cardinality(TypesAsked) < Len(TypeIds) /\ Starts(b, "add_type", None, <<>>, NoRow)
    BY <1>5 DEF SubmitType, Asking, TypesAsked
  <2> QED
    BY <2>1 DEF Kinds
<1>6. CASE SubmitChange(b)
  <2>1. PICK e \in Entries, t \in TypeSet \cup {NoType} :
          Starts(b, "change", page[b].id, <<"god_id", page[b].id>> \o Posted(Form(e, t)), Form(e, t))
    BY <1>1, <1>6 DEF SubmitChange, Form, Screen
  <2>2. page[b].id \in Elems(GoodsIds)
    BY <1>1, <1>6, <2>1 DEF SubmitChange, Starts, Typed
  <2> QED
    BY <2>1, <2>2 DEF Kinds
<1>7. CASE SubmitFind(b)
  <2>1. \E post, want : Starts(b, "found", None, post, want)
    BY <1>7 DEF SubmitFind
  <2> QED
    BY <2>1 DEF Kinds
<1> QED
  BY <1>2, <1>3, <1>4, <1>5, <1>6, <1>7 DEF User

(* A user who follows a link or sends a form keeps it.                     *)
LEMMA UserKeepsGoods == ASSUME GInv, NEW b \in Browsers, User(b) PROVE GInv'
<1>1. PICK kind, id, post, want :
        /\ kind \in Kinds /\ Starts(b, kind, id, post, want)
        /\ kind \in {"del", "change_show", "change"} => id \in Elems(GoodsIds)
        /\ kind = "add" =>
             \E e \in Entries, t \in TypeSet \cup {NoType} : want = Form(e, t) /\ post = Posted(want)
        /\ kind = "change" =>
             \E e \in Entries, t \in TypeSet \cup {NoType} :
               want = Form(e, t) /\ post = <<"god_id", id>> \o Posted(want)
        /\ kind = "add_type" => types + Cardinality(TypesAsked) < Len(TypeIds)
  BY UserAsks
<1>2. /\ prog[b].kind = "none" /\ UNCHANGED <<goods, given, types, page, objs, touched>>
      /\ prog' = [prog EXCEPT ![b] = [kind |-> kind, pc |-> "connect", id |-> id, post |-> post,
                                      want |-> want, page |-> Page(kind)]]
  BY <1>1 DEF Starts
<1>3. DOMAIN prog = Browsers /\ DOMAIN objs = Browsers /\ Typed(b) /\ Held(b) /\ FInv /\ Tables
  BY DEF GInv, FInv, Shape
<1>4. /\ prog'[b].kind = kind /\ prog'[b].pc = "connect" /\ prog'[b].id = id /\ prog'[b].post = post
      /\ prog'[b].want = want /\ prog'[b].page = Page(kind)
      /\ \A x \in Browsers : x # b => prog'[x] = prog[x]
  BY <1>2, <1>3
<1>5. kind # "none"
  BY <1>1 DEF Kinds
<1>6. FInv'
  BY <1>1, <1>3, <1>5, StartsKeep
<1>7. Screen(Page(kind))' /\ Screen(page[b])'
  <2>1. NoRow \in Row
    BY DEF NoRow, Row, Text
  <2> QED
    BY <1>2, <1>3, <2>1 DEF Screen, Page, Typed, TypeSet
<1>8. Typed(b)'
  BY <1>1, <1>2, <1>3, <1>4, <1>5, <1>7 DEF Typed, Kinds
<1>9. Asked(b)'
  BY <1>1, <1>2, <1>4 DEF Asked, TypeSet
<1>10. Held(b)'
  BY <1>2, <1>3, <1>4, <1>5 DEF Held
<1>11. Tables'
  <2>1. CASE kind = "add_type"
    <3>1. TypesAsked' = TypesAsked \cup {b} /\ b \notin TypesAsked
      BY <1>2, <1>4, <2>1 DEF TypesAsked
    <3>2. IsFiniteSet(TypesAsked)
      BY BoundsAssumption, FS_Subset DEF TypesAsked
    <3>3. Cardinality(TypesAsked') = Cardinality(TypesAsked) + 1 /\ Cardinality(TypesAsked) \in Nat
      BY <3>1, <3>2, FS_AddElement, FS_CardinalityType
    <3>4. types \in Nat /\ Len(TypeIds) \in Nat
      BY <1>3, BoundsAssumption, IdsAssumption DEF Tables
    <3>5. types' + Cardinality(TypesAsked') <= Len(TypeIds)
      BY <1>1, <1>2, <2>1, <3>3, <3>4
    <3> QED
      BY <1>2, <1>3, <3>5 DEF Tables
  <2>2. CASE kind # "add_type"
    <3>1. TypesAsked' \subseteq TypesAsked
      BY <1>2, <1>4, <2>2 DEF TypesAsked
    <3> QED
      BY <1>2, <1>3, <3>1, TablesStay
  <2> QED
    BY <2>1, <2>2
<1>12. \A x \in Browsers : touched'[x] \subseteq Elems(GoodsIds)
  BY <1>2 DEF GInv, Typed
<1>13. types \in Nat
  BY <1>3, BoundsAssumption, IdsAssumption DEF Tables
<1> QED
  BY <1>2, <1>3, <1>4, <1>6, <1>8, <1>9, <1>10, <1>11, <1>12, <1>13, GoodsOthers
-----------------------------------------------------------------------------
(* Every method leaves an object of the class.                             *)
LEMMA StoreIsObject == ASSUME NEW o \in Object, NEW rows PROVE Store(o, rows) \in Object
<1>1. o.made + 1 \in Nat /\ o.allocated \cup {o.made + 1} \in SUBSET Nat /\ NoResult \in Nat
  BY DEF Object, NoResult
<1> QED
  BY <1>1 DEF Store, Object

(* What the methods of sql_connecter leave is an object of it:             *)
(* mysql_free_result(),                                                    *)
LEMMA FreeIsObject == ASSUME NEW o \in Object PROVE Free(o) \in Object
<1>1. o.allocated \ {o.res} \in SUBSET Nat
  BY DEF Object
<1> QED
  BY <1>1 DEF Free, Object

(* close_result(),                                                         *)
LEMMA CloseResultIsObject == ASSUME NEW o \in Object PROVE CloseResult(o) \in Object
<1>1. Free(o) \in Object
  BY FreeIsObject
<1>2. [Free(o) EXCEPT !.res = NoResult] \in Object
  BY <1>1 DEF Object, NoResult
<1> QED
  BY <1>2 DEF CloseResult

(* exe_update(),                                                           *)
LEMMA ExeUpdateIsObject == ASSUME NEW o \in Object, NEW a PROVE ExeUpdate(o, a).obj \in Object
<1> DEFINE before == CloseResult(Store(o, FALSE))
           after  == Store(before, a.rows)
<1>1. before \in Object /\ after \in Object /\ Free(after) \in Object
  BY StoreIsObject, CloseResultIsObject, FreeIsObject
<1>2. ExeUpdate(o, a).obj \in {before, after, Free(after)}
  BY DEF ExeUpdate
<1> QED
  BY <1>1, <1>2

(* and the selects.                                                        *)
LEMMA ExeSelectIsObject == ASSUME NEW o \in Object, NEW a PROVE ExeSelect(o, a) \in Object
<1>1. Store(o, TRUE) \in Object /\ Store(o, FALSE) \in Object
  BY StoreIsObject
<1>2. [Store(o, FALSE) EXCEPT !.fault = "null"] \in Object
  BY <1>1 DEF Object
<1> QED
  BY <1>1, <1>2 DEF ExeSelect

(* What is left without the innermost.                                     *)
LEMMA ButLast ==
  ASSUME NEW s \in Seq(Object), Len(s) \in Nat \ {0}
  PROVE  /\ SubSeq(s, 1, Len(s) - 1) \in Seq(Object) /\ Len(SubSeq(s, 1, Len(s) - 1)) = Len(s) - 1
         /\ \A i \in 1..(Len(s) - 1) : SubSeq(s, 1, Len(s) - 1)[i] = s[i]
<1> DEFINE m == Len(s) - 1
<1>1. m \in Nat /\ 1 \in Int /\ \A i \in 1..m : s[i] \in Object
  OBVIOUS
<1> HIDE DEF m
<1>2. /\ SubSeq(s, 1, m) \in Seq(Object) /\ Len(SubSeq(s, 1, m)) = IF 1 <= m THEN m - 1 + 1 ELSE 0
      /\ \A i \in 1..(m - 1 + 1) : SubSeq(s, 1, m)[i] = s[1 + i - 1]
  BY <1>1, SubSeqProperties
<1>3. Len(SubSeq(s, 1, m)) = m /\ \A i \in 1..m : SubSeq(s, 1, m)[i] = s[i]
  BY <1>1, <1>2
<1> QED
  BY <1>2, <1>3 DEF m

(* The innermost object of a program at its statement, and what replaces   *)
(* it.                                                                     *)
LEMMA TopIsObject ==
  ASSUME GInv, NEW b \in Browsers, prog[b].pc \in {"run", "row"}
  PROVE  /\ Top(b) \in Object
         /\ \A o \in Object : SetTop(b, o) =>
              /\ objs'[b] \in Seq(Object) /\ Len(objs'[b]) = Len(objs[b]) /\ DOMAIN objs' = Browsers
              /\ objs'[b][Len(objs'[b])] = o
              /\ \A i \in 1..(Len(objs[b]) - 1) : objs'[b][i] = objs[b][i]
              /\ \A x \in Browsers : x # b => objs'[x] = objs[x]
<1>1. objs[b] \in Seq(Object) /\ Len(objs[b]) \in {1, 2} /\ DOMAIN objs = Browsers
  BY DEF GInv, Typed, Held
<1>2. Top(b) \in Object
  <2>1. Len(objs[b]) \in 1..Len(objs[b])
    BY <1>1, SMTT(30)
  <2> QED
    BY <1>1, <2>1 DEF Top
<1>3. ASSUME NEW o \in Object, SetTop(b, o)
      PROVE  /\ objs'[b] \in Seq(Object) /\ Len(objs'[b]) = Len(objs[b]) /\ DOMAIN objs' = Browsers
             /\ objs'[b][Len(objs'[b])] = o
             /\ \A i \in 1..(Len(objs[b]) - 1) : objs'[b][i] = objs[b][i]
             /\ \A x \in Browsers : x # b => objs'[x] = objs[x]
  <2> DEFINE rest == SubSeq(objs[b], 1, Len(objs[b]) - 1)
  <2>1. /\ rest \in Seq(Object) /\ Len(rest) = Len(objs[b]) - 1
        /\ \A i \in 1..(Len(objs[b]) - 1) : rest[i] = objs[b][i]
    <3>1. Len(objs[b]) = 1 \/ Len(objs[b]) = 2
      BY <1>1
    <3>2. Len(objs[b]) \in Nat \ {0}
      BY <3>1
    <3> QED
      BY <1>1, <3>2, ButLast DEF rest
  <2>2. objs' = [objs EXCEPT ![b] = Append(rest, o)]
    BY <1>3 DEF SetTop
  <2> HIDE DEF rest
  <2>3. objs'[b] = Append(rest, o) /\ DOMAIN objs' = Browsers /\ \A x \in Browsers : x # b => objs'[x] = objs[x]
    BY <1>1, <2>2
  <2> QED
    BY <1>1, <1>3, <2>1, <2>3
<1> QED
  BY <1>2, <1>3

(* The end of a statement that changes the tables.                         *)
LEMMA UpdatedGoods ==
  ASSUME GInv, NEW b \in Browsers, prog[b].pc = "run", prog[b].kind \notin {"none", "change_show"},
         NEW ok, NEW n, Updated(b, ok, n),
         UNCHANGED page, FInv', Tables', types <= types',
         \A x \in Browsers : touched'[x] \subseteq Elems(GoodsIds)
  PROVE  GInv'
<1>1. DOMAIN prog = Browsers /\ DOMAIN prog[b] = ProgFields /\ Typed(b) /\ Asked(b) /\ Held(b) /\ Tables
  BY DEF GInv, FInv, Shape
<1>2. /\ prog'[b].pc = "exit" /\ prog'[b].kind = prog[b].kind /\ prog'[b].id = prog[b].id
      /\ prog'[b].post = prog[b].post /\ prog'[b].want = prog[b].want
      /\ prog'[b].page.ids = {} /\ prog'[b].page.row = NoRow /\ prog'[b].page.types = {}
      /\ \A x \in Browsers : x # b => prog'[x] = prog[x]
  BY <1>1 DEF Updated, ProgFields, Page
<1>3. /\ objs'[b] \in Seq(Object) /\ Len(objs'[b]) = Len(objs[b]) /\ DOMAIN objs' = Browsers
      /\ \A x \in Browsers : x # b => objs'[x] = objs[x]
  <2>1. \E o \in Object : SetTop(b, o)
    BY TopIsObject, ExeUpdateIsObject DEF Updated
  <2> QED
    BY <2>1, TopIsObject
<1>4. TypeSet \subseteq TypeSet'
  BY <1>1, TypesGrow, BoundsAssumption, IdsAssumption DEF GInv, Tables
<1>5. Screen(prog[b].page)' /\ Screen(page[b])'
  <2>1. NoRow \in Row
    BY DEF NoRow, Row, Text
  <2> QED
    BY <1>1, <1>2, <1>4, <2>1 DEF Screen, Typed
<1>6. Typed(b)'
  BY <1>1, <1>2, <1>3, <1>5 DEF Typed
<1>7. Asked(b)'
  BY <1>1, <1>2, <1>4 DEF Asked
<1>8. Held(b)'
  BY <1>1, <1>2, <1>3 DEF Held
<1> QED
  BY <1>2, <1>3, <1>6, <1>7, <1>8, GoodsOthers

(* A query, which leaves the tables alone.                                 *)
LEMMA SelectedGoods ==
  ASSUME GInv, NEW b \in Browsers, prog[b].pc \in {"run", "row"}, prog[b].kind \in Kinds \ {"add_type"},
         NEW ok, NEW p, NEW next \in {"exit", "row"}, Selected(b, ok, p, next),
         next = "row" => prog[b].kind = "change_show",
         next = "exit" /\ prog[b].kind = "change_show" => p.id \in Elems(GoodsIds),
         Screen(p), UNCHANGED <<goods, given, types, page>>, FInv',
         \A x \in Browsers : touched'[x] \subseteq Elems(GoodsIds)
  PROVE  GInv'
<1>1. DOMAIN prog = Browsers /\ DOMAIN prog[b] = ProgFields /\ Typed(b) /\ Asked(b) /\ Held(b) /\ Tables
  BY DEF GInv, FInv, Shape
<1>2. /\ prog'[b].pc = next /\ prog'[b].kind = prog[b].kind /\ prog'[b].id = prog[b].id
      /\ prog'[b].post = prog[b].post /\ prog'[b].want = prog[b].want /\ prog'[b].page = p
      /\ \A x \in Browsers : x # b => prog'[x] = prog[x]
  BY <1>1 DEF Selected, ProgFields
<1>3. /\ objs'[b] \in Seq(Object) /\ Len(objs'[b]) = Len(objs[b]) /\ DOMAIN objs' = Browsers
      /\ \A x \in Browsers : x # b => objs'[x] = objs[x]
  <2>1. \E o \in Object : SetTop(b, o)
    BY TopIsObject, ExeSelectIsObject DEF Selected
  <2> QED
    BY <2>1, TopIsObject
<1>4. Typed(b)'
  BY <1>1, <1>2, <1>3 DEF Typed, Screen, TypeSet, Kinds
<1>5. Asked(b)'
  BY <1>1, <1>2 DEF Asked, TypeSet
<1>6. Held(b)'
  BY <1>1, <1>2, <1>3 DEF Held
<1>7. Tables'
  <2>1. TypesAsked' \subseteq TypesAsked
    BY <1>2 DEF TypesAsked
  <2> QED
    BY <1>1, <2>1, TablesStay
<1>8. types \in Nat
  BY <1>1, BoundsAssumption, IdsAssumption DEF Tables
<1> QED
  BY <1>2, <1>3, <1>4, <1>5, <1>6, <1>7, <1>8, GoodsOthers

(* The end of a program that crashed or has shown its page.                *)
LEMMA EndedGoods ==
  ASSUME GInv, NEW b \in Browsers, UNCHANGED <<goods, given, types, touched>>,
         objs'[b] = <<>>, DOMAIN objs' = Browsers, \A x \in Browsers : x # b => objs'[x] = objs[x],
         prog' = [prog EXCEPT ![b] = Idle],
         NEW p, page' = [page EXCEPT ![b] = p], Screen(p),
         p.at = "change_show" => p.id \in Elems(GoodsIds), FInv'
  PROVE  GInv'
<1>1. DOMAIN prog = Browsers /\ DOMAIN page = Browsers /\ DOMAIN objs = Browsers /\ Typed(b) /\ Tables
  BY DEF GInv, FInv, Shape
<1>2. /\ prog'[b] = Idle /\ page'[b] = p /\ objs'[b] = <<>> /\ DOMAIN objs' = Browsers
      /\ \A x \in Browsers : x # b => prog'[x] = prog[x] /\ page'[x] = page[x] /\ objs'[x] = objs[x]
  BY <1>1
<1>3. Screen(Page("index"))'
  BY DEF Screen, Page, NoRow, Row, Text
<1>4. Screen(p)'
  BY DEF Screen, TypeSet
<1>5. Typed(b)'
  BY <1>1, <1>2, <1>3, <1>4 DEF Typed, Idle, Kinds
<1>6. Asked(b)' /\ Held(b)'
  BY <1>2 DEF Asked, Held, Idle
<1>7. Tables'
  <2>1. TypesAsked' \subseteq TypesAsked
    BY <1>2 DEF TypesAsked, Idle
  <2> QED
    BY <1>1, <2>1, TablesStay
<1>8. types \in Nat /\ \A x \in Browsers : touched'[x] \subseteq Elems(GoodsIds)
  BY <1>1, BoundsAssumption, IdsAssumption DEF GInv, Typed, Tables
<1> QED
  BY <1>2, <1>5, <1>6, <1>7, <1>8, GoodsOthers

(* The words of a program that stores what was entered.                    *)
LEMMA StoredRows ==
  ASSUME GInv, NEW b \in Browsers
  PROVE  /\ prog[b].kind = "add" => RowsOf(Fields(prog[b].post, 0)) \subseteq Row
         /\ prog[b].kind = "change" =>
              /\ RowsOf(Fields(prog[b].post, 1)) \subseteq Row
              /\ Field(prog[b].post, 1, Garbage) = prog[b].id
<1>1. Asked(b) /\ Typed(b) /\ types \in 0..Len(TypeIds)
  BY BoundsAssumption, IdsAssumption DEF GInv, Tables
<1>2. CASE prog[b].kind = "add"
  <2>1. prog[b].post \in Seq(Text)
    BY <1>1, <1>2, FormIsRow, PostedIsText DEF Asked
  <2> QED
    BY <1>2, <2>1, RowsAreRows
<1>3. CASE prog[b].kind = "change"
  <2>1. prog[b].id \in Text
    BY <1>1, <1>3 DEF Typed, Text, Words
  <2>2. PICK r \in Row : prog[b].post = <<"god_id", prog[b].id>> \o Posted(r)
    BY <1>1, <1>3, FormIsRow DEF Asked
  <2>3. prog[b].post \in Seq(Text) /\ Field(prog[b].post, 1, Garbage) = prog[b].id
    BY <2>1, <2>2, IdField
  <2> QED
    BY <1>3, <2>3, RowsAreRows
<1> QED
  BY <1>2, <1>3

(* The constructor and begin_connect() keep it, whether or not the         *)
(* database accepts.                                                       *)
LEMMA ConnectKeepsGoods == ASSUME GInv, NEW b \in Browsers, Connect(b), FInv' PROVE GInv'
<1>1. DOMAIN prog = Browsers /\ DOMAIN prog[b] = ProgFields /\ Typed(b) /\ Asked(b) /\ Held(b) /\ Tables /\ DOMAIN objs = Browsers
  BY DEF GInv, FInv, Shape
<1>2. PICK o \in Object : objs' = [objs EXCEPT ![b] = Append(@, o)]
  <2>1. \A yes : BeginConnect(NewObject, yes) \in Object
    BY DEF BeginConnect, NewObject, Object, NoResult
  <2> QED
    BY <2>1 DEF Connect
<1>3. /\ prog[b].pc = "connect" /\ UNCHANGED <<goods, given, types, page, touched>>
      /\ prog' = [prog EXCEPT ![b].pc = IF prog[b].kind = "change" /\ objs[b] = <<>> THEN "connect" ELSE "run"]
  BY DEF Connect
<1>4. /\ prog'[b].kind = prog[b].kind /\ prog'[b].id = prog[b].id /\ prog'[b].page = prog[b].page
      /\ prog'[b].post = prog[b].post /\ prog'[b].want = prog[b].want
      /\ prog'[b].pc = (IF prog[b].kind = "change" /\ objs[b] = <<>> THEN "connect" ELSE "run")
      /\ \A x \in Browsers : x # b => prog'[x] = prog[x]
  BY <1>1, <1>3 DEF ProgFields
<1>5. /\ objs'[b] \in Seq(Object) /\ Len(objs'[b]) = Len(objs[b]) + 1 /\ DOMAIN objs' = Browsers
      /\ \A x \in Browsers : x # b => objs'[x] = objs[x]
  BY <1>1, <1>2 DEF Typed
<1>6. Typed(b)'
  BY <1>1, <1>3, <1>4, <1>5 DEF Typed, Screen, TypeSet
<1>7. Asked(b)'
  BY <1>1, <1>3, <1>4 DEF Asked, TypeSet
<1>8. Held(b)'
  <2>1. (objs[b] = <<>> <=> Len(objs[b]) = 0) /\ Len(objs[b]) \in Nat
    BY <1>1 DEF Typed
  <2>2. prog[b].kind # "none"
    BY <1>3 DEF GInv, FInv, InWork
  <2>3. CASE prog[b].kind = "change"
    <3>1. Len(objs[b]) \in {0, 1}
      BY <1>1, <1>3, <2>1, <2>3 DEF Held
    <3>2. CASE Len(objs[b]) = 0
      <4>1. Len(objs'[b]) = 1 /\ prog'[b].pc = "connect" /\ prog'[b].kind = "change"
        BY <1>4, <1>5, <2>1, <2>3, <3>2
      <4> QED
        BY <4>1 DEF Held
    <3>3. CASE Len(objs[b]) = 1
      <4>1. Len(objs'[b]) = 2 /\ prog'[b].pc = "run" /\ prog'[b].kind = "change"
        BY <1>4, <1>5, <2>1, <2>3, <3>3
      <4> QED
        BY <4>1 DEF Held
    <3> QED
      BY <3>1, <3>2, <3>3
  <2>4. CASE prog[b].kind # "change"
    <3>1. prog'[b].pc = "run" /\ Len(objs'[b]) = 1 /\ prog'[b].kind \notin {"none", "change"}
      BY <1>1, <1>3, <1>4, <1>5, <2>2, <2>4 DEF Held
    <3> QED
      BY <3>1 DEF Held
  <2> QED
    BY <2>3, <2>4
<1>9. Tables'
  <2>1. TypesAsked' \subseteq TypesAsked
    BY <1>3, <1>4 DEF TypesAsked
  <2> QED
    BY <1>1, <1>3, <2>1, TablesStay
<1>10. types \in Nat /\ \A x \in Browsers : touched'[x] \subseteq Elems(GoodsIds)
  BY <1>1, <1>3, BoundsAssumption, IdsAssumption DEF GInv, Typed, Tables
<1> QED
  BY <1>3, <1>4, <1>5, <1>6, <1>7, <1>8, <1>9, <1>10, GoodsOthers

(* The four statements that change a table, done or not.                   *)
LEMMA StatementsKeepGoods ==
  ASSUME GInv, NEW b \in Browsers, AddGoods(b) \/ AddType(b) \/ DelGoods(b) \/ ChangeGoods(b), FInv'
  PROVE  GInv'
<1>1. Typed(b) /\ Tables /\ types \in Nat /\ given \in Nat /\ \A x \in Browsers : touched[x] \subseteq Elems(GoodsIds)
  BY BoundsAssumption, IdsAssumption DEF GInv, Tables, Typed
<1>2. prog[b].pc = "run" /\ prog[b].kind \in {"add", "add_type", "del", "change"} /\ UNCHANGED page
  BY DEF AddGoods, AddType, DelGoods, ChangeGoods, Running
<1>3. ASSUME NEW ok, NEW n, Updated(b, ok, n)
      PROVE  TypesAsked' = TypesAsked \ {b} /\ \A x \in Browsers : x # b => prog'[x] = prog[x]
  <2>1. /\ DOMAIN prog = Browsers /\ prog'[b].pc = "exit"
        /\ \A x \in Browsers : x # b => prog'[x] = prog[x]
    BY <1>3 DEF Updated, GInv, FInv, Shape, ProgFields
  <2> QED
    BY <2>1 DEF TypesAsked
<1>4. ASSUME NEW ok, NEW n, Updated(b, ok, n), DOMAIN goods' \subseteq {GoodsIds[i] : i \in 1..given'},
             \A i \in DOMAIN goods' : goods'[i] \in Row, given' \in 0..Len(GoodsIds), types' = types,
             \A x \in Browsers : touched'[x] \subseteq Elems(GoodsIds)
      PROVE  GInv'
  <2>1. TypesAsked' \subseteq TypesAsked /\ IsFiniteSet(TypesAsked)
    BY <1>3, <1>4, BoundsAssumption, FS_Subset DEF TypesAsked
  <2>2. /\ Cardinality(TypesAsked') <= Cardinality(TypesAsked)
        /\ Cardinality(TypesAsked') \in Nat /\ Cardinality(TypesAsked) \in Nat
    BY <2>1, FS_Subset, FS_CardinalityType
  <2>3. types' + Cardinality(TypesAsked') <= Len(TypeIds)
    BY <1>1, <1>4, <2>2, IdsAssumption DEF Tables
  <2>4. Tables'
    BY <1>1, <1>4, <2>3 DEF Tables
  <2> QED
    BY <1>1, <1>2, <1>4, <2>4, UpdatedGoods
<1>5. ASSUME NotUpdated(b) PROVE GInv'
  BY <1>1, <1>4, <1>5 DEF NotUpdated, Tables
<1>6. CASE AddGoods(b) /\ ~NotUpdated(b)
  <2>1. PICK r \in RowsOf(Fields(prog[b].post, 0)) :
          goods' = [i \in DOMAIN goods \cup {GoodsIds[given + 1]} |-> IF i \in DOMAIN goods THEN goods[i] ELSE r]
    BY <1>6 DEF AddGoods
  <2>2. given < Len(GoodsIds) /\ given' = given + 1 /\ UNCHANGED <<types, touched>> /\ Updated(b, TRUE, 1)
    BY <1>6 DEF AddGoods
  <2>3. r \in Row
    BY <1>6, <2>1, StoredRows DEF AddGoods, Running
  <2>4. DOMAIN goods' \subseteq {GoodsIds[i] : i \in 1..given'} /\ \A i \in DOMAIN goods' : goods'[i] \in Row
    BY <1>1, <2>1, <2>2, <2>3 DEF Tables
  <2>5. given' \in 0..Len(GoodsIds)
    BY <1>1, <2>2, IdsAssumption
  <2> QED
    BY <1>1, <1>4, <2>2, <2>4, <2>5
<1>7. CASE DelGoods(b) /\ ~NotUpdated(b)
  <2>1. /\ goods' = [i \in DOMAIN goods \ Found(prog[b].id) |-> goods[i]]
        /\ Touch(b, {prog[b].id}) /\ UNCHANGED <<given, types>> /\ \E n : Updated(b, TRUE, n)
    BY <1>7 DEF DelGoods
  <2>2. prog[b].id \in Elems(GoodsIds)
    BY <1>1, <1>7 DEF DelGoods, Running, Typed
  <2>3. \A x \in Browsers : touched'[x] \subseteq Elems(GoodsIds)
    BY <1>1, <2>1, <2>2 DEF Touch
  <2> QED
    BY <1>1, <1>4, <2>1, <2>3 DEF Tables
<1>8. CASE ChangeGoods(b) /\ ~NotUpdated(b)
  <2> DEFINE id == Field(prog[b].post, 1, Garbage)
  <2>1. PICK r \in RowsOf(Fields(prog[b].post, 1)) : goods' = WriteRow(Found(id), id, r)
    BY <1>8 DEF ChangeGoods
  <2>2. Touch(b, {id}) /\ UNCHANGED <<given, types>> /\ \E n : Updated(b, TRUE, n)
    BY <1>8 DEF ChangeGoods
  <2>3. prog[b].kind = "change"
    BY <1>8 DEF ChangeGoods, Running
  <2>4. r \in Row /\ id \in Elems(GoodsIds)
    BY <1>1, <2>1, <2>3, StoredRows DEF Typed
  <2>5. \A x \in Browsers : touched'[x] \subseteq Elems(GoodsIds)
    BY <1>1, <2>2, <2>4 DEF Touch
  <2>6. DOMAIN goods' \subseteq DOMAIN goods /\ \A i \in DOMAIN goods' : goods'[i] \in Row
    BY <1>1, <2>1, <2>4 DEF WriteRow, Tables
  <2> QED
    BY <1>1, <1>4, <2>2, <2>5, <2>6 DEF Tables
<1>9. CASE AddType(b) /\ ~NotUpdated(b)
  <2>1. types' = types + 1 /\ Updated(b, TRUE, 1) /\ UNCHANGED <<goods, given, touched>>
    BY <1>9 DEF AddType
  <2>2. b \in TypesAsked /\ IsFiniteSet(TypesAsked)
    BY <1>2, <1>9, BoundsAssumption, FS_Subset DEF TypesAsked, AddType, Running
  <2>3. Cardinality(TypesAsked') = Cardinality(TypesAsked) - 1 /\ Cardinality(TypesAsked) \in Nat
    BY <1>3, <2>1, <2>2, FS_RemoveElement, FS_CardinalityType
  <2>4. types' + Cardinality(TypesAsked') <= Len(TypeIds)
    BY <1>1, <2>1, <2>3, IdsAssumption DEF Tables
  <2>5. FirstTypes \in Nat /\ FirstTypes <= types /\ Len(TypeIds) \in Nat
    BY <1>1, BoundsAssumption, IdsAssumption DEF Tables
  <2>8. Cardinality(TypesAsked') \in Nat
    BY <1>3, <2>1, <2>2, FS_RemoveElement, FS_CardinalityType
  <2>6. types' \in FirstTypes..Len(TypeIds)
    BY <1>1, <2>1, <2>4, <2>5, <2>8
  <2>7. Tables'
    BY <1>1, <2>1, <2>4, <2>6 DEF Tables
  <2>9. types <= types' /\ \A x \in Browsers : touched'[x] \subseteq Elems(GoodsIds)
    BY <1>1, <2>1
  <2>10. prog[b].kind \notin {"none", "change_show"}
    BY <1>2
  <2> QED
    BY <1>2, <2>1, <2>7, <2>9, <2>10, UpdatedGoods
<1> QED
  BY <1>5, <1>6, <1>7, <1>8, <1>9

(* Every step of a program keeps it.                                       *)
LEMMA ProgramKeepsGoods == ASSUME GInv, NEW b \in Browsers, Program(b), FInv' PROVE GInv'
<1>1. /\ Typed(b) /\ Held(b) /\ Tables /\ Screen(prog[b].page) /\ InWork(b)
      /\ DOMAIN prog = Browsers /\ DOMAIN prog[b] = ProgFields /\ DOMAIN prog[b].page = PageFields
      /\ DOMAIN touched = Browsers
      /\ \A x \in Browsers : touched[x] \subseteq Elems(GoodsIds)
  BY DEF GInv, Typed, FInv, Shape
<1>2. CASE Connect(b)
  BY <1>2, ConnectKeepsGoods
<1>3. CASE AddGoods(b) \/ AddType(b) \/ DelGoods(b) \/ ChangeGoods(b)
  BY <1>3, StatementsKeepGoods
<1>4. CASE SelectTypes(b)
  <2> DEFINE next == IF prog[b].kind = "change_show" THEN "row" ELSE "exit"
  <2>1. /\ prog[b].pc = "run" /\ prog[b].kind \in {"add_show", "find_show", "change_show"}
        /\ UNCHANGED <<goods, given, types, page, touched>>
    BY <1>4 DEF SelectTypes, Running
  <2>2. PICK p, ok : Selected(b, ok, p, next) /\ Screen(p)
    <3>1. Screen([prog[b].page EXCEPT !.types = TypeMap])
      BY <1>1 DEF Screen, TypeMap, PageFields
    <3> QED
      BY <1>1, <1>4, <3>1 DEF SelectTypes
  <2> QED
    BY <1>1, <2>1, <2>2, SelectedGoods DEF Kinds
<1>5. CASE SelectGoods(b)
  <2>1. prog[b].pc = "run" /\ prog[b].kind \in {"list", "found"} /\ UNCHANGED <<goods, given, types, page>>
    BY <1>5 DEF SelectGoods, Running
  <2>2. Listed \subseteq Elems(GoodsIds)
    BY <1>1, IdsAssumption DEF Listed, Tables, Elems
  <2>3. PICK p, ok : Selected(b, ok, p, "exit") /\ Screen(p)
    <3>1. \A ids \in SUBSET Listed : Screen([Page("list") EXCEPT !.ids = ids])
      BY <2>2 DEF Screen, Page, NoRow, Row, Text
    <3>2. Screen(Page("list"))
      BY DEF Screen, Page, NoRow, Row, Text
    <3>3. /\ Listed \in SUBSET Listed
          /\ {i \in Listed : Matches(i, prog[b].post)} \in SUBSET Listed
      OBVIOUS
    <3> QED
      BY <1>5, <3>1, <3>2, <3>3 DEF SelectGoods
  <2>4. \A x \in Browsers : touched'[x] \subseteq Elems(GoodsIds)
    BY <1>1, <1>5 DEF SelectGoods
  <2> QED
    BY <2>1, <2>3, <2>4, SelectedGoods DEF Kinds
<1>6. ASSUME Crash(b) PROVE GInv'
  <2>1. Screen(Page("broken")) /\ Page("broken").at = "broken"
    BY DEF Screen, Page, NoRow, Row, Text
  <2> QED
    BY <1>6, <2>1, EndedGoods DEF Crash, GInv
<1>7. CASE SelectRow(b)
  <2>1. CASE Crash(b)
    BY <2>1, <1>6
  <2>2. CASE ~Crash(b)
    <3> DEFINE id == prog[b].id
               p  == [prog[b].page EXCEPT !.id = id, !.row = goods[id]]
    <3>1. /\ prog[b].pc = "row" /\ id \in DOMAIN goods /\ Selected(b, TRUE, p, "exit")
          /\ touched' = [touched EXCEPT ![b] = {}] /\ UNCHANGED <<goods, given, types, page>>
      BY <1>7, <2>2 DEF SelectRow
    <3>2. prog[b].kind = "change_show" /\ id \in Elems(GoodsIds)
      BY <1>1, <3>1 DEF Typed
    <3>3. Screen(p) /\ p.id = id
      BY <1>1, <3>1 DEF Screen, PageFields, Tables
    <3>4. \A x \in Browsers : touched'[x] \subseteq Elems(GoodsIds)
      BY <1>1, <3>1
    <3> HIDE DEF p
    <3> QED
      BY <3>1, <3>2, <3>3, <3>4, SelectedGoods DEF Kinds
  <2> QED
    BY <2>1, <2>2
<1>8. CASE StoreFails(b)
  BY <1>6, <1>8 DEF StoreFails
<1>9. CASE Release(b)
  <2>1. /\ UNCHANGED <<goods, given, types, page, prog, touched>> /\ prog[b].pc = "exit"
        /\ objs' = [objs EXCEPT ![b] = SubSeq(@, 1, Len(@) - 1)] /\ objs[b] # <<>>
    BY <1>9 DEF Release
  <2>2. objs[b] \in Seq(Object) /\ DOMAIN objs = Browsers
    BY DEF GInv, Typed
  <2>3. SubSeq(objs[b], 1, Len(objs[b]) - 1) \in Seq(Object)
        /\ Len(SubSeq(objs[b], 1, Len(objs[b]) - 1)) = Len(objs[b]) - 1
    <3>1. Len(objs[b]) \in Nat \ {0}
      BY <2>1, <2>2
    <3> QED
      BY <2>2, <3>1, ButLast
  <2>4. /\ objs'[b] \in Seq(Object) /\ Len(objs'[b]) = Len(objs[b]) - 1 /\ Len(objs[b]) \in Nat \ {0}
        /\ DOMAIN objs' = Browsers /\ \A x \in Browsers : x # b => objs'[x] = objs[x]
    BY <2>1, <2>2, <2>3
  <2>5. Typed(b)' /\ Asked(b)'
    <3>1. Typed(b)'
      BY <1>1, <2>1, <2>4 DEF Typed, Screen, TypeSet
    <3>2. Asked(b)'
      BY <2>1 DEF GInv, Asked, TypeSet
    <3> QED
      BY <3>1, <3>2
  <2>6. prog[b].kind # "none"
    BY <1>1, <2>1 DEF InWork
  <2>7. Held(b)'
    BY <1>1, <2>1, <2>4, <2>6 DEF Held
  <2>8. Tables'
    BY <1>1, <2>1, TablesStay DEF TypesAsked
  <2>9. types \in Nat
    BY <1>1, BoundsAssumption, IdsAssumption DEF Tables
  <2> QED
    BY <1>1, <2>1, <2>4, <2>5, <2>7, <2>8, <2>9, GoodsOthers
<1>10. CASE Show(b)
  <2>1. /\ UNCHANGED <<goods, given, types, objs, touched>> /\ page' = [page EXCEPT ![b] = prog[b].page]
        /\ prog' = [prog EXCEPT ![b] = Idle] /\ prog[b].pc = "exit" /\ objs[b] = <<>>
    BY <1>10 DEF Show
  <2>2. DOMAIN objs' = Browsers /\ objs'[b] = <<>> /\ \A x \in Browsers : x # b => objs'[x] = objs[x]
    BY <2>1 DEF GInv
  <2>3. prog[b].page.at = "change_show" => prog[b].page.id \in Elems(GoodsIds)
    BY <1>1, <2>1 DEF InWork, Typed
  <2> QED
    BY <1>1, <2>1, <2>2, <2>3, EndedGoods
<1> QED
  BY <1>2, <1>3, <1>4, <1>5, <1>7, <1>8, <1>9, <1>10 DEF Program

(* And so does every step.                                                 *)
LEMMA GoodsNext == GInv /\ [Next]_vars => GInv'
<1> SUFFICES ASSUME GInv, [Next]_vars PROVE GInv'
  OBVIOUS
<1>0. FInv'
  BY FormNext DEF GInv
<1>1. CASE UNCHANGED vars
  <2>1. TypesAsked' = TypesAsked
    BY <1>1 DEF vars, TypesAsked
  <2>2. \A b \in Browsers : Typed(b)' /\ Asked(b)' /\ Held(b)'
    BY <1>1 DEF vars, GInv, Typed, Screen, TypeSet, Asked, Held
  <2>3. Tables'
    BY <1>1, <2>1 DEF vars, GInv, Tables
  <2> QED
    BY <1>0, <1>1, <2>2, <2>3 DEF vars, GInv
<1>2. ASSUME NEW b \in Browsers, User(b) \/ Program(b) PROVE GInv'
  BY <1>0, <1>2, UserKeepsGoods, ProgramKeepsGoods
<1> QED
  BY <1>1, <1>2 DEF Next

(* The state has its types: no more ids are given out than there are, what *)
(* is on the screens and in the tables are rows, ids and types that exist. *)
THEOREM GoodsTyping == Spec => []TypeOK
<1>1. GInv => TypeOK
  <2> SUFFICES ASSUME GInv PROVE TypeOK
    OBVIOUS
  <2>1. Tables
    BY DEF GInv
  <2>2. ASSUME NEW b \in Browsers
        PROVE  /\ page[b].ids \subseteq Elems(GoodsIds) /\ page[b].row \in Row /\ page[b].types \subseteq TypeSet
               /\ prog[b].kind \in Kinds \cup {"none"}
               /\ prog[b].pc \in {"none", "connect", "run", "row", "exit"}
               /\ \A i \in DOMAIN objs[b] : objs[b][i] \in Object
               /\ touched[b] \subseteq Elems(GoodsIds)
    BY DEF GInv, Typed, Screen
  <2> QED
    BY <2>1, <2>2 DEF TypeOK, Tables
<1> QED
  BY <1>1, GoodsInit, GoodsNext, PTL DEF Spec
-----------------------------------------------------------------------------
(* What is stored of a form that was filled in is what was entered, and    *)
(* the database has no reason to refuse it.                                *)
LEMMA OnlyWanted ==
  ASSUME GInv, NEW b \in Browsers, ~Blank(b)
  PROVE  /\ prog[b].kind = "add" =>
              /\ RowsOf(Fields(prog[b].post, 0)) = {prog[b].want} /\ ~Refusable(Fields(prog[b].post, 0))
              /\ \E e \in Entries, t \in TypeSet \cup {NoType} : prog[b].want = Form(e, t)
         /\ prog[b].kind = "change" =>
              /\ RowsOf(Fields(prog[b].post, 1)) = {prog[b].want} /\ ~Refusable(Fields(prog[b].post, 1))
              /\ \E e \in Entries, t \in TypeSet \cup {NoType} : prog[b].want = Form(e, t)
<1>1. Asked(b) /\ Typed(b) /\ types \in 0..Len(TypeIds)
  BY BoundsAssumption, IdsAssumption DEF GInv, Tables
<1>2. ASSUME NEW e \in Entries, NEW t \in TypeSet \cup {NoType}, NEW r, r = Form(e, t),
             None \notin {r.name, r.price, r.size}
      PROVE  /\ r \in Row /\ None \notin {r.name, r.type, r.price, r.size}
             /\ r.type \in Numbers /\ r.price \in Numbers
             /\ r = [name |-> r.name, type |-> r.type, price |-> r.price, size |-> r.size]
  <2>1. r \in Row /\ t \in Numbers
    BY <1>1, <1>2, FormIsRow
  <2>2. t # None
    BY <2>1, WordsAssumption
  <2>4. r.name = e.name /\ r.type = t /\ r.price = e.price /\ r.size = e.size
    BY <1>2 DEF Form
  <2>3. e.price \in Numbers /\ None \notin {e.name, e.price, e.size}
    BY <1>2, <2>4, SearchAssumption DEF Numbers
  <2>5. r = [name |-> r.name, type |-> r.type, price |-> r.price, size |-> r.size]
    BY <1>2, <2>4 DEF Form
  <2> QED
    BY <2>1, <2>2, <2>3, <2>4, <2>5
<1>3. ASSUME NEW r, r.type \in Numbers, r.price \in Numbers, NEW f,
             f = [n \in 1..4 |-> <<r.name, r.type, r.price, r.size>>[n]],
             r = [name |-> r.name, type |-> r.type, price |-> r.price, size |-> r.size]
      PROVE  RowsOf(f) = {r} /\ ~Refusable(f)
  <2>1. f[1] = r.name /\ f[2] = r.type /\ f[3] = r.price /\ f[4] = r.size
    BY <1>3
  <2>2. Taken(f[2]) = {r.type} /\ Taken(f[3]) = {r.price}
    BY <1>3, <2>1 DEF Taken
  <2>3. RowsOf(f) = {[name |-> r.name, type |-> r.type, price |-> r.price, size |-> r.size]}
    BY <2>1, <2>2 DEF RowsOf
  <2>4. ~Refusable(f)
    BY <1>3, <2>1 DEF Refusable
  <2> QED
    BY <1>3, <2>3, <2>4
<1>4. CASE prog[b].kind = "add"
  <2>1. PICK e \in Entries, t \in TypeSet \cup {NoType} :
          prog[b].want = Form(e, t) /\ prog[b].post = Posted(prog[b].want)
    BY <1>1, <1>4 DEF Asked
  <2> DEFINE r == prog[b].want
  <2>2. /\ r \in Row /\ None \notin {r.name, r.type, r.price, r.size}
        /\ r.type \in Numbers /\ r.price \in Numbers
        /\ r = [name |-> r.name, type |-> r.type, price |-> r.price, size |-> r.size]
    BY <1>2, <1>4, <2>1 DEF Blank
  <2>3. None \in Text
    BY DEF Text
  <2>4. Fields(prog[b].post, 0) = [n \in 1..4 |-> <<r.name, r.type, r.price, r.size>>[n]]
    BY <2>1, <2>2, <2>3, FilledFields
  <2> QED
    BY <1>3, <1>4, <2>1, <2>2, <2>4
<1>5. CASE prog[b].kind = "change"
  <2>1. PICK e \in Entries, t \in TypeSet \cup {NoType} :
          prog[b].want = Form(e, t) /\ prog[b].post = <<"god_id", prog[b].id>> \o Posted(prog[b].want)
    BY <1>1, <1>5 DEF Asked
  <2> DEFINE r == prog[b].want
  <2>2. /\ r \in Row /\ None \notin {r.name, r.type, r.price, r.size}
        /\ r.type \in Numbers /\ r.price \in Numbers
        /\ r = [name |-> r.name, type |-> r.type, price |-> r.price, size |-> r.size]
    BY <1>2, <1>5, <2>1 DEF Blank
  <2>3. prog[b].id \in Text
    BY <1>1, <1>5 DEF Typed, Text, Words
  <2>4. Fields(prog[b].post, 1) = [n \in 1..4 |-> <<r.name, r.type, r.price, r.size>>[n]]
    BY <2>1, <2>2, <2>3, FilledFields
  <2> QED
    BY <1>3, <1>5, <2>1, <2>2, <2>4
<1> QED
  BY <1>4, <1>5

(* Where every form is filled in, none has a blank field.                  *)
LEMMA NoneBlank == ASSUME Filled, GInv, NEW b \in Browsers PROVE ~Blank(b)
<1>1. Asked(b)
  BY DEF GInv
<1>2. ASSUME NEW e \in Entries, NEW t PROVE None \notin {Form(e, t).name, Form(e, t).price, Form(e, t).size}
  BY DEF Form, Filled
<1> QED
  BY <1>1, <1>2 DEF Asked, Blank

(* A row is only ever written by the two programs that write rows.         *)
LEMMA RowsWritten ==
  ASSUME Filled, GInv, [Next]_vars
  PROVE  /\ types \in Nat /\ types' \in Nat /\ types <= types'
         /\ \A i \in DOMAIN goods' :
              \/ i \in DOMAIN goods /\ goods'[i] = goods[i]
              \/ \E e \in Entries, t \in TypeSet \cup {NoType} : goods'[i] = Form(e, t)
<1>0. types \in Nat
  BY BoundsAssumption, IdsAssumption DEF GInv, Tables
<1>1. CASE UNCHANGED vars
  BY <1>0, <1>1 DEF vars
<1>2. ASSUME NEW b \in Browsers, User(b) PROVE UNCHANGED <<goods, types>>
  BY <1>2 DEF User, Follow, Pick, SubmitAdd, SubmitType, SubmitChange, SubmitFind, Starts
<1>3. ASSUME NEW b \in Browsers, AddGoods(b)
      PROVE  /\ types' = types
             /\ \A i \in DOMAIN goods' :
                  \/ i \in DOMAIN goods /\ goods'[i] = goods[i]
                  \/ \E e \in Entries, t \in TypeSet \cup {NoType} : goods'[i] = Form(e, t)
  <2>1. CASE NotUpdated(b)
    BY <2>1 DEF NotUpdated
  <2>2. CASE ~NotUpdated(b)
    <3>1. prog[b].kind = "add" /\ types' = types
      BY <1>3, <2>2 DEF AddGoods, Running
    <3>2. PICK r \in RowsOf(Fields(prog[b].post, 0)) :
            goods' = [i \in DOMAIN goods \cup {GoodsIds[given + 1]} |-> IF i \in DOMAIN goods THEN goods[i] ELSE r]
      BY <1>3, <2>2 DEF AddGoods
    <3>3. \E e \in Entries, t \in TypeSet \cup {NoType} : r = Form(e, t)
      BY <3>1, <3>2, OnlyWanted, NoneBlank
    <3> QED
      BY <3>1, <3>2, <3>3
  <2> QED
    BY <2>1, <2>2
<1>4. ASSUME NEW b \in Browsers, ChangeGoods(b)
      PROVE  /\ types' = types
             /\ \A i \in DOMAIN goods' :
                  \/ i \in DOMAIN goods /\ goods'[i] = goods[i]
                  \/ \E e \in Entries, t \in TypeSet \cup {NoType} : goods'[i] = Form(e, t)
  <2>1. CASE NotUpdated(b)
    BY <2>1 DEF NotUpdated
  <2>2. CASE ~NotUpdated(b)
    <3>1. prog[b].kind = "change" /\ types' = types
      BY <1>4, <2>2 DEF ChangeGoods, Running
    <3>3. PICK r, ids, id : r \in RowsOf(Fields(prog[b].post, 1)) /\ goods' = WriteRow(ids, id, r)
      BY <1>4, <2>2 DEF ChangeGoods
    <3>4. \E e \in Entries, t \in TypeSet \cup {NoType} : r = Form(e, t)
      BY <3>1, <3>3, OnlyWanted, NoneBlank
    <3> QED
      BY <3>1, <3>3, <3>4 DEF WriteRow
  <2> QED
    BY <2>1, <2>2
<1>5. ASSUME NEW b \in Browsers, DelGoods(b)
      PROVE  types' = types /\ \A i \in DOMAIN goods' : i \in DOMAIN goods /\ goods'[i] = goods[i]
  BY <1>5 DEF DelGoods, NotUpdated
<1>6. ASSUME NEW b \in Browsers, AddType(b) PROVE goods' = goods /\ types' \in {types, types + 1}
  BY <1>6 DEF AddType, NotUpdated
<1>7. ASSUME NEW b \in Browsers, Program(b), ~AddGoods(b), ~DelGoods(b), ~ChangeGoods(b), ~AddType(b)
      PROVE  UNCHANGED <<goods, types>>
  BY <1>7 DEF Program, Connect, SelectTypes, SelectGoods, SelectRow, StoreFails, Crash, Release, Show
<1>8. ASSUME NEW b \in Browsers, Program(b)
      PROVE  /\ types' \in {types, types + 1}
             /\ \A i \in DOMAIN goods' :
                  \/ i \in DOMAIN goods /\ goods'[i] = goods[i]
                  \/ \E e \in Entries, t \in TypeSet \cup {NoType} : goods'[i] = Form(e, t)
  BY <1>3, <1>4, <1>5, <1>6, <1>7, <1>8
<1> QED
  BY <1>0, <1>1, <1>2, <1>8 DEF Next

(* With forms that are filled in, every row of the table is what somebody  *)
(* entered as a whole, of a type that exists, whoever else was at work and *)
(* whatever statements failed.                                             *)
THEOREM RowsAsEntered == Filled => (Spec => []Entered)
<1> SUFFICES ASSUME Filled PROVE Spec => []Entered
  OBVIOUS
<1>1. Init => Entered
  BY DEF Init, Entered
<1>2. GInv /\ Entered /\ [Next]_vars => Entered'
  <2> SUFFICES ASSUME GInv, Entered, [Next]_vars PROVE Entered'
    OBVIOUS
  <2>1. TypeSet \subseteq TypeSet'
    BY RowsWritten, TypesGrow
  <2>2. ASSUME NEW i \in DOMAIN goods'
        PROVE  /\ \E e \in Entries : goods'[i] = [name |-> e.name, type |-> goods'[i].type,
                                                  price |-> e.price, size |-> e.size]
               /\ goods'[i].type \in TypeSet' \cup {NoType}
    <3>1. CASE i \in DOMAIN goods /\ goods'[i] = goods[i]
      BY <2>1, <3>1 DEF Entered
    <3>2. CASE \E e \in Entries, t \in TypeSet \cup {NoType} : goods'[i] = Form(e, t)
      BY <2>1, <3>2 DEF Form
    <3> QED
      BY <2>2, <3>1, <3>2, RowsWritten
  <2> QED
    BY <2>2 DEF Entered
<1> QED
  BY <1>1, <1>2, GoodsInit, GoodsNext, PTL DEF Spec
-----------------------------------------------------------------------------
(* What a step of one browser or its program means for another: rows that  *)
(* change or go are rows it is told of.                                    *)
Aside(x) ==
  /\ prog'[x] = prog[x] /\ page'[x] = page[x] /\ objs'[x] = objs[x] /\ touched[x] \subseteq touched'[x]
  /\ \A i \in DOMAIN goods \ touched'[x] : i \in DOMAIN goods' /\ goods'[i] = goods[i]

(* A step of one browser or its program leaves the others aside.           *)
LEMMA StepAside ==
  ASSUME GInv, NEW b \in Browsers, User(b) \/ Program(b)
  PROVE  \A x \in Browsers \ {b} : Aside(x)
<1>1. DOMAIN prog = Browsers /\ DOMAIN page = Browsers /\ DOMAIN objs = Browsers /\ DOMAIN touched = Browsers
  BY DEF GInv, FInv, Shape
<1>2. ASSUME NEW ok, NEW n, Updated(b, ok, n), UNCHANGED page
      PROVE  \A x \in Browsers \ {b} : prog'[x] = prog[x] /\ page'[x] = page[x] /\ objs'[x] = objs[x]
  BY <1>1, <1>2 DEF Updated, SetTop
<1>3. CASE User(b)
  BY <1>1, <1>3 DEF User, Follow, Pick, SubmitAdd, SubmitType, SubmitChange, SubmitFind, Starts, Aside
<1>4. ASSUME NotUpdated(b), UNCHANGED page PROVE \A x \in Browsers \ {b} : Aside(x)
  BY <1>2, <1>4 DEF NotUpdated, Aside
<1>5. CASE AddGoods(b)
  <2>1. CASE ~NotUpdated(b)
    <3>1. UNCHANGED touched /\ \A i \in DOMAIN goods : i \in DOMAIN goods' /\ goods'[i] = goods[i]
      BY <1>5, <2>1 DEF AddGoods
    <3> QED
      BY <1>2, <1>5, <2>1, <3>1 DEF AddGoods, Aside
  <2> QED
    BY <1>4, <1>5, <2>1 DEF AddGoods
<1>6. CASE AddType(b)
  BY <1>2, <1>4, <1>6 DEF AddType, Aside
<1>7. CASE DelGoods(b)
  <2>1. CASE ~NotUpdated(b)
    <3>1. /\ goods' = [i \in DOMAIN goods \ Found(prog[b].id) |-> goods[i]]
          /\ Touch(b, {prog[b].id})
      BY <1>7, <2>1 DEF DelGoods
    <3>2. ASSUME NEW x \in Browsers \ {b}
          PROVE  /\ touched[x] \subseteq touched'[x]
                 /\ \A i \in DOMAIN goods \ touched'[x] : i \in DOMAIN goods' /\ goods'[i] = goods[i]
      BY <3>1 DEF Touch, Found
    <3> QED
      BY <1>2, <1>7, <2>1, <3>2 DEF DelGoods, Aside
  <2> QED
    BY <1>4, <1>7, <2>1 DEF DelGoods
<1>8. CASE ChangeGoods(b)
  <2>1. CASE ~NotUpdated(b)
    <3> DEFINE id == Field(prog[b].post, 1, Garbage)
    <3>1. Touch(b, {id}) /\ \E r : goods' = WriteRow(Found(id), id, r)
      BY <1>8, <2>1 DEF ChangeGoods
    <3>2. ASSUME NEW x \in Browsers \ {b}
          PROVE  /\ touched[x] \subseteq touched'[x]
                 /\ \A i \in DOMAIN goods \ touched'[x] : i \in DOMAIN goods' /\ goods'[i] = goods[i]
      BY <3>1 DEF Touch, Found, WriteRow
    <3>3. \E n : Updated(b, TRUE, n) /\ UNCHANGED page
      BY <1>8, <2>1 DEF ChangeGoods
    <3> QED
      BY <1>2, <3>2, <3>3 DEF Aside
  <2> QED
    BY <1>4, <1>8, <2>1 DEF ChangeGoods
<1>9. CASE Connect(b) \/ SelectTypes(b) \/ SelectGoods(b) \/ SelectRow(b) \/ StoreFails(b) \/ Release(b) \/ Show(b)
  <2>1. UNCHANGED goods /\ (UNCHANGED touched \/ touched' = [touched EXCEPT ![b] = {}])
    BY <1>9 DEF Connect, SelectTypes, SelectGoods, SelectRow, StoreFails, Crash, Release, Show
  <2>2. \A x \in Browsers \ {b} : prog'[x] = prog[x] /\ page'[x] = page[x] /\ objs'[x] = objs[x]
    BY <1>1, <1>9 DEF Connect, SelectTypes, SelectGoods, SelectRow, StoreFails, Crash, Release, Show, Selected, SetTop
  <2> QED
    BY <1>1, <2>1, <2>2 DEF Aside
<1> QED
  BY <1>3, <1>5, <1>6, <1>7, <1>8, <1>9 DEF Program

(* Goods that are there as they were read, with a type that exists.        *)
Known(b, ids) == \A i \in ids \ touched[b] : i \in DOMAIN goods /\ goods[i].type \in TypeSet

(* The lists on the screen and about to be shown, and what was picked from *)
(* them, while the database does what it is told.                          *)
Lists(b) ==
  LET p == prog[b]
  IN /\ page[b].at = "list" /\ p.kind = "none" => Known(b, page[b].ids)
     /\ p.kind \in {"list", "found"} /\ p.pc = "exit" => Known(b, p.page.ids)
     /\ p.page.at = "list" => p.kind \in {"list", "found"}
     /\ p.page.at # "broken"
     /\ p.kind = "change_show" /\ p.pc \in {"connect", "run", "row"} => Known(b, {p.id})
     /\ p.kind = "change_show" /\ p.pc = "row" /\ p.id \notin touched[b] => goods[p.id].type \in p.page.types
     /\ p.kind = "change" /\ p.pc \in {"connect", "run"} /\ p.id \notin touched[b] => p.id \in DOMAIN goods

(* Every connection is accepted, and no alert is written before its time.  *)
Ready(b) ==
  prog[b].pc \in {"connect", "run", "row"} =>
    /\ \A i \in 1..Len(objs[b]) : objs[b][i].conn = "open"
    /\ prog[b].page.says = None

WInv == GInv /\ \A b \in Browsers : Lists(b) /\ Ready(b)

(* Who stands aside keeps what is known of its lists and of its            *)
(* connections.                                                            *)
LEMMA OthersWilling ==
  ASSUME GInv, GInv', NEW x \in Browsers, Lists(x), Ready(x), Aside(x), types <= types' PROVE Lists(x)' /\ Ready(x)'
<1>1. TypeSet \subseteq TypeSet'
  BY TypesGrow, BoundsAssumption, IdsAssumption DEF GInv, Tables
<1>2. \A ids : Known(x, ids) => Known(x, ids)'
  BY <1>1 DEF Known, Aside
<1>3. ASSUME prog[x].kind = "change_show", prog[x].pc = "row", prog[x].id \notin touched'[x]
      PROVE  goods'[prog[x].id].type \in prog[x].page.types
  <2>1. prog[x].id \notin touched[x] /\ prog[x].id \in DOMAIN goods
    BY <1>3 DEF Aside, Lists, Known
  <2> QED
    BY <1>3, <2>1 DEF Aside, Lists
<1>4. Lists(x)'
  BY <1>2, <1>3 DEF Aside, Lists
<1>5. Ready(x)'
  BY DEF Aside, Ready
<1> QED
  BY <1>4, <1>5

(* There is a connection left for every program.                           *)
LEMMA AlwaysConnects ==
  ASSUME Willing, GInv, NEW b \in Browsers, prog[b].pc = "connect" PROVE Cardinality(Connected) < MaxConnections
<1> DEFINE all == Browsers \X {1, 2}
           c   == <<b, Len(objs[b]) + 1>>
<1>1. IsFiniteSet(all) /\ Cardinality(all) = Cardinality(Browsers) * 2 /\ Cardinality(Browsers) \in Nat
  <2>1. IsFiniteSet({1, 2}) /\ Cardinality({1, 2}) = 2
    <3>1. IsFiniteSet({1}) /\ Cardinality({1}) = 1
      BY FS_Singleton
    <3>2. {1, 2} = {1} \cup {2} /\ 2 \notin {1}
      OBVIOUS
    <3>3. IsFiniteSet({1} \cup {2}) /\ Cardinality({1} \cup {2}) = Cardinality({1}) + 1
      BY <3>1, <3>2, FS_AddElement
    <3>4. Cardinality({1} \cup {2}) = 2
      BY <3>1, <3>3
    <3> QED
      BY <3>2, <3>3, <3>4, Zenon
  <2> QED
    BY <2>1, BoundsAssumption, FS_Product, FS_CardinalityType
<1>2. c \in all /\ c \notin Connected
  <2>1. Len(objs[b]) = 0 \/ Len(objs[b]) = 1
    BY DEF GInv, Held
  <2>2. Len(objs[b]) + 1 \in {1, 2} /\ ~(Len(objs[b]) + 1 <= Len(objs[b]))
    <3>1. CASE Len(objs[b]) = 0
      BY <3>1
    <3>2. CASE Len(objs[b]) = 1
      BY <3>2
    <3> QED
      BY <2>1, <3>1, <3>2
  <2>3. c \in all /\ c[1] = b /\ c[2] = Len(objs[b]) + 1
    BY <2>2
  <2> QED
    BY <2>2, <2>3 DEF Connected
<1>3. Connected \subseteq all
  BY DEF Connected
<1>4. IsFiniteSet(Connected) /\ Cardinality(Connected) \in Nat
  BY <1>1, <1>3, FS_Subset, FS_CardinalityType
<1>5. Cardinality(Connected \cup {c}) = Cardinality(Connected) + 1 /\ IsFiniteSet(Connected \cup {c})
  BY <1>2, <1>4, FS_AddElement
<1>6. Cardinality(Connected \cup {c}) <= Cardinality(all)
  <2>1. Connected \cup {c} \subseteq all
    BY <1>2, <1>3
  <2> QED
    BY <1>1, <2>1, FS_Subset
<1> QED
  BY <1>1, <1>4, <1>5, <1>6, BoundsAssumption DEF Willing

(* No statement of a program fails.                                        *)
LEMMA NothingFails ==
  ASSUME Willing, GInv, NEW b \in Browsers, Ready(b), prog[b].pc \in {"run", "row"}
  PROVE  Works(b) /\ ~Fails(b) /\ "store" \notin Failing
<1>1. objs[b] \in Seq(Object) /\ Len(objs[b]) # 0
  BY SMTT(30) DEF GInv, Held, Typed
<1>2. Len(objs[b]) \in 1..Len(objs[b])
  BY <1>1
<1> QED
  BY <1>2 DEF Willing, Ready, Works, Fails, Top

(* Users keep both, since a link or form names only what its page showed.  *)
LEMMA WillingUser ==
  ASSUME WInv, NEW b \in Browsers, User(b) PROVE Lists(b)' /\ Ready(b)'
<1>1. /\ Lists(b) /\ Held(b) /\ OnScreen(b) /\ Typed(b) /\ DOMAIN prog = Browsers
      /\ objs[b] \in Seq(Object)
  BY DEF WInv, GInv, FInv, Shape, Typed
<1>2. ASSUME NEW kind \in Kinds, NEW id, NEW post, NEW want, Starts(b, kind, id, post, want),
             kind = "change_show" => Known(b, {id}),
             kind = "change" /\ id \notin touched[b] => id \in DOMAIN goods
      PROVE  Lists(b)' /\ Ready(b)'
  <2>1. /\ prog'[b].kind = kind /\ prog'[b].pc = "connect" /\ prog'[b].id = id /\ prog'[b].page = Page(kind)
        /\ prog[b].kind = "none" /\ UNCHANGED <<goods, types, page, objs, touched>>
    BY <1>1, <1>2 DEF Starts
  <2>2. Len(objs'[b]) = 0 /\ Page(kind).says = None /\ Page(kind).at = kind
    BY <1>1, <2>1 DEF Held, Page
  <2>3. Ready(b)'
    BY <2>1, <2>2 DEF Ready
  <2>4. Known(b, {id}) => Known(b, {id})'
    BY <2>1 DEF Known, TypeSet
  <2>5. Lists(b)'
    BY <1>2, <2>1, <2>2, <2>4 DEF Lists, Kinds
  <2> QED
    BY <2>3, <2>5
<1>3. CASE Follow(b)
  BY <1>2, <1>3 DEF Follow, Kinds
<1>4. CASE Pick(b)
  <2>1. PICK kind \in {"del", "change_show"}, id \in page[b].ids : Starts(b, kind, id, <<>>, NoRow)
    BY <1>4 DEF Pick
  <2>2. Known(b, {id})
    BY <1>1, <1>4, <2>1 DEF Pick, Starts, Lists, Known
  <2> QED
    BY <1>2, <2>1, <2>2 DEF Kinds
<1>5. CASE SubmitAdd(b)
  <2>1. \E post, want : Starts(b, "add", None, post, want)
    BY <1>5 DEF SubmitAdd
  <2> QED
    BY <1>2, <2>1 DEF Kinds
<1>6. CASE SubmitType(b)
  BY <1>2, <1>6 DEF SubmitType, Kinds
<1>7. CASE SubmitChange(b)
  <2>1. PICK post, want : Starts(b, "change", page[b].id, post, want)
    BY <1>7 DEF SubmitChange
  <2>2. page[b].id \notin touched[b] => page[b].id \in DOMAIN goods
    BY <1>1, <1>7, <2>1 DEF SubmitChange, Starts, OnScreen, AsRead
  <2> QED
    BY <1>2, <2>1, <2>2 DEF Kinds
<1>8. CASE SubmitFind(b)
  <2>1. \E post, want : Starts(b, "found", None, post, want)
    BY <1>8 DEF SubmitFind
  <2> QED
    BY <1>2, <2>1 DEF Kinds
<1> QED
  BY <1>3, <1>4, <1>5, <1>6, <1>7, <1>8 DEF User

(* Programs keep both: no connection and no statement is refused.          *)
LEMMA WillingProgram ==
  ASSUME Willing, WInv, NEW b \in Browsers, Program(b) PROVE Lists(b)' /\ Ready(b)'
<1>1. /\ GInv /\ Lists(b) /\ Ready(b) /\ Held(b) /\ InWork(b) /\ Typed(b) /\ objs[b] \in Seq(Object)
      /\ DOMAIN prog = Browsers /\ DOMAIN page = Browsers /\ DOMAIN objs = Browsers /\ DOMAIN touched = Browsers
      /\ DOMAIN prog[b] = ProgFields /\ DOMAIN prog[b].page = PageFields
  BY DEF WInv, GInv, FInv, Shape, Typed
<1>2. CASE Connect(b)
  <2>1. /\ objs' = [objs EXCEPT ![b] = Append(@, BeginConnect(NewObject, TRUE))]
        /\ prog[b].pc = "connect" /\ UNCHANGED <<goods, types, page, touched>>
    BY <1>1, <1>2, AlwaysConnects DEF Connect
  <2>2. \E l \in {"connect", "run"} : prog' = [prog EXCEPT ![b].pc = l]
    BY <1>2 DEF Connect
  <2>3. /\ prog'[b].kind = prog[b].kind /\ prog'[b].id = prog[b].id /\ prog'[b].page = prog[b].page
        /\ prog'[b].pc \in {"connect", "run"}
    BY <1>1, <2>2 DEF ProgFields
  <2>4. objs'[b] = Append(objs[b], BeginConnect(NewObject, TRUE))
    BY <1>1, <2>1
  <2>5. BeginConnect(NewObject, TRUE).conn = "open"
    BY DEF BeginConnect, NewObject
  <2>6. \A i \in 1..Len(objs'[b]) : objs'[b][i].conn = "open"
    <3> DEFINE o == BeginConnect(NewObject, TRUE)
    <3>1. \A i \in 1..Len(objs[b]) : objs[b][i].conn = "open"
      BY <1>1, <2>1 DEF Ready
    <3>2. objs'[b] = Append(objs[b], o) /\ o.conn = "open" /\ objs[b] \in Seq(Object)
      BY <1>1, <2>4, <2>5
    <3> HIDE DEF o
    <3>3. o \in Object
      BY DEF o, BeginConnect, NewObject, Object, NoResult
    <3> QED
      BY <3>1, <3>2, <3>3
  <2>7. Ready(b)'
    BY <1>1, <2>1, <2>3, <2>6 DEF Ready
  <2>8. \A ids : Known(b, ids) => Known(b, ids)'
    BY <2>1 DEF Known, TypeSet
  <2>9. Lists(b)'
    BY <1>1, <2>1, <2>3, <2>8 DEF Lists
  <2> QED
    BY <2>7, <2>9
<1>3. CASE AddGoods(b) \/ AddType(b) \/ DelGoods(b) \/ ChangeGoods(b)
  <2>1. prog[b].kind \in {"add", "add_type", "del", "change"} /\ UNCHANGED page /\ \E ok, n : Updated(b, ok, n)
    BY <1>3 DEF AddGoods, AddType, DelGoods, ChangeGoods, NotUpdated, Running
  <2>2. prog'[b].pc = "exit" /\ prog'[b].kind = prog[b].kind /\ prog'[b].page.at = "alert"
    BY <1>1, <2>1 DEF Updated, ProgFields, Page
  <2> QED
    BY <2>1, <2>2 DEF Lists, Ready
<1>4. CASE SelectTypes(b)
  <2>1. /\ prog[b].pc = "run" /\ prog[b].kind \in {"add_show", "find_show", "change_show"}
        /\ UNCHANGED <<goods, types, page, touched>>
    BY <1>4 DEF SelectTypes, Running
  <2>2. Selected(b, TRUE, [prog[b].page EXCEPT !.types = TypeMap],
                 IF prog[b].kind = "change_show" THEN "row" ELSE "exit")
    BY <1>1, <1>4, <2>1, NothingFails DEF SelectTypes
  <2>3. /\ prog'[b].kind = prog[b].kind /\ prog'[b].id = prog[b].id
        /\ prog'[b].page.types = TypeSet /\ prog'[b].page.at = prog[b].page.at
        /\ prog'[b].page.says = prog[b].page.says
        /\ prog'[b].pc = IF prog[b].kind = "change_show" THEN "row" ELSE "exit"
    BY <1>1, <2>2 DEF Selected, ProgFields, PageFields, TypeMap
  <2>4. \A ids : Known(b, ids) => Known(b, ids)'
    BY <2>1 DEF Known, TypeSet
  <2>5. Lists(b)'
    <3>1. prog[b].kind = "change_show" => Known(b, {prog[b].id})
      BY <1>1, <2>1 DEF Lists
    <3>2. prog[b].kind = "change_show" /\ prog[b].id \notin touched[b] => goods[prog[b].id].type \in TypeSet
      BY <3>1 DEF Known
    <3> QED
      BY <1>1, <2>1, <2>3, <2>4, <3>1, <3>2 DEF Lists
  <2>6. Ready(b)'
    <3> DEFINE o == ExeSelect(Top(b), [ok |-> TRUE, rows |-> TRUE, stored |-> TRUE, affected |-> 0])
    <3>1. o \in Object /\ SetTop(b, o)
      BY <1>1, <2>1, <2>2, TopIsObject, ExeSelectIsObject DEF Selected
    <3>2. o.conn = "open"
      <4>1. Top(b).conn = "open" /\ Top(b) \in Object
        BY <1>1, <2>1, NothingFails, TopIsObject DEF Works
      <4> QED
        BY <4>1 DEF ExeSelect, Store, Object
    <3> HIDE DEF o
    <3>3. /\ Len(objs'[b]) = Len(objs[b]) /\ objs'[b][Len(objs'[b])] = o
          /\ \A i \in 1..(Len(objs[b]) - 1) : objs'[b][i] = objs[b][i]
      BY <1>1, <2>1, <3>1, TopIsObject
    <3>4. \A i \in 1..Len(objs'[b]) : objs'[b][i].conn = "open"
      <4>1. Len(objs[b]) \in Nat
        BY <1>1
      <4>2. \A i \in 1..Len(objs[b]) : objs[b][i].conn = "open"
        BY <1>1, <2>1 DEF Ready
      <4> QED
        BY <3>2, <3>3, <4>1, <4>2
    <3> QED
      BY <1>1, <2>1, <2>3, <3>4 DEF Ready
  <2> QED
    BY <2>5, <2>6
<1>5. CASE SelectGoods(b)
  <2>1. prog[b].pc = "run" /\ prog[b].kind \in {"list", "found"} /\ UNCHANGED <<goods, types, page>>
    BY <1>5 DEF SelectGoods, Running
  <2>2. PICK p, ok : /\ Selected(b, ok, p, "exit") /\ p.at = "list"
                     /\ p.ids = {} \/ (p.ids \subseteq Listed /\ touched' = [touched EXCEPT ![b] = {}])
    <3>1. \A ids : [Page("list") EXCEPT !.ids = ids].at = "list" /\ [Page("list") EXCEPT !.ids = ids].ids = ids
      BY DEF Page
    <3>2. Page("list").at = "list" /\ Page("list").ids = {}
      BY DEF Page
    <3>3. {i \in Listed : Matches(i, prog[b].post)} \subseteq Listed
      OBVIOUS
    <3>4. CASE \E ok : Selected(b, ok, Page("list"), "exit")
      BY <3>2, <3>4
    <3>5. CASE ~\E ok : Selected(b, ok, Page("list"), "exit")
      <4>1. /\ touched' = [touched EXCEPT ![b] = {}]
            /\ \E ids \in {Listed, {i \in Listed : Matches(i, prog[b].post)}} :
                 Selected(b, TRUE, [Page("list") EXCEPT !.ids = ids], "exit")
        BY <1>5, <3>5 DEF SelectGoods
      <4>2. PICK ids \in SUBSET Listed : Selected(b, TRUE, [Page("list") EXCEPT !.ids = ids], "exit")
        BY <3>3, <4>1
      <4> QED
        BY <3>1, <4>1, <4>2
    <3> QED
      BY <3>4, <3>5
  <2>3. prog'[b].kind = prog[b].kind /\ prog'[b].pc = "exit" /\ prog'[b].page = p
    BY <1>1, <2>2 DEF Selected, ProgFields
  <2>4. Known(b, p.ids)'
    BY <2>1, <2>2 DEF Known, Listed, TypeSet
  <2>5. Lists(b)'
    BY <2>1, <2>2, <2>3, <2>4 DEF Lists
  <2>6. Ready(b)'
    BY <2>3 DEF Ready
  <2> QED
    BY <2>5, <2>6
<1>6. ASSUME Crash(b) PROVE Lists(b)' /\ Ready(b)'
  <2>1. prog'[b] = Idle /\ page'[b] = Page("broken")
    BY <1>1, <1>6 DEF Crash
  <2> QED
    BY <2>1 DEF Idle, Page, Lists, Ready
<1>7. CASE SelectRow(b) /\ ~Crash(b)
  <2>1. /\ prog[b].pc = "row" /\ UNCHANGED page
        /\ Selected(b, TRUE, [prog[b].page EXCEPT !.id = prog[b].id, !.row = goods[prog[b].id]], "exit")
    BY <1>7 DEF SelectRow
  <2>2. /\ prog'[b].pc = "exit" /\ prog'[b].kind = "change_show" /\ prog[b].kind = "change_show"
        /\ prog'[b].page.at = prog[b].page.at
    BY <1>1, <2>1 DEF Selected, ProgFields, PageFields, Typed
  <2> QED
    BY <1>1, <2>1, <2>2 DEF Lists, Ready
<1>8. CASE Release(b)
  BY <1>1, <1>8 DEF Release, Lists, Ready, Known, TypeSet
<1>9. CASE Show(b)
  <2>1. prog'[b] = Idle /\ page'[b] = prog[b].page /\ prog[b].pc = "exit" /\ UNCHANGED <<goods, types, touched>>
    BY <1>1, <1>9 DEF Show
  <2>2. \A ids : Known(b, ids) => Known(b, ids)'
    BY <2>1 DEF Known, TypeSet
  <2> QED
    BY <1>1, <2>1, <2>2 DEF Idle, Page, Lists, Ready
<1> QED
  BY <1>2, <1>3, <1>4, <1>5, <1>6, <1>7, <1>8, <1>9 DEF Program, SelectRow, StoreFails

(* Both hold of idle browsers.                                             *)
LEMMA WillingInit == Init => WInv
<1>1. ASSUME Init, NEW b \in Browsers PROVE Lists(b) /\ Ready(b)
  BY <1>1 DEF Init, Idle, Page, Lists, Ready
<1> QED
  BY <1>1, GoodsInit DEF WInv

(* No type is ever taken away.                                             *)
LEMMA TypesOnlyGrow == ASSUME GInv, [Next]_vars PROVE types \in Nat /\ types <= types'
<1>1. types \in Nat
  BY BoundsAssumption, IdsAssumption DEF GInv, Tables
<1>2. types' = types \/ types' = types + 1
  <2>1. ASSUME NEW b \in Browsers, User(b) PROVE types' = types
    BY <2>1 DEF User, Follow, Pick, SubmitAdd, SubmitType, SubmitChange, SubmitFind, Starts
  <2>2. ASSUME NEW b \in Browsers, Program(b) PROVE types' = types \/ types' = types + 1
    BY <2>2 DEF Program, Connect, AddGoods, AddType, DelGoods, ChangeGoods, NotUpdated,
                SelectTypes, SelectGoods, SelectRow, StoreFails, Crash, Release, Show
  <2> QED
    BY <2>1, <2>2 DEF Next, vars
<1> QED
  BY <1>1, <1>2

(* So every step keeps the invariant of a willing database.                *)
LEMMA WillingNext == ASSUME Willing, WInv, [Next]_vars PROVE WInv'
<1>0. GInv /\ GInv'
  BY GoodsNext DEF WInv
<1>1. CASE UNCHANGED vars
  BY <1>0, <1>1 DEF vars, WInv, Lists, Ready, Known, TypeSet
<1>2. ASSUME NEW b \in Browsers, User(b) \/ Program(b) PROVE WInv'
  <2>1. Lists(b)' /\ Ready(b)'
    BY <1>2, WillingUser, WillingProgram
  <2>2. types <= types'
    BY <1>0, TypesOnlyGrow
  <2>3. ASSUME NEW x \in Browsers \ {b} PROVE Lists(x)' /\ Ready(x)'
    BY <1>0, <1>2, <2>2, StepAside, OthersWilling DEF WInv
  <2> QED
    BY <1>0, <2>1, <2>3 DEF WInv
<1> QED
  BY <1>1, <1>2 DEF Next
-----------------------------------------------------------------------------
(* When no statement fails, change_god_cgi finds the row and its type and  *)
(* does not die, unless another browser has changed or deleted the goods   *)
(* since the list they were picked from was made.                          *)
THEOREM CrashesExcused == Willing => (Spec => CrashExcused)
<1> SUFFICES ASSUME Willing PROVE Spec => CrashExcused
  OBVIOUS
<1>1. ASSUME WInv, [Next]_vars, NEW b \in Browsers, page[b].at # "broken", page'[b].at = "broken"
      PROVE  prog[b].id \in touched[b]
  <2>1. GInv /\ Lists(b) /\ Ready(b) /\ DOMAIN page = Browsers
    BY <1>1 DEF WInv, GInv, FInv, Shape
  <2>2. PICK c \in Browsers : User(c) \/ Program(c)
    BY <1>1 DEF Next, vars
  <2>3. c = b
    BY <1>1, <2>1, <2>2, StepAside DEF Aside
  <2>4. ~Show(b)
    BY <1>1, <2>1 DEF Show, Lists
  <2>5. CASE Crash(b)
    <3>1. SelectRow(b) \/ StoreFails(b)
      <4>1. prog[b].kind # "none"
        <5>1. prog[b].pc # "none" \/ ~Program(b)
          BY DEF Program, Connect, AddGoods, AddType, DelGoods, ChangeGoods, Running,
                 SelectTypes, SelectGoods, SelectRow, StoreFails, Release, Show
        <5>2. User(b) => page'[b] = page[b]
          BY DEF User, Follow, Pick, SubmitAdd, SubmitType, SubmitChange, SubmitFind, Starts
        <5> QED
          BY <1>1, <2>1, <2>2, <2>3, <5>1, <5>2 DEF GInv, FInv, InWork
      <4>2. ~User(b)
        BY <4>1 DEF User, Follow, Pick, SubmitAdd, SubmitType, SubmitChange, SubmitFind, Starts
      <4>3. /\ ~Connect(b) /\ ~AddGoods(b) /\ ~AddType(b) /\ ~DelGoods(b) /\ ~ChangeGoods(b)
            /\ ~SelectTypes(b) /\ ~SelectGoods(b) /\ ~Release(b)
        BY <1>1 DEF Connect, AddGoods, AddType, DelGoods, ChangeGoods, SelectTypes, SelectGoods, Release
      <4> QED
        BY <2>2, <2>3, <2>4, <4>2, <4>3 DEF Program
    <3>2. ~StoreFails(b)
      BY <2>1, NothingFails DEF StoreFails, Running
    <3>3. SelectRow(b) /\ prog[b].pc = "row" /\ prog[b].kind = "change_show" /\ ~Fails(b) /\ Works(b)
      BY <2>1, <3>1, <3>2, NothingFails DEF SelectRow, GInv, Typed
    <3> DEFINE id == prog[b].id
    <3>4. id \in touched[b] \/ (id \in DOMAIN goods /\ goods[id].type \in prog[b].page.types)
      BY <2>1, <3>3 DEF Lists, Known
    <3>5. ~(id \in DOMAIN goods /\ goods[id].type \in prog[b].page.types)
      BY <1>1, <3>3 DEF SelectRow
    <3> QED
      BY <3>4, <3>5
  <2>6. CASE ~Crash(b)
    <3>1. page'[b] = page[b]
      <4>1. CASE User(b)
        BY <4>1 DEF User, Follow, Pick, SubmitAdd, SubmitType, SubmitChange, SubmitFind, Starts
      <4>2. CASE Program(b)
        BY <2>4, <2>6, <4>2 DEF Program, Connect, AddGoods, AddType, DelGoods, ChangeGoods,
                                SelectTypes, SelectGoods, SelectRow, StoreFails, Release
      <4> QED
        BY <2>2, <2>3, <4>1, <4>2
    <3> QED
      BY <1>1, <3>1
  <2> QED
    BY <2>5, <2>6
<1>2. WInv /\ [Next]_vars =>
        [\A b \in Browsers : page[b].at # "broken" /\ page'[b].at = "broken" => prog[b].id \in touched[b]]_vars
  BY <1>1
<1>3. WInv /\ [Next]_vars => WInv'
  BY WillingNext
<1> QED
  BY <1>2, <1>3, WillingInit, PTL DEF Spec, CrashExcused

(* Before a program has anything to say it has no alert, and the row it is *)
(* to change is there unless another browser has deleted it.               *)
Expects(b) ==
  LET p == prog[b]
  IN /\ p.pc \in {"connect", "run", "row"} => p.page.at # "alert"
     /\ p.kind = "change" /\ p.pc \in {"connect", "run"} /\ p.id \notin touched[b] => p.id \in DOMAIN goods

EInv == GInv /\ goods = [i \in DOMAIN goods |-> goods[i]] /\ \A b \in Browsers : Expects(b)

(* The table is a function, whatever is done to it.                        *)
LEMMA TableIsFunction ==
  ASSUME NEW b \in Browsers, User(b) \/ Program(b), goods = [i \in DOMAIN goods |-> goods[i]]
  PROVE  goods' = [i \in DOMAIN goods' |-> goods'[i]]
<1>1. CASE UNCHANGED goods
  BY <1>1
<1>2. CASE AddGoods(b) /\ ~UNCHANGED goods
  BY <1>2 DEF AddGoods, NotUpdated
<1>3. CASE DelGoods(b) /\ ~UNCHANGED goods
  BY <1>3 DEF DelGoods, NotUpdated
<1>4. CASE ChangeGoods(b) /\ ~UNCHANGED goods
  BY <1>4 DEF ChangeGoods, NotUpdated, WriteRow
<1>5. User(b) => UNCHANGED goods
  BY DEF User, Follow, Pick, SubmitAdd, SubmitType, SubmitChange, SubmitFind, Starts
<1>6. Program(b) => UNCHANGED goods \/ AddGoods(b) \/ DelGoods(b) \/ ChangeGoods(b)
  BY DEF Program, Connect, AddType, NotUpdated, SelectTypes, SelectGoods, SelectRow, StoreFails, Crash, Release, Show
<1> QED
  BY <1>1, <1>2, <1>3, <1>4, <1>5, <1>6

(* A user's form names the row it was made from.                           *)
LEMMA UserExpects == ASSUME EInv, NEW b \in Browsers, User(b) PROVE Expects(b)'
<1>1. DOMAIN prog = Browsers /\ OnScreen(b)
  BY DEF EInv, GInv, FInv, Shape
<1>2. ASSUME NEW kind, NEW id, NEW post, NEW want, Starts(b, kind, id, post, want), kind # "alert",
             kind = "change" => page[b].at = "change_show" /\ id = page[b].id
      PROVE  Expects(b)'
  <2>1. /\ prog'[b].kind = kind /\ prog'[b].id = id /\ prog'[b].page.at # "alert"
        /\ prog[b].kind = "none" /\ UNCHANGED <<goods, touched>>
    BY <1>1, <1>2 DEF Starts, Page
  <2> QED
    BY <1>1, <1>2, <2>1 DEF Expects, OnScreen, AsRead
<1>3. CASE Follow(b) \/ Pick(b)
  <2>1. PICK kind, id : /\ Starts(b, kind, id, <<>>, NoRow)
                        /\ kind \in {"list", "add_show", "find_show", "del", "change_show"}
    BY <1>3, Zenon DEF Follow, Pick
  <2> QED
    BY <1>2, <2>1
<1>4. CASE SubmitAdd(b)
  <2>1. PICK post, want : Starts(b, "add", None, post, want)
    BY <1>4, Zenon DEF SubmitAdd
  <2> QED
    BY <1>2, <2>1
<1>5. CASE SubmitType(b)
  BY <1>2, <1>5 DEF SubmitType
<1>6. CASE SubmitFind(b)
  <2>1. PICK post, want : Starts(b, "found", None, post, want)
    BY <1>6, Zenon DEF SubmitFind
  <2> QED
    BY <1>2, <2>1
<1>7. CASE SubmitChange(b)
  <2>1. PICK post, want : Starts(b, "change", page[b].id, post, want) /\ page[b].at = "change_show"
    BY <1>7, Zenon DEF SubmitChange
  <2> QED
    BY <1>2, <2>1
<1> QED
  BY <1>3, <1>4, <1>5, <1>6, <1>7 DEF User

(* A program keeps it until it has its answer.                             *)
LEMMA ProgramExpects == ASSUME EInv, NEW b \in Browsers, Program(b) PROVE Expects(b)'
<1>1. /\ DOMAIN prog = Browsers /\ DOMAIN prog[b] = ProgFields /\ DOMAIN prog[b].page = PageFields
      /\ DOMAIN touched = Browsers /\ Expects(b) /\ Typed(b)
  BY DEF EInv, GInv, FInv, Shape
<1>2. CASE Connect(b)
  <2>1. /\ prog[b].pc = "connect" /\ prog'[b].kind = prog[b].kind /\ prog'[b].id = prog[b].id
        /\ prog'[b].page = prog[b].page /\ UNCHANGED <<goods, touched>>
    BY <1>1, <1>2 DEF Connect, ProgFields
  <2> QED
    BY <1>1, <2>1 DEF Expects
<1>3. ASSUME NEW ok, NEW n, Updated(b, ok, n) PROVE Expects(b)'
  <2>1. prog'[b].pc = "exit"
    BY <1>1, <1>3 DEF Updated, ProgFields
  <2> QED
    BY <2>1 DEF Expects
<1>4. CASE AddGoods(b) \/ AddType(b) \/ DelGoods(b) \/ ChangeGoods(b)
  BY <1>3, <1>4 DEF AddGoods, AddType, DelGoods, ChangeGoods, NotUpdated
<1>5. CASE Crash(b)
  <2>1. prog'[b].pc = "none" /\ prog'[b].kind = "none"
    BY <1>1, <1>5 DEF Crash, Idle
  <2> QED
    BY <2>1 DEF Expects
<1>6. ASSUME NEW ok, NEW p, Selected(b, ok, p, "exit") PROVE Expects(b)'
  <2>1. prog'[b].pc = "exit"
    BY <1>1, <1>6 DEF Selected, ProgFields
  <2> QED
    BY <2>1 DEF Expects
<1>7. CASE SelectTypes(b)
  <2>1. ASSUME NEW ok, NEW p, p.at = prog[b].page.at, Selected(b, ok, p, "row"), prog[b].kind = "change_show",
               prog[b].pc = "run"
        PROVE  Expects(b)'
    <3>1. prog'[b].page.at = prog[b].page.at /\ prog'[b].kind = "change_show"
      BY <1>1, <2>1 DEF Selected, ProgFields
    <3> QED
      BY <1>1, <2>1, <3>1 DEF Expects
  <2>2. \A x : [prog[b].page EXCEPT !.types = x].at = prog[b].page.at
    BY <1>1 DEF PageFields
  <2>3. PICK ok, p : /\ Selected(b, ok, p, IF prog[b].kind = "change_show" THEN "row" ELSE "exit")
                     /\ p.at = prog[b].page.at
    BY <1>7, <2>2 DEF SelectTypes
  <2> QED
    BY <1>6, <1>7, <2>1, <2>3 DEF SelectTypes, Running
<1>8. CASE SelectGoods(b) \/ SelectRow(b) \/ StoreFails(b)
  BY <1>5, <1>6, <1>8 DEF SelectGoods, SelectRow, StoreFails
<1>9. CASE Release(b)
  BY <1>1, <1>9 DEF Release, Expects
<1>10. CASE Show(b)
  <2>1. prog'[b].pc = "none" /\ prog'[b].kind = "none"
    BY <1>1, <1>10 DEF Show, Idle
  <2> QED
    BY <2>1 DEF Expects
<1> QED
  BY <1>2, <1>4, <1>7, <1>8, <1>9, <1>10 DEF Program

(* And no step of another browser breaks it.                               *)
LEMMA ExpectsNext == EInv /\ [Next]_vars => EInv'
<1> SUFFICES ASSUME EInv, [Next]_vars PROVE EInv'
  OBVIOUS
<1>1. GInv /\ GInv'
  BY GoodsNext DEF EInv
<1>2. CASE UNCHANGED vars
  BY <1>1, <1>2 DEF vars, EInv, Expects
<1>3. ASSUME NEW b \in Browsers, User(b) \/ Program(b) PROVE EInv'
  <2>1. ASSUME NEW x \in Browsers \ {b} PROVE Expects(x)'
    <3>1. Aside(x)
      BY <1>1, <1>3, StepAside
    <3> QED
      BY <3>1 DEF EInv, Expects, Aside
  <2>2. Expects(b)'
    BY <1>3, UserExpects, ProgramExpects
  <2>3. goods' = [i \in DOMAIN goods' |-> goods'[i]]
    BY <1>3, TableIsFunction DEF EInv
  <2> QED
    BY <1>1, <2>1, <2>2, <2>3 DEF EInv
<1> QED
  BY <1>2, <1>3 DEF Next

(* Whatever connections are refused and whatever statements fail: a        *)
(* program touches no row but the one it was asked for; and what it says   *)
(* it has stored is stored as it was wanted, unless the form had a blank   *)
(* field, or nothing has changed and its own connection was refused, or    *)
(* its own statement failed, or another browser has deleted the row.       *)
THEOREM AlertsAreExplained == Spec => AlertsExplained
<1>1. ASSUME EInv, [Next]_vars, NEW b \in Browsers, Alerts(b)
      PROVE  /\ Others(b)
             /\ \/ Stored(b) /\ prog'[b].page.says = "success"
                \/ Blank(b)
                \/ UNCHANGED <<goods, given, types>> /\ (Fails(b) \/ Deleted(b))
  <2>1. /\ GInv /\ Tables /\ Expects(b) /\ DOMAIN prog = Browsers /\ prog[b].pc = "run"
        /\ DOMAIN prog[b] = ProgFields /\ DOMAIN prog[b].page = PageFields
        /\ prog'[b].pc = "exit" /\ prog'[b].page.at = "alert"
    BY <1>1 DEF EInv, GInv, FInv, Shape, Alerts
  <2>2. PICK c \in Browsers : User(c) \/ Program(c)
    BY <1>1, <2>1 DEF Next, vars
  <2>3. c = b
    BY <2>1, <2>2, StepAside DEF Aside
  <2>4. ASSUME NotUpdated(b), Fails(b) PROVE Others(b) /\ UNCHANGED <<goods, given, types>>
    BY <2>4 DEF NotUpdated, Others
  <2>14. ASSUME NEW n, Updated(b, TRUE, n), n \in Nat PROVE prog'[b].page.says = "success"
    <3>1. ExeUpdate(Top(b), [ok |-> TRUE, rows |-> FALSE, stored |-> FALSE, affected |-> n]).ret = n /\ n # -1
      BY <2>14 DEF ExeUpdate
    <3> QED
      BY <2>1, <2>14, <3>1 DEF Updated, ProgFields, Page
  <2>5. prog[b].kind # "none"
    BY <2>1 DEF GInv, FInv, InWork
  <2>6. CASE AddGoods(b)
    <3>1. prog[b].kind = "add" /\ Target(b) = GoodsIds[given + 1]
      BY <2>6 DEF AddGoods, Running, Target
    <3>2. CASE ~(NotUpdated(b) /\ (Fails(b) \/ Refusable(Fields(prog[b].post, 0))))
      <4>1. given < Len(GoodsIds) /\ Updated(b, TRUE, 1)
        BY <2>6, <3>2 DEF AddGoods
      <4>2. PICK r \in RowsOf(Fields(prog[b].post, 0)) :
              goods' = [i \in DOMAIN goods \cup {Target(b)} |-> IF i \in DOMAIN goods THEN goods[i] ELSE r]
        BY <2>6, <3>1, <3>2 DEF AddGoods
      <4>3. Target(b) \notin DOMAIN goods
        <5>1. given \in Nat /\ given + 1 \in DOMAIN GoodsIds /\ \A i \in 1..given : i \in DOMAIN GoodsIds /\ i # given + 1
          BY <2>1, <4>1, IdsAssumption DEF Tables
        <5> QED
          BY <2>1, <3>1, <5>1, IdsAssumption DEF Tables
      <4>4. Others(b)
        BY <4>2 DEF Others
      <4>5. ~Blank(b) => goods'[Target(b)] = prog[b].want
        BY <2>1, <3>1, <4>2, <4>3, OnlyWanted
      <4>6. ~Blank(b) => Stored(b)
        BY <3>1, <4>2, <4>5 DEF Stored
      <4> QED
        BY <2>14, <4>1, <4>4, <4>6
    <3>3. CASE NotUpdated(b) /\ Fails(b)
      BY <2>4, <3>3
    <3>4. CASE NotUpdated(b) /\ Refusable(Fields(prog[b].post, 0))
      <4>1. Blank(b)
        BY <2>1, <3>1, <3>4, OnlyWanted
      <4> QED
        BY <3>4, <4>1 DEF NotUpdated, Others
    <3> QED
      BY <3>2, <3>3, <3>4
  <2>7. CASE AddType(b)
    <3>1. prog[b].kind = "add_type"
      BY <2>7 DEF AddType, Running
    <3>2. CASE ~(NotUpdated(b) /\ Fails(b))
      <4>1. types' = types + 1 /\ Updated(b, TRUE, 1) /\ goods' = goods
        BY <2>7, <3>2 DEF AddType
      <4> QED
        BY <2>14, <3>1, <4>1 DEF Others, Stored
    <3>3. CASE NotUpdated(b) /\ Fails(b)
      BY <2>4, <3>3
    <3> QED
      BY <3>2, <3>3
  <2>8. CASE DelGoods(b)
    <3>1. prog[b].kind = "del" /\ Target(b) = prog[b].id
      BY <2>8 DEF DelGoods, Running, Target
    <3>2. CASE ~(NotUpdated(b) /\ Fails(b))
      <4>1. /\ goods' = [i \in DOMAIN goods \ Found(prog[b].id) |-> goods[i]]
            /\ Updated(b, TRUE, Cardinality(Found(prog[b].id)))
        BY <2>8, <3>2 DEF DelGoods
      <4>2. Cardinality(Found(prog[b].id)) \in Nat
        <5>1. IsFiniteSet({prog[b].id})
          BY FS_Singleton
        <5> QED
          BY <5>1, FS_Subset, FS_CardinalityType DEF Found
      <4>3. Others(b) /\ Stored(b)
        BY <3>1, <4>1 DEF Others, Stored, Found
      <4> QED
        BY <2>14, <4>1, <4>2, <4>3
    <3>3. CASE NotUpdated(b) /\ Fails(b)
      BY <2>4, <3>3
    <3> QED
      BY <3>2, <3>3
  <2>9. CASE ChangeGoods(b)
    <3>1. /\ prog[b].kind = "change" /\ Field(prog[b].post, 1, Garbage) = prog[b].id
          /\ Target(b) = prog[b].id
      BY <2>1, <2>9, StoredRows DEF ChangeGoods, Running, Target
    <3>2. CASE ~(NotUpdated(b) /\ (Fails(b) \/ Refusable(Fields(prog[b].post, 1))))
      <4>1. PICK r \in RowsOf(Fields(prog[b].post, 1)) :
              /\ goods' = WriteRow(Found(prog[b].id), prog[b].id, r)
              /\ Updated(b, TRUE, Cardinality({i \in Found(prog[b].id) : goods[i] # r}))
        BY <2>9, <3>1, <3>2 DEF ChangeGoods
      <4>2. Cardinality({i \in Found(prog[b].id) : goods[i] # r}) \in Nat
        <5>1. IsFiniteSet({prog[b].id})
          BY FS_Singleton
        <5>2. {i \in Found(prog[b].id) : goods[i] # r} \subseteq {prog[b].id}
          BY DEF Found
        <5> QED
          BY <5>1, <5>2, FS_Subset, FS_CardinalityType
      <4>3. Others(b) /\ DOMAIN goods' = DOMAIN goods
        BY <3>1, <4>1 DEF Others, WriteRow, Found
      <4>4. CASE Target(b) \in DOMAIN goods
        <5>1. goods'[Target(b)] = r
          BY <3>1, <4>1, <4>4 DEF WriteRow, Found
        <5>2. ~Blank(b) => r = prog[b].want
          BY <2>1, <3>1, <4>1, OnlyWanted
        <5>3. ~Blank(b) => Stored(b)
          BY <3>1, <4>3, <4>4, <5>1, <5>2 DEF Stored
        <5> QED
          BY <2>14, <4>1, <4>2, <4>3, <5>3
      <4>5. CASE Target(b) \notin DOMAIN goods
        <5>1. Deleted(b)
          BY <2>1, <3>1, <4>5 DEF Expects, Deleted
        <5>2. goods' = goods
          <6>1. goods' = [i \in DOMAIN goods |-> goods[i]]
            BY <3>1, <4>1, <4>5 DEF WriteRow, Found
          <6>2. goods = [i \in DOMAIN goods |-> goods[i]]
            BY <1>1 DEF EInv
          <6> QED
            BY <6>1, <6>2
        <5>3. UNCHANGED <<given, types>>
          BY <2>9 DEF ChangeGoods, NotUpdated
        <5> QED
          BY <4>3, <5>1, <5>2, <5>3
      <4> QED
        BY <4>4, <4>5
    <3>3. CASE NotUpdated(b) /\ Fails(b)
      BY <2>4, <3>3
    <3>4. CASE NotUpdated(b) /\ Refusable(Fields(prog[b].post, 1))
      <4>1. Blank(b)
        BY <2>1, <3>1, <3>4, OnlyWanted
      <4> QED
        BY <3>4, <4>1 DEF NotUpdated, Others
    <3> QED
      BY <3>2, <3>3, <3>4
  <2>10. ~User(b)
    BY <2>5 DEF User, Follow, Pick, SubmitAdd, SubmitType, SubmitChange, SubmitFind, Starts
  <2>11. ~Connect(b) /\ ~SelectRow(b) /\ ~Release(b) /\ ~Show(b)
    BY <2>1 DEF Connect, SelectRow, Release, Show
  <2>12. ~StoreFails(b)
    <3>1. Crash(b) => prog'[b].pc = "none"
      BY <2>1 DEF Crash, Idle
    <3> QED
      BY <2>1, <3>1 DEF StoreFails
  <2>13. ~SelectTypes(b) /\ ~SelectGoods(b)
    <3>1. SelectTypes(b) => prog'[b].page.at = prog[b].page.at
      BY <2>1 DEF SelectTypes, Selected, ProgFields, PageFields
    <3>2. SelectGoods(b) => prog'[b].page.at = "list"
      BY <2>1 DEF SelectGoods, Selected, ProgFields, Page
    <3> QED
      BY <2>1, <3>1, <3>2 DEF Expects
  <2> QED
    BY <2>2, <2>3, <2>6, <2>7, <2>8, <2>9, <2>10, <2>11, <2>12, <2>13 DEF Program
<1>2. EInv /\ [Next]_vars =>
        [\A b \in Browsers : Alerts(b) =>
           /\ Others(b)
           /\ \/ Stored(b) /\ prog'[b].page.says = "success"
              \/ Blank(b)
              \/ /\ UNCHANGED <<goods, given, types>>
                 /\ Fails(b) \/ Deleted(b)]_vars
  BY <1>1
<1>3. Init => EInv
  BY GoodsInit DEF EInv, Expects, Init, Idle
<1> QED
  BY <1>2, <1>3, ExpectsNext, PTL DEF Spec, AlertsExplained
-----------------------------------------------------------------------------
(* The words of a search form: a key, and what was filled in, if anything. *)
Behind(u, s, n, key, w) ==
  /\ u \in Seq(Text) /\ u[n + 1] = key /\ \A i \in 1..n : u[i] = s[i]
  /\ w = None => Len(u) = n + 1
  /\ w # None => Len(u) = n + 2 /\ u[n + 2] = w

(* Where one field of a search form is found behind the fields before it.  *)
LEMMA PairBehind ==
  ASSUME NEW s \in Seq(Text), NEW n \in Nat, Len(s) = n, NEW key \in Text, NEW w \in Text
  PROVE  Behind(s \o Pair(key, w), s, n, key, w)
<1>1. CASE w = None
  <2>1. Pair(key, w) = <<key>> /\ <<key>> \in Seq(Text) /\ Len(<<key>>) = 1 /\ <<key>>[1] = key
    BY <1>1 DEF Pair
  <2> QED
    BY <1>1, <2>1 DEF Behind
<1>2. CASE w # None
  <2>1. /\ Pair(key, w) = <<key, w>> /\ <<key, w>> \in Seq(Text) /\ Len(<<key, w>>) = 2
        /\ <<key, w>>[1] = key /\ <<key, w>>[2] = w
    BY <1>2 DEF Pair
  <2> QED
    BY <1>2, <2>1 DEF Behind
<1> QED
  BY <1>1, <1>2

(* The words of a search: in their places when every field has one, moved  *)
(* by the first field that has none.                                       *)
SearchWords(ws, w) ==
  /\ None \notin {w.id, w.name, w.low, w.high} =>
       /\ Len(ws) = 12 /\ ws[2] = w.id /\ ws[4] = w.name /\ ws[6] = w.type
       /\ ws[8] = w.low /\ ws[10] = w.high /\ ws[12] = IF w.size = None THEN "any" ELSE w.size
  /\ w.id = None => Len(ws) >= 2 /\ ws[2] = "god_name"
  /\ w.id # None /\ w.name = None => Len(ws) >= 6 /\ ws[6] = "god_price_l"
  /\ None \notin {w.id, w.name} /\ w.low = None => Len(ws) >= 8 /\ ws[8] = "god_price_h"
  /\ None \notin {w.id, w.name, w.low} /\ w.high = None => Len(ws) >= 10 /\ ws[10] = "god_size"

(* The words of a search: those of fields filled in stand where they are   *)
(* looked for; where a field is empty, a key stands in the place of a      *)
(* value.                                                                  *)
LEMMA SearchedWords ==
  ASSUME NEW w, w.id \in Text, w.name \in Text, w.type \in Text \ {None}, w.low \in Text, w.high \in Text,
         w.size \in Text
  PROVE  SearchWords(Searched(w), w)
<1> DEFINE z == IF w.size = None THEN "any" ELSE w.size
<1>1. "god_id" \in Text /\ "god_name" \in Text /\ "god_type" \in Text /\ "god_size" \in Text
  BY DEF Text, Words, Keys
<1>2. "god_price_l" \in Text /\ "god_price_h" \in Text /\ "any" \in Text
  BY DEF Text, Words, Marks
<1>3. z \in Text /\ z # None
  BY <1>2 DEF None
<1> HIDE DEF z
<1> DEFINE a1 == Pair("god_id", w.id)
           a2 == a1 \o Pair("god_name", w.name)
           a3 == a2 \o Pair("god_type", w.type)
           a4 == a3 \o Pair("god_price_l", w.low)
           a5 == a4 \o Pair("god_price_h", w.high)
           a6 == a5 \o Pair("god_size", z)
           n1 == Len(a1)  n2 == Len(a2)  n3 == Len(a3)  n4 == Len(a4)  n5 == Len(a5)  n6 == Len(a6)
<1>4. Searched(w) = a6
  BY DEF Searched, z
<1>5. /\ a1 \in Seq(Text) /\ n1 \in Nat /\ Len(a1) = n1
      /\ w.id = None => n1 = 1
      /\ w.id # None => n1 = 2 /\ a1[2] = w.id
  BY <1>1 DEF Pair
<1> HIDE DEF a1, n1
<1>6. /\ a2 \in Seq(Text) /\ n2 \in Nat /\ Len(a2) = n2
      /\ w.id = None => n2 >= 2 /\ a2[2] = "god_name"
      /\ w.id # None /\ w.name = None => n2 = 3 /\ a2[2] = w.id
      /\ None \notin {w.id, w.name} => n2 = 4 /\ a2[2] = w.id /\ a2[4] = w.name
  <2>1. "god_name" \in Text /\ w.name \in Text
    BY <1>1, <1>2, <1>3
  <2>2. Behind(a2, a1, n1, "god_name", w.name)
    BY <1>5, <2>1, PairBehind
  <2> HIDE DEF a2
  <2>3. n2 \in Nat /\ Len(a2) = n2
    BY <2>2 DEF Behind
  <2>4. /\ w.name = None => n2 = n1 + 1
        /\ w.name # None => n2 = n1 + 2
    BY <2>2 DEF Behind
  <2> HIDE DEF n2
  <2> QED
    BY <1>3, <1>5, <2>2, <2>3, <2>4 DEF Behind
<1> HIDE DEF a2, n2
<1>7. /\ a3 \in Seq(Text) /\ n3 \in Nat /\ Len(a3) = n3
      /\ w.id = None => n3 >= 2 /\ a3[2] = "god_name"
      /\ w.id # None /\ w.name = None => n3 = 5 /\ a3[2] = w.id
      /\ None \notin {w.id, w.name} => n3 = 6 /\ a3[2] = w.id /\ a3[4] = w.name /\ a3[6] = w.type
  <2>1. "god_type" \in Text /\ w.type \in Text
    BY <1>1, <1>2, <1>3
  <2>2. Behind(a3, a2, n2, "god_type", w.type)
    BY <1>6, <2>1, PairBehind
  <2> HIDE DEF a3
  <2>3. n3 \in Nat /\ Len(a3) = n3
    BY <2>2 DEF Behind
  <2>4. /\ w.type = None => n3 = n2 + 1
        /\ w.type # None => n3 = n2 + 2
    BY <2>2 DEF Behind
  <2> HIDE DEF n3
  <2> QED
    BY <1>3, <1>6, <2>2, <2>3, <2>4 DEF Behind
<1> HIDE DEF a3, n3
<1>8. /\ a4 \in Seq(Text) /\ n4 \in Nat /\ Len(a4) = n4
      /\ w.id = None => n4 >= 2 /\ a4[2] = "god_name"
      /\ w.id # None /\ w.name = None => n4 >= 6 /\ a4[6] = "god_price_l"
      /\ None \notin {w.id, w.name} =>
           /\ a4[2] = w.id /\ a4[4] = w.name /\ a4[6] = w.type
           /\ w.low = None => n4 = 7
           /\ w.low # None => n4 = 8 /\ a4[8] = w.low
  <2>1. "god_price_l" \in Text /\ w.low \in Text
    BY <1>1, <1>2, <1>3
  <2>2. Behind(a4, a3, n3, "god_price_l", w.low)
    BY <1>7, <2>1, PairBehind
  <2> HIDE DEF a4
  <2>3. n4 \in Nat /\ Len(a4) = n4
    BY <2>2 DEF Behind
  <2>4. /\ w.low = None => n4 = n3 + 1
        /\ w.low # None => n4 = n3 + 2
    BY <2>2 DEF Behind
  <2> HIDE DEF n4
  <2> QED
    BY <1>3, <1>7, <2>2, <2>3, <2>4 DEF Behind
<1> HIDE DEF a4, n4
<1>9. /\ a5 \in Seq(Text) /\ n5 \in Nat /\ Len(a5) = n5
      /\ w.id = None => n5 >= 2 /\ a5[2] = "god_name"
      /\ w.id # None /\ w.name = None => n5 >= 6 /\ a5[6] = "god_price_l"
      /\ None \notin {w.id, w.name} /\ w.low = None => n5 >= 8 /\ a5[8] = "god_price_h"
      /\ None \notin {w.id, w.name, w.low} =>
           /\ a5[2] = w.id /\ a5[4] = w.name /\ a5[6] = w.type /\ a5[8] = w.low
           /\ w.high = None => n5 = 9
           /\ w.high # None => n5 = 10 /\ a5[10] = w.high
  <2>1. "god_price_h" \in Text /\ w.high \in Text
    BY <1>1, <1>2, <1>3
  <2>2. Behind(a5, a4, n4, "god_price_h", w.high)
    BY <1>8, <2>1, PairBehind
  <2> HIDE DEF a5
  <2>3. n5 \in Nat /\ Len(a5) = n5
    BY <2>2 DEF Behind
  <2>4. /\ w.high = None => n5 = n4 + 1
        /\ w.high # None => n5 = n4 + 2
    BY <2>2 DEF Behind
  <2> HIDE DEF n5
  <2> QED
    BY <1>3, <1>8, <2>2, <2>3, <2>4 DEF Behind
<1> HIDE DEF a5, n5
<1>10. /\ a6 \in Seq(Text) /\ n6 \in Nat /\ Len(a6) = n6
       /\ w.id = None => n6 >= 2 /\ a6[2] = "god_name"
       /\ w.id # None /\ w.name = None => n6 >= 6 /\ a6[6] = "god_price_l"
       /\ None \notin {w.id, w.name} /\ w.low = None => n6 >= 8 /\ a6[8] = "god_price_h"
       /\ None \notin {w.id, w.name, w.low} /\ w.high = None => n6 >= 10 /\ a6[10] = "god_size"
       /\ None \notin {w.id, w.name, w.low, w.high} =>
            /\ n6 = 12 /\ a6[2] = w.id /\ a6[4] = w.name /\ a6[6] = w.type
            /\ a6[8] = w.low /\ a6[10] = w.high /\ a6[12] = z
  <2>1. "god_size" \in Text /\ z \in Text
    BY <1>1, <1>2, <1>3
  <2>2. Behind(a6, a5, n5, "god_size", z)
    BY <1>9, <2>1, PairBehind
  <2> HIDE DEF a6
  <2>3. n6 \in Nat /\ Len(a6) = n6
    BY <2>2 DEF Behind
  <2>4. /\ z = None => n6 = n5 + 1
        /\ z # None => n6 = n5 + 2
    BY <2>2 DEF Behind
  <2> HIDE DEF n6
  <2> QED
    BY <1>3, <1>9, <2>2, <2>3, <2>4 DEF Behind
<1> HIDE DEF a6, n6
<1> QED
  BY <1>4, <1>10 DEF SearchWords, z

(* What a search program was asked is what somebody filled in.             *)
Query(q, t) == [id |-> q.id, name |-> q.name, type |-> t, low |-> q.low, high |-> q.high, size |-> q.size]

Sought(b) ==
  prog[b].kind = "found" =>
    \E q \in Searches, t \in TypeSet \cup {NoType} :
      prog[b].want = Query(q, t) /\ prog[b].post = Searched(prog[b].want)

SInv == WInv /\ \A b \in Browsers : Sought(b)

(* A program keeps its request as long as it runs.                         *)
LEMMA RequestKept ==
  ASSUME GInv, NEW b \in Browsers, Program(b)
  PROVE  \/ prog'[b].kind = "none"
         \/ prog'[b].kind = prog[b].kind /\ prog'[b].want = prog[b].want /\ prog'[b].post = prog[b].post
<1>1. DOMAIN prog = Browsers /\ DOMAIN prog[b] = ProgFields
  BY DEF GInv, FInv, Shape
<1>2. ASSUME NEW ok, NEW n, Updated(b, ok, n)
      PROVE  prog'[b].kind = prog[b].kind /\ prog'[b].want = prog[b].want /\ prog'[b].post = prog[b].post
  BY <1>1, <1>2 DEF Updated, ProgFields
<1>3. ASSUME NEW ok, NEW p, NEW next, Selected(b, ok, p, next)
      PROVE  prog'[b].kind = prog[b].kind /\ prog'[b].want = prog[b].want /\ prog'[b].post = prog[b].post
  BY <1>1, <1>3 DEF Selected, ProgFields
<1>4. Crash(b) => prog'[b].kind = "none"
  BY <1>1 DEF Crash, Idle
<1>5. CASE Connect(b) \/ Release(b) \/ Show(b)
  BY <1>1, <1>5 DEF Connect, Release, Show, Idle, ProgFields
<1>6. CASE AddGoods(b) \/ AddType(b) \/ DelGoods(b) \/ ChangeGoods(b)
  BY <1>2, <1>6 DEF AddGoods, AddType, DelGoods, ChangeGoods, NotUpdated
<1>7. CASE SelectTypes(b) \/ SelectGoods(b) \/ SelectRow(b) \/ StoreFails(b)
  BY <1>3, <1>4, <1>7 DEF SelectTypes, SelectGoods, SelectRow, StoreFails
<1> QED
  BY <1>5, <1>6, <1>7 DEF Program

(* A search begins with the words of a form that the user filled in.       *)
LEMMA UserSeeks ==
  ASSUME GInv, NEW b \in Browsers, User(b), prog'[b].kind = "found"
  PROVE  \E q \in Searches, t \in TypeSet \cup {NoType} :
           prog'[b].want = Query(q, t) /\ prog'[b].post = Searched(prog'[b].want)
<1>1. DOMAIN prog = Browsers /\ page[b].types \subseteq TypeSet
  BY DEF GInv, FInv, Shape, Typed, Screen
<1>2. ASSUME NEW kind, NEW id, NEW post, NEW want, Starts(b, kind, id, post, want)
      PROVE  prog'[b].kind = kind /\ prog'[b].post = post /\ prog'[b].want = want
  BY <1>1, <1>2 DEF Starts
<1>3. ~Follow(b) /\ ~Pick(b) /\ ~SubmitAdd(b) /\ ~SubmitType(b) /\ ~SubmitChange(b)
  <2>1. \A kind, id, post, want : Starts(b, kind, id, post, want) => kind = "found"
    BY <1>2
  <2>2. ~Follow(b) /\ ~Pick(b)
    BY <2>1 DEF Follow, Pick
  <2>3. ~SubmitAdd(b) /\ ~SubmitType(b) /\ ~SubmitChange(b)
    BY <2>1, Zenon DEF SubmitAdd, SubmitType, SubmitChange
  <2> QED
    BY <2>2, <2>3
<1>4. PICK t \in page[b].types \cup {NoType}, q \in Searches :
        Starts(b, "found", None, Searched(Query(q, t)), Query(q, t))
  BY <1>3 DEF User, SubmitFind, Query
<1> QED
  BY <1>1, <1>2, <1>4

(* A program that searches keeps to them until it has listed what it       *)
(* found.                                                                  *)
LEMMA SoughtNext == ASSUME Willing, SInv, [Next]_vars PROVE SInv'
<1>1. WInv' /\ GInv /\ types \in Nat /\ types <= types'
  BY WillingNext, TypesOnlyGrow DEF SInv, WInv
<1>2. TypeSet \subseteq TypeSet'
  BY <1>1, TypesGrow, WillingNext, BoundsAssumption, IdsAssumption DEF WInv, GInv, Tables
<1>3. ASSUME NEW x \in Browsers,
             \/ prog'[x].kind = "none"
             \/ prog'[x].kind = prog[x].kind /\ prog'[x].want = prog[x].want /\ prog'[x].post = prog[x].post
      PROVE  Sought(x)'
  BY <1>2, <1>3 DEF SInv, Sought
<1>4. CASE UNCHANGED vars
  BY <1>1, <1>3, <1>4 DEF vars, SInv
<1>5. ASSUME NEW b \in Browsers, User(b) \/ Program(b) PROVE SInv'
  <2>1. ASSUME NEW x \in Browsers \ {b} PROVE Sought(x)'
    <3>1. prog'[x] = prog[x]
      BY <1>1, <1>5, StepAside DEF Aside
    <3> QED
      BY <1>3, <3>1
  <2>2. Sought(b)'
    <3>1. CASE User(b)
      BY <1>1, <1>2, <3>1, UserSeeks DEF Sought
    <3>2. CASE Program(b)
      BY <1>1, <1>3, <3>2, RequestKept
    <3> QED
      BY <1>5, <3>1, <3>2
  <2> QED
    BY <1>1, <2>1, <2>2 DEF SInv
<1> QED
  BY <1>4, <1>5 DEF Next

(* The conditions that get_select_sql reads from the words are the ones of *)
(* the form if no field is empty, and list nothing if one is.              *)
LEMMA ReadsTheForm ==
  ASSUME Tables, NEW q \in Searches, NEW t \in TypeSet \cup {NoType}, NEW w, w = Query(q, t)
  PROVE  LET ws == Searched(w)
         IN /\ ~Refused(ws) => {i \in Listed : Matches(i, ws)} = {i \in DOMAIN goods : Wanted(i, w)}
            /\ Refused(ws) => {i \in DOMAIN goods : Wanted(i, w)} = {}
<1> DEFINE ws == Searched(w)
<1>1. /\ w.id \in Text /\ w.name \in Text /\ w.low \in Text /\ w.high \in Text /\ w.size \in Text
      /\ w.size # "any" /\ w.type = t
  BY SearchAssumption, WordsAssumption DEF Search, Query
<1>2. t \in Numbers
  BY IdsAssumption DEF Tables, TypeSet, Numbers, Elems
<1>3. t # None /\ t \in Text
  BY <1>2, WordsAssumption DEF Text, Words
<1>4. SearchWords(ws, w)
  BY <1>1, <1>3, SearchedWords
<1> HIDE DEF ws
<1>5. \A i \in DOMAIN goods : i \in Elems(GoodsIds)
  BY DEF Tables, Elems
<1>6. /\ \A p, r : Above(p, r) => p \in Elems(Prices) /\ r \in Elems(Prices)
      /\ Elems(Prices) \subseteq Numbers
  BY DEF Above, Elems, Numbers
<1>7. /\ \A k \in Keys \cup Marks \cup {None} : k \notin Numbers /\ k \notin Elems(GoodsIds)
      /\ Numbers \cup Elems(GoodsIds) \subseteq Readable /\ {"xx", "xx.xx"} \subseteq Readable
  BY WordsAssumption DEF Readable
<1>8. CASE None \notin {w.id, w.name, w.low, w.high}
  <2>1. /\ Field(ws, 1, None) = w.id /\ Field(ws, 2, None) = w.name /\ Field(ws, 3, None) = t
        /\ Field(ws, 4, None) = w.low /\ Field(ws, 5, None) = w.high
        /\ Field(ws, 6, None) = IF w.size = None THEN "any" ELSE w.size
    <3>1. /\ Len(ws) = 12 /\ ws[2] = w.id /\ ws[4] = w.name /\ ws[6] = w.type
          /\ ws[8] = w.low /\ ws[10] = w.high /\ ws[12] = IF w.size = None THEN "any" ELSE w.size
      BY <1>4, <1>8, Zenon DEF SearchWords
    <3>2. /\ Field(ws, 1, None) = ws[2] /\ Field(ws, 2, None) = ws[4] /\ Field(ws, 3, None) = ws[6]
          /\ Field(ws, 4, None) = ws[8] /\ Field(ws, 5, None) = ws[10] /\ Field(ws, 6, None) = ws[12]
      BY <3>1 DEF Field
    <3> QED
      BY <1>1, <3>1, <3>2
  <2>2. ASSUME NEW i \in DOMAIN goods PROVE Wanted(i, w) <=> i \in Listed /\ Matches(i, ws)
    BY <1>1, <1>3, <1>8, <2>1 DEF Wanted, Matches, Listed, None
  <2>3. ASSUME NEW i \in DOMAIN goods, Wanted(i, w) PROVE ~Refused(ws)
    <3>1. w.id \in Readable /\ w.low \in Readable /\ w.high \in Readable /\ t \in Readable
      BY <1>2, <1>5, <1>6, <1>7, <2>3 DEF Wanted
    <3> QED
      BY <2>1, <3>1 DEF Refused
  <2> QED
    BY <2>2, <2>3 DEF Listed, ws
<1>9. CASE None \in {w.id, w.name, w.low, w.high}
  <2>1. {i \in DOMAIN goods : Wanted(i, w)} = {}
    BY <1>9 DEF Wanted
  <2>2. ASSUME ~Refused(ws), NEW i \in DOMAIN goods PROVE ~Matches(i, ws)
    <3>1. CASE w.id = None
      <4>1. Field(ws, 1, None) = "god_name"
        BY <1>4, <3>1 DEF SearchWords, Field
      <4> QED
        BY <1>5, <1>7, <4>1 DEF Matches, None, Keys
    <3>2. CASE w.id # None /\ w.name = None
      <4>1. Field(ws, 3, None) = "god_price_l"
        BY <1>4, <3>2 DEF SearchWords, Field
      <4>2. "god_price_l" \notin Readable
        BY <1>7 DEF Readable, Marks, None
      <4> QED
        BY <2>2, <4>1, <4>2 DEF Refused
    <3>3. CASE None \notin {w.id, w.name} /\ w.low = None
      <4>1. Field(ws, 4, None) = "god_price_h"
        BY <1>4, <3>3 DEF SearchWords, Field
      <4>2. "god_price_h" \notin Readable
        BY <1>7 DEF Readable, Marks, None
      <4> QED
        BY <2>2, <4>1, <4>2 DEF Refused
    <3>4. CASE None \notin {w.id, w.name, w.low} /\ w.high = None
      <4>1. Field(ws, 5, None) = "god_size"
        BY <1>4, <3>4 DEF SearchWords, Field
      <4>2. "god_size" \notin Elems(Prices) /\ "god_size" \notin {None, "xx.xx"}
        BY <1>6, <1>7 DEF Keys, None
      <4> QED
        BY <1>6, <4>1, <4>2 DEF Matches
    <3> QED
      BY <1>9, <3>1, <3>2, <3>3, <3>4
  <2> QED
    BY <2>1, <2>2 DEF Listed, ws
<1> QED
  BY <1>8, <1>9

(* When no statement fails, a search lists exactly the goods that meet     *)
(* every condition filled in, and none when a field was left empty.        *)
THEOREM SearchesExact == Willing => (Spec => SearchExact)
<1> SUFFICES ASSUME Willing PROVE Spec => SearchExact
  OBVIOUS
<1>1. ASSUME SInv, [Next]_vars, NEW b \in Browsers,
             prog[b].kind = "found", prog[b].pc = "run", prog'[b].pc = "exit"
      PROVE  prog'[b].page.ids = {i \in DOMAIN goods : Wanted(i, prog[b].want)}
  <2>1. /\ GInv /\ Tables /\ Ready(b) /\ Sought(b)
        /\ DOMAIN prog = Browsers /\ DOMAIN prog[b] = ProgFields
    BY <1>1 DEF SInv, WInv, GInv, FInv, Shape
  <2>2. PICK c \in Browsers : User(c) \/ Program(c)
    BY <1>1 DEF Next, vars
  <2>3. c = b
    BY <1>1, <2>1, <2>2, StepAside DEF Aside
  <2>4. Works(b) /\ ~Fails(b)
    BY <1>1, <2>1, NothingFails
  <2>5. SelectGoods(b)
    <3>1. ~User(b)
      BY <1>1 DEF User, Follow, Pick, SubmitAdd, SubmitType, SubmitChange, SubmitFind, Starts
    <3>2. /\ ~Connect(b) /\ ~AddGoods(b) /\ ~AddType(b) /\ ~DelGoods(b) /\ ~ChangeGoods(b)
          /\ ~SelectTypes(b) /\ ~SelectRow(b) /\ ~Release(b) /\ ~Show(b)
      BY <1>1 DEF Connect, AddGoods, AddType, DelGoods, ChangeGoods, SelectTypes, SelectRow,
                  Release, Show, Running
    <3>3. ~StoreFails(b)
      BY <1>1, <2>1, NothingFails DEF StoreFails
    <3> QED
      BY <2>2, <2>3, <3>1, <3>2, <3>3 DEF Program
  <2>6. ASSUME NEW ok, NEW p, Selected(b, ok, p, "exit") PROVE prog'[b].page = p
    BY <2>1, <2>6 DEF Selected, ProgFields
  <2> DEFINE ws == prog[b].post
             w  == prog[b].want
  <2>7. prog'[b].page.ids = IF Refused(ws) THEN {} ELSE {i \in Listed : Matches(i, ws)}
    <3>1. CASE Refused(ws)
      <4>1. prog'[b].page = Page("list")
        BY <1>1, <2>4, <2>5, <2>6, <3>1 DEF SelectGoods
      <4> QED
        BY <3>1, <4>1 DEF Page
    <3>2. CASE ~Refused(ws)
      <4>1. prog'[b].page = [Page("list") EXCEPT !.ids = {i \in Listed : Matches(i, ws)}]
        BY <1>1, <2>4, <2>5, <2>6, <3>2 DEF SelectGoods
      <4> QED
        BY <3>2, <4>1 DEF Page
    <3> QED
      BY <3>1, <3>2
  <2>8. PICK q \in Searches, t \in TypeSet \cup {NoType} : w = Query(q, t) /\ ws = Searched(w)
    BY <1>1, <2>1 DEF Sought
  <2> QED
    BY <2>1, <2>7, <2>8, ReadsTheForm
<1>2. SInv /\ [Next]_vars =>
        [\A b \in Browsers :
           prog[b].kind = "found" /\ prog[b].pc = "run" /\ prog'[b].pc = "exit" =>
             prog'[b].page.ids = {i \in DOMAIN goods : Wanted(i, prog[b].want)}]_vars
  BY <1>1
<1>3. SInv /\ [Next]_vars => SInv'
  BY SoughtNext
<1>4. Init => SInv
  BY WillingInit DEF SInv, Sought, Init, Idle
<1> QED
  BY <1>2, <1>3, <1>4, PTL DEF Spec, SearchExact
=============================================================================
