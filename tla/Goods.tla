------------------------------- MODULE Goods -------------------------------
(***************************************************************************)
(* The goods administration of htdocs/cgi_bin: browsers, the CGI programs  *)
(* their links and forms start, and the database the programs share.  Each *)
(* request is a process of its own with its own sql_connecter objects; the *)
(* processes of several browsers interleave between their statements, and  *)
(* a page stays on a screen while others change what it shows.             *)
(*                                                                         *)
(* The database is external: statements are atomic, ids count up and are   *)
(* not reused.  A form arrives as the words that sscanf finds in it.       *)
(***************************************************************************)
EXTENDS Integers, Sequences, FiniteSets, SqlConnecter

CONSTANTS
  Browsers,
  GoodsIds,        \* god_id values in the order the database gives them out
  TypeIds,         \* godt_id values, likewise
  FirstTypes,      \* how many types there are in the beginning
  Entries,         \* names, prices and sizes the users enter; "" is a blank field
  Searches,        \* what the users fill into the search form, types aside
  Within,          \* external, of like: <<s, t>> when s is somewhere in t
  Prices,          \* the prices that occur, from the lowest to the highest
  MaxConnections,  \* connections the database accepts
  Failing          \* which of "query" and "store" may fail

Elems(s)   == {s[i] : i \in DOMAIN s}
NoType     == "-1"   \* the option -please choice-
None       == ""
Garbage    == "?"    \* what an array that was never written holds
Odd        == "odd"  \* what a column holds that was given another column's value
Keys       == {"god_id", "god_name", "god_type", "god_price", "god_size"}
Numbers    == Elems(TypeIds) \cup {NoType} \cup Elems(Prices)
Marks      == {"xx", "xx.xx", "any", "god_price_l", "god_price_h"}
Words      == Elems(GoodsIds) \cup Keys \cup Numbers \cup Marks
                \cup UNION {{e.name, e.size} : e \in Entries} \cup {q.name : q \in Searches}
Text       == Words \cup {None, Garbage, Odd}
Row        == [name : Text, type : Text, price : Text, size : Text]
Search     == [id : Text, name : Text, low : Text, high : Text, size : Text]
NoRow      == [name |-> None, type |-> None, price |-> None, size |-> None]

Kinds == {"list", "found", "add_show", "find_show", "add", "add_type", "del", "change_show", "change"}

ASSUME IdsAssumption == /\ GoodsIds \in Seq(STRING) /\ TypeIds \in Seq(STRING)
                        /\ \A i, j \in DOMAIN GoodsIds : GoodsIds[i] = GoodsIds[j] => i = j
                        /\ \A i, j \in DOMAIN TypeIds : TypeIds[i] = TypeIds[j] => i = j
ASSUME SearchAssumption == Searches \subseteq Search /\ Within \subseteq STRING \X STRING /\ Prices \in Seq(Numbers)
                             /\ \A e \in Entries : e.price \in Elems(Prices) \cup {None}

(* Ids and prices are none of the words that stand for something else.     *)
ASSUME WordsAssumption ==
  /\ (Numbers \cup Elems(GoodsIds)) \cap
       (Keys \cup Marks \cup {None, Garbage, Odd}) = {}
  /\ \A q \in Searches : q.size # "any"
ASSUME BoundsAssumption == FirstTypes \in 0..Len(TypeIds) /\ MaxConnections \in Nat /\ IsFiniteSet(Browsers)

VARIABLES
  goods,    \* the table goods: god_id -> row
  given,    \* how many god_id values the database has given out
  types,    \* how many rows the table goods_type has
  page,     \* per browser: what is on its screen
  prog,     \* per browser: the program that answers its request
  objs,     \* per browser: the sql_connecter objects of the program, innermost last
  touched   \* per browser: the goods others changed since its page read them

vars == <<goods, given, types, page, prog, objs, touched>>

TypeSet == {TypeIds[i] : i \in 1..types}

(* A screen: an alert says something; a list has ids, a form to change      *)
(* goods the row, and forms have the types to choose from.                 *)
Page(at) == [at |-> at, ids |-> {}, id |-> None, row |-> NoRow, types |-> {}, says |-> None]
Idle     == [kind |-> "none", pc |-> "none", id |-> None, post |-> <<>>, want |-> NoRow, page |-> Page("index")]

Init ==
  /\ goods = [i \in {} |-> NoRow]
  /\ given = 0 /\ types = FirstTypes
  /\ page = [b \in Browsers |-> Page("index")]
  /\ prog = [b \in Browsers |-> Idle]
  /\ objs = [b \in Browsers |-> <<>>]
  /\ touched = [b \in Browsers |-> {}]
-----------------------------------------------------------------------------
(* Requests.                                                               *)

Starts(b, kind, id, post, want) ==
  /\ prog[b].kind = "none"
  /\ prog' = [prog EXCEPT ![b] = [kind |-> kind, pc |-> "connect", id |-> id, post |-> post,
                                  want |-> want, page |-> Page(kind)]]
  /\ UNCHANGED <<goods, given, types, page, objs, touched>>

(* The words of a posted form: '=' and '&' became blanks, so that a field  *)
(* left empty is no word, and a radio button not chosen is not sent.  (A    *)
(* mutant has the price before the type.)                                  *)
Pair(key, w) == IF w = None THEN <<key>> ELSE <<key, w>>
Radio(key, w) == IF w = None THEN <<>> ELSE <<key, w>>
PostedSwapped(r) ==
  Pair("god_name", r.name) \o Pair("god_price", r.price) \o Pair("god_type", r.type) \o Radio("god_size", r.size)
Posted(r) ==
  Pair("god_name", r.name) \o Pair("god_type", r.type) \o Pair("god_price", r.price) \o Radio("god_size", r.size)

(* Links lead to the lists and the forms from anywhere, and after an alert *)
(* to the list.                                                            *)
Follow(b) ==
  \E kind \in {"list", "add_show", "find_show"} : Starts(b, kind, None, <<>>, NoRow)

Pick(b) ==
  /\ page[b].at = "list"
  /\ \E kind \in {"del", "change_show"}, id \in page[b].ids : Starts(b, kind, id, <<>>, NoRow)

(* A bound of the model: no more ids are asked for than there are.         *)
Asking(kind) == Cardinality({b \in Browsers : prog[b].kind = kind /\ prog[b].pc \in {"connect", "run"}})

SubmitAdd(b) ==
  /\ page[b].at = "add_show" /\ given + Asking("add") < Len(GoodsIds)
  /\ \E e \in Entries, t \in page[b].types \cup {NoType} :
       LET r == [name |-> e.name, type |-> t, price |-> e.price, size |-> e.size]
       IN Starts(b, "add", None, Posted(r), r)

SubmitType(b) ==
  /\ types + Asking("add_type") < Len(TypeIds)
  /\ Starts(b, "add_type", None, <<>>, NoRow)

SubmitChange(b) ==
  /\ page[b].at = "change_show"
  /\ \E e \in Entries, t \in page[b].types :
       LET r == [name |-> e.name, type |-> t, price |-> e.price, size |-> e.size]
       IN Starts(b, "change", page[b].id, <<"god_id", page[b].id>> \o Posted(r), r)

(* A search; the fields left as they come say xx, and the size, if none is *)
(* chosen, any.                                                            *)
Searched(w) ==
  Pair("god_id", w.id) \o Pair("god_name", w.name) \o Pair("god_type", w.type) \o Pair("god_price_l", w.low)
    \o Pair("god_price_h", w.high) \o Pair("god_size", IF w.size = None THEN "any" ELSE w.size)

SubmitFind(b) ==
  /\ page[b].at = "find_show"
  /\ \E t \in page[b].types \cup {NoType}, q \in Searches :
       LET w == [id |-> q.id, name |-> q.name, type |-> t, low |-> q.low, high |-> q.high, size |-> q.size]
       IN Starts(b, "found", None, Searched(w), w)
-----------------------------------------------------------------------------
(* What the programs make of their input.                                  *)

(* sscanf takes every second word; what it does not find it leaves alone.  *)
Field(ws, n, otherwise) == IF 2 * n <= Len(ws) THEN ws[2 * n] ELSE otherwise

(* The fields of a form, which begin after skip pairs.  (A mutant forgets  *)
(* the id before them.)                                                    *)
FieldsFromStart(ws, skip) == [n \in 1..4 |-> Field(ws, n, Garbage)]
Fields(ws, skip)          == [n \in 1..4 |-> Field(ws, skip + n, Garbage)]

(* What a column takes that is given a word without quotes: a number as it *)
(* is, the name of a column for what that holds, anything else not at all. *)
Taken(w) == IF w \in Numbers THEN {w} ELSE IF w \in Keys THEN {Odd} ELSE {}

(* The rows that insert or update can store; what is not a number may also *)
(* be refused.                                                             *)
RowsOf(f)    == {[name |-> f[1], type |-> t, price |-> p, size |-> f[4]] : t \in Taken(f[2]), p \in Taken(f[3])}
Refusable(f) == {f[2], f[3]} \ Numbers # {}

(* The join that goods lists are made of.  (A mutant lists every row.)     *)
ListedAll == DOMAIN goods
Listed == {i \in DOMAIN goods : goods[i].type \in TypeSet}

(* get_select_sql: each field that is not empty and not as it came adds a  *)
(* condition.  The id, the type and the prices stand without quotes: a     *)
(* word that is neither a number nor a column makes the statement fail,    *)
(* and a text column counts as zero.  (A mutant reads the type where the    *)
(* name is.)                                                               *)
Readable    == Numbers \cup Elems(GoodsIds) \cup {"xx", "xx.xx", None}
                 \cup {"god_id", "god_name", "god_type", "god_price", "god_size"}
Refused(ws) == \E n \in {1, 3, 4, 5} : Field(ws, n, None) \notin Readable
Above(p, q) == \E i, j \in DOMAIN Prices : i >= j /\ p = Prices[i] /\ q = Prices[j]
MatchesShifted(i, ws) ==
  /\ Field(ws, 2, None) \in {None, NoType} \/ goods[i].type = Field(ws, 2, None)
  /\ Field(ws, 6, None) \in {None, "any"} \/ goods[i].size = Field(ws, 6, None)
Matches(i, ws) ==
  LET id   == Field(ws, 1, None)  name == Field(ws, 2, None)  type == Field(ws, 3, None)
      low  == Field(ws, 4, None)  high == Field(ws, 5, None)  size == Field(ws, 6, None)
  IN /\ id \in {None, "xx"} \/ i = id
     /\ name \in {None, "xx"} \/ <<name, goods[i].name>> \in Within
     /\ type \in {None, NoType} \/ goods[i].type = type
     /\ low \in {None, "xx.xx"} \/ Above(goods[i].price, low)
     /\ high \in {None, "xx.xx"} \/ Above(high, goods[i].price)
     /\ size \in {None, "any"} \/ goods[i].size = size
-----------------------------------------------------------------------------
(* The programs.                                                           *)

Top(b)      == objs[b][Len(objs[b])]
SetTop(b, o) == objs' = [objs EXCEPT ![b] = Append(SubSeq(@, 1, Len(@) - 1), o)]

(* The connections to the database: browser and position of the object.    *)
Connected == {c \in Browsers \X {1, 2} : c[2] <= Len(objs[c[1]]) /\ objs[c[1]][c[2]].conn = "open"}

(* A connection that is refused is not noticed.  A change has two objects:  *)
(* one of main(), which is not used, and one of change_god().              *)
Connect(b) ==
  /\ prog[b].pc = "connect"
  /\ objs' = [objs EXCEPT ![b] =
       Append(@, BeginConnect(NewObject, Cardinality(Connected) < MaxConnections))]
  /\ prog' = [prog EXCEPT ![b].pc =
       IF prog[b].kind = "change" /\ objs[b] = <<>> THEN "connect" ELSE "run"]
  /\ UNCHANGED <<goods, given, types, page, touched>>

Running(b, kinds) == prog[b].pc = "run" /\ prog[b].kind \in kinds
Works(b) == Top(b).conn = "open"
Fails(b) == ~Works(b) \/ "query" \in Failing

(* After exe_update the program says what became of the statement.         *)
Updated(b, ok, n) ==
  LET done == ExeUpdate(Top(b), [ok |-> ok, rows |-> FALSE, stored |-> FALSE, affected |-> n])
  IN /\ SetTop(b, done.obj)
     /\ prog' = [prog EXCEPT ![b].pc = "exit",
          ![b].page = [Page("alert") EXCEPT !.says = IF done.ret = -1 THEN "failed" ELSE "success"]]

NotUpdated(b) == Updated(b, FALSE, 0) /\ UNCHANGED <<goods, given, types, touched>>

Touch(b, ids) == touched' = [x \in Browsers |-> IF x = b THEN touched[x] ELSE touched[x] \cup ids]

(* There is an id left, as SubmitAdd has seen to it.                       *)
AddGoods(b) ==
  /\ Running(b, {"add"})
  /\ UNCHANGED page
  /\ \/ /\ Works(b) /\ given < Len(GoodsIds)
        /\ \E r \in RowsOf(Fields(prog[b].post, 0)) :
             goods' = [i \in DOMAIN goods \cup {GoodsIds[given + 1]} |->
                         IF i \in DOMAIN goods THEN goods[i] ELSE r]
        /\ given' = given + 1
        /\ Updated(b, TRUE, 1) /\ UNCHANGED <<types, touched>>
     \/ /\ Fails(b) \/ Refusable(Fields(prog[b].post, 0))
        /\ NotUpdated(b)

AddType(b) ==
  /\ Running(b, {"add_type"})
  /\ UNCHANGED page
  /\ \/ Works(b) /\ types' = types + 1 /\ Updated(b, TRUE, 1) /\ UNCHANGED <<goods, given, touched>>
     \/ Fails(b) /\ NotUpdated(b)

(* The rows that "where god_id=" finds.  (A mutant has lost the clause.)   *)
FoundAll(id) == DOMAIN goods
Found(id)    == DOMAIN goods \cap {id}

DelGoods(b) ==
  /\ Running(b, {"del"})
  /\ UNCHANGED page
  /\ \/ LET ids == Found(prog[b].id) IN
        /\ Works(b)
        /\ goods' = [i \in DOMAIN goods \ ids |-> goods[i]]
        /\ Touch(b, {prog[b].id})
        /\ Updated(b, TRUE, Cardinality(ids)) /\ UNCHANGED <<given, types>>
     \/ Fails(b) /\ NotUpdated(b)

(* (A mutant writes the row whether it is there or not.)                   *)
WriteAnyway(ids, id, r) == [i \in DOMAIN goods \cup {id} |-> IF i \in ids \cup {id} THEN r ELSE goods[i]]
WriteRow(ids, id, r)    == [i \in DOMAIN goods |-> IF i \in ids THEN r ELSE goods[i]]

ChangeGoods(b) ==
  LET id  == Field(prog[b].post, 1, Garbage)
      ids == Found(id)
  IN /\ Running(b, {"change"})
     /\ UNCHANGED page
     /\ \/ /\ Works(b)
           /\ \E r \in RowsOf(Fields(prog[b].post, 1)) :
                /\ goods' = WriteRow(ids, id, r)
                /\ Updated(b, TRUE, Cardinality({i \in ids : goods[i] # r}))
           /\ Touch(b, {id}) /\ UNCHANGED <<given, types>>
        \/ /\ Fails(b) \/ Refusable(Fields(prog[b].post, 1))
           /\ NotUpdated(b)

(* exe_select_type: the ids and names of all types.  (A mutant takes the    *)
(* name for the id, which atoi makes 0.)                                   *)
TypeMapSwapped == {"0"}
TypeMap == TypeSet

Selected(b, ok, p, next) ==
  /\ SetTop(b, ExeSelect(Top(b), [ok |-> ok, rows |-> TRUE, stored |-> TRUE, affected |-> 0]))
  /\ prog' = [prog EXCEPT ![b].page = p, ![b].pc = next]

(* The process dies: its connections end, and no page comes.               *)
Crash(b) ==
  /\ objs' = [objs EXCEPT ![b] = <<>>]
  /\ prog' = [prog EXCEPT ![b] = Idle]
  /\ page' = [page EXCEPT ![b] = Page("broken")]
  /\ UNCHANGED <<goods, given, types, touched>>

(* A result that could not be stored is a null pointer to mysql_num_rows.  *)
StoreFails(b) ==
  /\ Running(b, {"list", "found", "add_show", "find_show", "change_show"}) \/ prog[b].pc = "row"
  /\ Works(b) /\ "store" \in Failing
  /\ Crash(b)

SelectTypes(b) ==
  /\ Running(b, {"add_show", "find_show", "change_show"})
  /\ \/ Works(b) /\ Selected(b, TRUE, [prog[b].page EXCEPT !.types = TypeMap],
                              IF prog[b].kind = "change_show" THEN "row" ELSE "exit")
     \/ Fails(b) /\ Selected(b, FALSE, prog[b].page,
                              IF prog[b].kind = "change_show" THEN "row" ELSE "exit")
  /\ UNCHANGED <<goods, given, types, page, touched>>

SelectGoods(b) ==
  /\ Running(b, {"list", "found"})
  /\ \/ /\ Works(b) /\ (prog[b].kind = "list" \/ ~Refused(prog[b].post))
        /\ LET ids == IF prog[b].kind = "list" THEN Listed
                      ELSE {i \in Listed : Matches(i, prog[b].post)}
           IN Selected(b, TRUE, [Page("list") EXCEPT !.ids = ids], "exit")
        /\ touched' = [touched EXCEPT ![b] = {}]
     \/ /\ Fails(b) \/ (prog[b].kind = "found" /\ Refused(prog[b].post))
        /\ Selected(b, FALSE, Page("list"), "exit")
        /\ UNCHANGED touched
  /\ UNCHANGED <<goods, given, types, page>>

(* The form for one of the goods.  The first of no rows, and the name of a *)
(* type that was not among those selected, are not there to be read.       *)
SelectRow(b) ==
  LET id == prog[b].id
      there == id \in DOMAIN goods /\ goods[id].type \in prog[b].page.types
  IN /\ prog[b].pc = "row"
     /\ \/ /\ Works(b) /\ there
           /\ Selected(b, TRUE, [prog[b].page EXCEPT !.id = id, !.row = goods[id]], "exit")
           /\ touched' = [touched EXCEPT ![b] = {}]
           /\ UNCHANGED <<goods, given, types, page>>
        \/ (Fails(b) \/ ~there) /\ Crash(b)

Release(b) ==
  /\ prog[b].pc = "exit" /\ objs[b] # <<>>
  /\ objs' = [objs EXCEPT ![b] = SubSeq(@, 1, Len(@) - 1)]
  /\ UNCHANGED <<goods, given, types, page, prog, touched>>

Show(b) ==
  /\ prog[b].pc = "exit" /\ objs[b] = <<>>
  /\ page' = [page EXCEPT ![b] = prog[b].page]
  /\ prog' = [prog EXCEPT ![b] = Idle]
  /\ UNCHANGED <<goods, given, types, objs, touched>>
-----------------------------------------------------------------------------
User(b) == Follow(b) \/ Pick(b) \/ SubmitAdd(b) \/ SubmitType(b) \/ SubmitChange(b) \/ SubmitFind(b)

Program(b) ==
  \/ Connect(b) \/ AddGoods(b) \/ AddType(b) \/ DelGoods(b) \/ ChangeGoods(b)
  \/ SelectTypes(b) \/ SelectGoods(b) \/ SelectRow(b) \/ StoreFails(b) \/ Release(b) \/ Show(b)

Next == \E b \in Browsers : User(b) \/ Program(b)

Spec == Init /\ [][Next]_vars
-----------------------------------------------------------------------------
TypeOK ==
  /\ DOMAIN goods \subseteq {GoodsIds[i] : i \in 1..given} /\ \A i \in DOMAIN goods : goods[i] \in Row
  /\ given \in 0..Len(GoodsIds) /\ types \in FirstTypes..Len(TypeIds)
  /\ \A b \in Browsers :
       /\ page[b].ids \subseteq Elems(GoodsIds) /\ page[b].row \in Row /\ page[b].types \subseteq TypeSet
       /\ prog[b].kind \in Kinds \cup {"none"}
       /\ prog[b].pc \in {"none", "connect", "run", "row", "exit"}
       /\ \A i \in DOMAIN objs[b] : objs[b][i] \in Object
       /\ touched[b] \subseteq Elems(GoodsIds)

(* Every row is what somebody entered as a whole, and its type is one that *)
(* exists, so that the join of the goods list shows it, or the option that *)
(* says there is none.                                                     *)
Entered ==
  \A i \in DOMAIN goods :
    /\ \E e \in Entries : goods[i] = [name |-> e.name, type |-> goods[i].type, price |-> e.price, size |-> e.size]
    /\ goods[i].type \in TypeSet \cup {NoType}

(* What was deleted does not come back, though a form for it may still be  *)
(* open on another screen.                                                 *)
NeverBack == [][\A n \in 1..given : GoodsIds[n] \in DOMAIN goods' => GoodsIds[n] \in DOMAIN goods]_vars

(* A form to change goods shows the row as it is, unless another browser   *)
(* has changed or deleted those very goods since.                          *)
FormFresh ==
  \A b \in Browsers : page[b].at = "change_show" /\ prog[b].kind = "none" /\ page[b].id \notin touched[b] =>
    page[b].id \in DOMAIN goods /\ goods[page[b].id] = page[b].row

(* change_god_cgi finds the row and its type, unless another browser has   *)
(* changed or deleted the goods since the list they were picked from.      *)
CrashExcused ==
  [][\A b \in Browsers : page[b].at # "broken" /\ page'[b].at = "broken" => prog[b].id \in touched[b]]_vars

(* What a program is to store, and that it has stored it; it was to touch  *)
(* one row at most.                                                        *)
Target(b)  == IF prog[b].kind = "add" THEN GoodsIds[given + 1] ELSE prog[b].id
Others(b)  == \A i \in (DOMAIN goods \cup DOMAIN goods') \ {Target(b)} :
                 i \in DOMAIN goods /\ i \in DOMAIN goods' /\ goods'[i] = goods[i]
Stored(b)  ==
  CASE prog[b].kind = "add"      -> Target(b) \in DOMAIN goods' /\ goods'[Target(b)] = prog[b].want
    [] prog[b].kind = "add_type" -> types' = types + 1
    [] prog[b].kind = "del"      -> Target(b) \notin DOMAIN goods'
    [] prog[b].kind = "change"   -> Target(b) \in DOMAIN goods' /\ goods'[Target(b)] = prog[b].want
Alerts(b)  == prog[b].pc = "run" /\ prog'[b].pc = "exit" /\ prog'[b].page.at = "alert"

(* The alert says success only when the table is as the user wanted it.    *)
Honest == [][\A b \in Browsers : Alerts(b) /\ prog'[b].page.says = "success" => Stored(b)]_vars

(* What the alerts of the code come to instead.  Whatever they say, no row *)
(* but the one asked for has changed.  And that one is as it was wanted    *)
(* unless its form had a blank field; or nothing has changed, because the  *)
(* connection of the very program was refused, or the database failed its  *)
(* statement, or another browser has deleted the row since this one got    *)
(* the form.                                                               *)
Blank(b)    == prog[b].kind \in {"add", "change"} /\ None \in {prog[b].want.name, prog[b].want.price, prog[b].want.size}
Deleted(b)  == prog[b].kind = "change" /\ Target(b) \notin DOMAIN goods /\ Target(b) \in touched[b]

AlertsExplained ==
  [][\A b \in Browsers : Alerts(b) =>
       /\ Others(b)
       /\ \/ Stored(b) /\ prog'[b].page.says = "success"
          \/ Blank(b)
          \/ /\ UNCHANGED <<goods, given, types>>
             /\ Fails(b) \/ Deleted(b)]_vars

(* A search lists exactly the goods that meet every condition filled in;   *)
(* one that is sent with a field empty (the forms put the xx back only     *)
(* when the field is left) moves the words about, and finds nothing.       *)
Wanted(i, w) ==
  /\ None \notin {w.id, w.name, w.low, w.high} /\ goods[i].type \in TypeSet
  /\ w.id \in {"xx", i} /\ (w.name = "xx" \/ <<w.name, goods[i].name>> \in Within)
  /\ w.type \in {NoType, goods[i].type} /\ w.size \in {None, goods[i].size}
  /\ w.low # "xx.xx" => Above(goods[i].price, w.low)
  /\ w.high # "xx.xx" => Above(w.high, goods[i].price)

SearchExact ==
  [][\A b \in Browsers :
       prog[b].kind = "found" /\ prog[b].pc = "run" /\ prog'[b].pc = "exit" =>
         prog'[b].page.ids = {i \in DOMAIN goods : Wanted(i, prog[b].want)}]_vars

(* What CrashExcused and SearchExact need, and Entered: a database that    *)
(* does what it is told, and forms without a blank field.                  *)
Willing == Failing = {} /\ 2 * Cardinality(Browsers) <= MaxConnections
Filled  == \A e \in Entries : None \notin {e.name, e.price, e.size}

(* When an object goes, its destructor frees every result the library has  *)
(* allocated for it, and none twice: so for every program and every path,   *)
(* except the form of change_god_cgi, which selects twice with one object. *)
Frees(o) == Destroy(o).allocated = {} /\ Destroy(o).fault = "none"

Freed ==
  \A b \in Browsers :
    prog[b].pc = "exit" /\ objs[b] # <<>> /\ prog[b].kind # "change_show" => Frees(Top(b))
=============================================================================
