---------------------------- MODULE GoodsProofs ----------------------------
(***************************************************************************)
(* Proofs about Goods, for any number of browsers, goods and types, any    *)
(* entries and searches, and whatever connections and statements fail.     *)
(***************************************************************************)
EXTENDS Goods, TLAPS

PageFields == {"at", "ids", "id", "row", "types", "says"}
ProgFields == {"kind", "pc", "id", "post", "want", "page"}

(* The shape of screens and programs, as far as steps have to know it.     *)
Shape ==
  /\ DOMAIN page = Browsers /\ DOMAIN prog = Browsers /\ DOMAIN touched = Browsers
  /\ \A b \in Browsers : DOMAIN prog[b] = ProgFields /\ DOMAIN prog[b].page = PageFields
  /\ given \in Nat

(* A row that was read and that no other browser has touched since is the  *)
(* row in the table.                                                       *)
AsRead(b, p) == p.id \notin touched[b] => p.id \in DOMAIN goods /\ goods[p.id] = p.row

(* The form that is on the screen, and the one about to be shown.          *)
OnScreen(b) == page[b].at = "change_show" /\ prog[b].kind = "none" => AsRead(b, page[b])
InWork(b) ==
  /\ prog[b].pc # "none" => prog[b].kind # "none"
  /\ prog[b].page.at = "change_show" => prog[b].kind = "change_show"
  /\ prog[b].kind = "change_show" /\ prog[b].pc = "exit" => AsRead(b, prog[b].page)

FInv == Shape /\ \A b \in Browsers : OnScreen(b) /\ InWork(b)

(* No form is open at first.                                               *)
LEMMA FormInit == Init => FInv
  BY DEF Init, FInv, Shape, OnScreen, InWork, AsRead, Idle, Page, PageFields, ProgFields

(* A request leaves the tables and the screens alone.                      *)
LEMMA StartsKeep ==
  ASSUME FInv, NEW b \in Browsers, NEW kind, NEW id, NEW post, NEW want,
         kind # "none", Starts(b, kind, id, post, want)
  PROVE  FInv'
  BY DEF Starts, FInv, Shape, OnScreen, InWork, AsRead, Page, PageFields, ProgFields

(* A user who follows a link or sends a form leaves all forms as fresh as  *)
(* they are.                                                               *)
LEMMA UserKeeps == ASSUME FInv, NEW b \in Browsers, User(b) PROVE FInv'
<1>1. \E kind, id, post, want : kind # "none" /\ Starts(b, kind, id, post, want)
  BY DEF User, Follow, Pick, SubmitAdd, SubmitType, SubmitChange, SubmitFind
<1> QED
  BY <1>1, StartsKeep

(* The end of a statement: the table as it was except for the goods the    *)
(* program is about, of which the others are told.                         *)
LEMMA UpdatedKeeps ==
  ASSUME FInv, NEW b \in Browsers, NEW ok, NEW n, NEW ids,
         prog[b].kind # "none", prog[b].kind # "change_show",
         Updated(b, ok, n), UNCHANGED page,
         \A i \in DOMAIN goods \ ids : i \in DOMAIN goods' /\ goods'[i] = goods[i],
         Touch(b, ids) \/ (ids = {} /\ UNCHANGED touched),
         given' \in Nat
  PROVE  FInv'
<1>1. /\ DOMAIN prog' = Browsers
      /\ \A x \in Browsers : x # b => prog'[x] = prog[x]
      /\ prog'[b].kind = prog[b].kind /\ prog'[b].page.at = "alert"
      /\ DOMAIN prog'[b] = ProgFields /\ DOMAIN prog'[b].page = PageFields
  BY DEF Updated, FInv, Shape, Page, PageFields, ProgFields
<1>2. /\ DOMAIN touched' = Browsers
      /\ \A x \in Browsers : x # b => touched'[x] = touched[x] \cup ids
  BY DEF Touch, FInv, Shape
<1>3. Shape'
  BY <1>1, <1>2 DEF FInv, Shape
<1>4. ASSUME NEW x \in Browsers PROVE OnScreen(x)' /\ InWork(x)'
  <2>1. CASE x = b
    BY <2>1, <1>1 DEF OnScreen, InWork
  <2>2. CASE x # b
    <3>1. OnScreen(x) /\ InWork(x)
      BY DEF FInv
    <3>2. \A p : AsRead(x, p) => AsRead(x, p)'
      BY <1>2, <2>2 DEF AsRead
    <3> QED
      BY <3>1, <3>2, <2>2, <1>1 DEF OnScreen, InWork, AsRead
  <2> QED
    BY <2>1, <2>2
<1> QED
  BY <1>3, <1>4 DEF FInv

(* Steps of one program that leave the table alone, and may read it.       *)
LEMMA LocalKeeps ==
  ASSUME FInv, NEW b \in Browsers, UNCHANGED <<goods, given>>,
         DOMAIN page' = Browsers, DOMAIN prog' = Browsers, DOMAIN touched' = Browsers,
         DOMAIN prog'[b] = ProgFields, DOMAIN prog'[b].page = PageFields,
         \A x \in Browsers : x # b => prog'[x] = prog[x] /\ page'[x] = page[x] /\ touched'[x] = touched[x],
         OnScreen(b)', InWork(b)'
  PROVE  FInv'
<1>1. Shape'
  BY DEF FInv, Shape
<1>2. ASSUME NEW x \in Browsers, x # b PROVE OnScreen(x)' /\ InWork(x)'
  BY <1>2 DEF FInv, OnScreen, InWork, AsRead
<1> QED
  BY <1>1, <1>2 DEF FInv

(* A statement changes the row of one id, which the others then count as   *)
(* touched; a form is printed of the row as it was selected.               *)
LEMMA ProgramKeeps == ASSUME FInv, NEW b \in Browsers, Program(b) PROVE FInv'
<1>s. /\ DOMAIN page = Browsers /\ DOMAIN prog = Browsers /\ DOMAIN touched = Browsers /\ given \in Nat
      /\ DOMAIN prog[b] = ProgFields /\ DOMAIN prog[b].page = PageFields
      /\ OnScreen(b) /\ InWork(b)
  BY DEF FInv, Shape
<1>1. CASE Connect(b)
  <2>1. OnScreen(b)' /\ InWork(b)'
    BY <1>1, <1>s DEF Connect, OnScreen, InWork, AsRead, ProgFields
  <2> QED
    BY <1>1, <1>s, <2>1, LocalKeeps DEF Connect, ProgFields
<1>2. CASE AddGoods(b)
  <2>1. prog[b].kind = "add" /\ UNCHANGED page
    BY <1>2 DEF AddGoods, Running
  <2>2. CASE NotUpdated(b)
    BY <2>1, <2>2, <1>s, UpdatedKeeps DEF NotUpdated
  <2>3. CASE ~NotUpdated(b)
    <3>1. given' = given + 1 /\ Updated(b, TRUE, 1) /\ UNCHANGED touched
      BY <1>2, <2>3 DEF AddGoods
    <3>2. \A i \in DOMAIN goods \ {} : i \in DOMAIN goods' /\ goods'[i] = goods[i]
      BY <1>2, <2>3 DEF AddGoods
    <3>3. given' \in Nat
      BY <3>1, <1>s
    <3> QED
      BY <2>1, <3>1, <3>2, <3>3, UpdatedKeeps
  <2> QED
    BY <2>2, <2>3
<1>3. CASE AddType(b)
  BY <1>3, <1>s, UpdatedKeeps DEF AddType, Running, NotUpdated
<1>4. CASE DelGoods(b)
  <2>1. prog[b].kind = "del" /\ UNCHANGED page
    BY <1>4 DEF DelGoods, Running
  <2>2. CASE NotUpdated(b)
    BY <2>1, <2>2, <1>s, UpdatedKeeps DEF NotUpdated
  <2>3. CASE ~NotUpdated(b)
    <3>1. /\ goods' = [i \in DOMAIN goods \ Found(prog[b].id) |-> goods[i]]
          /\ Touch(b, {prog[b].id}) /\ UNCHANGED given
          /\ Updated(b, TRUE, Cardinality(Found(prog[b].id)))
      BY <1>4, <2>3 DEF DelGoods
    <3>2. \A i \in DOMAIN goods \ {prog[b].id} : i \in DOMAIN goods' /\ goods'[i] = goods[i]
      BY <3>1 DEF Found
    <3> QED
      BY <2>1, <3>1, <3>2, <1>s, UpdatedKeeps
  <2> QED
    BY <2>2, <2>3
<1>5. CASE ChangeGoods(b)
  <2> DEFINE id == Field(prog[b].post, 1, Garbage)
  <2>1. prog[b].kind = "change" /\ UNCHANGED page
    BY <1>5 DEF ChangeGoods, Running
  <2>2. CASE NotUpdated(b)
    BY <2>1, <2>2, <1>s, UpdatedKeeps DEF NotUpdated
  <2>3. CASE ~NotUpdated(b)
    <3>1. PICK r : /\ goods' = WriteRow(Found(id), id, r)
                   /\ Updated(b, TRUE, Cardinality({i \in Found(id) : goods[i] # r}))
                   /\ Touch(b, {id}) /\ UNCHANGED given
      BY <1>5, <2>3 DEF ChangeGoods
    <3>2. \A i \in DOMAIN goods \ {id} : i \in DOMAIN goods' /\ goods'[i] = goods[i]
      BY <3>1 DEF Found, WriteRow
    <3> QED
      BY <2>1, <3>1, <3>2, <1>s, UpdatedKeeps
  <2> QED
    BY <2>2, <2>3
<1>6. CASE SelectTypes(b)
  <2>1. \E p \in {prog[b].page, [prog[b].page EXCEPT !.types = TypeMap]} :
          prog' = [prog EXCEPT ![b].page = p,
                               ![b].pc = IF prog[b].kind = "change_show" THEN "row" ELSE "exit"]
    BY <1>6 DEF SelectTypes, Selected
  <2>2. UNCHANGED <<goods, given, page, touched>>
    BY <1>6 DEF SelectTypes
  <2>3. OnScreen(b)' /\ InWork(b)'
    BY <2>1, <2>2, <1>s DEF OnScreen, InWork, AsRead, ProgFields, PageFields
  <2> QED
    BY <2>1, <2>2, <2>3, <1>s, LocalKeeps DEF ProgFields, PageFields
<1>7. CASE SelectGoods(b)
  <2>1. prog[b].kind \in {"list", "found"} /\ UNCHANGED <<goods, given, page>>
    BY <1>7 DEF SelectGoods, Running
  <2>2. \E p : /\ p.at = "list" /\ DOMAIN p = PageFields
               /\ prog' = [prog EXCEPT ![b].page = p, ![b].pc = "exit"]
    BY <1>7 DEF SelectGoods, Selected, Page, PageFields
  <2>3. UNCHANGED touched \/ touched' = [touched EXCEPT ![b] = {}]
    BY <1>7 DEF SelectGoods
  <2>4. OnScreen(b)' /\ InWork(b)'
    BY <2>1, <2>2, <1>s DEF OnScreen, InWork, ProgFields, PageFields
  <2> QED
    BY <2>1, <2>2, <2>3, <2>4, <1>s, LocalKeeps DEF ProgFields, PageFields
<1>8. ASSUME Crash(b) PROVE FInv'
  <2>1. OnScreen(b)' /\ InWork(b)'
    BY <1>8, <1>s DEF Crash, OnScreen, InWork, Idle, Page
  <2> QED
    BY <1>8, <2>1, <1>s, LocalKeeps DEF Crash, Idle, Page, ProgFields, PageFields
<1>9. CASE SelectRow(b)
  <2>1. CASE Crash(b)
    BY <2>1, <1>8
  <2>2. CASE ~Crash(b)
    <3> DEFINE id == prog[b].id
    <3>1. /\ id \in DOMAIN goods /\ UNCHANGED <<goods, given, page>>
          /\ prog' = [prog EXCEPT ![b].page = [prog[b].page EXCEPT !.id = id, !.row = goods[id]],
                                  ![b].pc = "exit"]
          /\ touched' = [touched EXCEPT ![b] = {}]
      BY <1>9, <2>2 DEF SelectRow, Selected
    <3>2. /\ prog'[b].kind = prog[b].kind /\ prog'[b].page.at = prog[b].page.at
          /\ prog'[b].page.id = id /\ prog'[b].page.row = goods[id]
          /\ DOMAIN prog'[b] = ProgFields /\ DOMAIN prog'[b].page = PageFields
      BY <3>1, <1>s DEF ProgFields, PageFields
    <3>3. prog[b].kind # "none"
      BY <1>9, <1>s DEF SelectRow, InWork
    <3>4. OnScreen(b)' /\ InWork(b)'
      BY <3>1, <3>2, <3>3, <1>s DEF OnScreen, InWork, AsRead
    <3> QED
      BY <3>1, <3>2, <3>4, <1>s, LocalKeeps
  <2> QED
    BY <2>1, <2>2
<1>10. CASE StoreFails(b)
  BY <1>8, <1>10 DEF StoreFails
<1>11. CASE Release(b)
  BY <1>11, <1>s, LocalKeeps DEF Release, OnScreen, InWork, AsRead
<1>12. CASE Show(b)
  <2>1. UNCHANGED <<goods, given, touched>> /\ page' = [page EXCEPT ![b] = prog[b].page]
        /\ prog' = [prog EXCEPT ![b] = Idle] /\ prog[b].pc = "exit"
    BY <1>12 DEF Show
  <2>2. OnScreen(b)' /\ InWork(b)'
    BY <2>1, <1>s DEF OnScreen, InWork, AsRead, Idle, Page
  <2> QED
    BY <2>1, <2>2, <1>s, LocalKeeps DEF Idle, Page, ProgFields, PageFields
<1> QED
  BY <1>1, <1>2, <1>3, <1>4, <1>5, <1>6, <1>7, <1>9, <1>10, <1>11, <1>12 DEF Program

(* So every step keeps the forms fresh.                                    *)
LEMMA FormNext == FInv /\ [Next]_vars => FInv'
<1> SUFFICES ASSUME FInv, [Next]_vars PROVE FInv'
  OBVIOUS
<1>1. CASE Next
  BY <1>1, UserKeeps, ProgramKeeps DEF Next
<1>2. CASE UNCHANGED vars
  BY <1>2 DEF vars, FInv, Shape, OnScreen, InWork, AsRead
<1> QED
  BY <1>1, <1>2

(* However many browsers work on the goods and whatever fails, the form of *)
(* change_god_cgi on a screen shows the row as it is, unless another       *)
(* browser has changed or deleted that very row since.                     *)
THEOREM FormsAreFresh == Spec => []FormFresh
<1>1. FInv => FormFresh
  BY DEF FInv, OnScreen, AsRead, FormFresh
<1> QED
  BY <1>1, FormInit, FormNext, PTL DEF Spec
-----------------------------------------------------------------------------
(* The only step that gives the table a row it had not takes an id that    *)
(* was not given out before.                                               *)
LEMMA RowsAppear ==
  ASSUME [Next]_vars
  PROVE  \/ DOMAIN goods' \subseteq DOMAIN goods
         \/ given < Len(GoodsIds) /\ DOMAIN goods' = DOMAIN goods \cup {GoodsIds[given + 1]}
<1>1. CASE UNCHANGED vars
  BY <1>1 DEF vars
<1>2. ASSUME NEW b \in Browsers, User(b) PROVE goods' = goods
  BY <1>2 DEF User, Follow, Pick, SubmitAdd, SubmitType, SubmitChange, SubmitFind, Starts
<1>3. ASSUME NEW b \in Browsers, AddGoods(b)
      PROVE  \/ given < Len(GoodsIds) /\ DOMAIN goods' = DOMAIN goods \cup {GoodsIds[given + 1]}
             \/ goods' = goods
  BY <1>3 DEF AddGoods, NotUpdated
<1>4. ASSUME NEW b \in Browsers, DelGoods(b) PROVE DOMAIN goods' \subseteq DOMAIN goods
  BY <1>4 DEF DelGoods, NotUpdated
<1>5. ASSUME NEW b \in Browsers, ChangeGoods(b) PROVE DOMAIN goods' \subseteq DOMAIN goods
  BY <1>5 DEF ChangeGoods, NotUpdated, WriteRow
<1>6. ASSUME NEW b \in Browsers, Program(b), ~AddGoods(b), ~DelGoods(b), ~ChangeGoods(b)
      PROVE  goods' = goods
  BY <1>6 DEF Program, Connect, AddType, NotUpdated, SelectTypes, SelectGoods, SelectRow,
              StoreFails, Crash, Release, Show
<1> QED
  BY <1>1, <1>2, <1>3, <1>4, <1>5, <1>6 DEF Next

(* Goods that were deleted do not come back, not even by way of a form for *)
(* them that is still open somewhere.                                      *)
THEOREM DeletedForGood == Spec => NeverBack
<1>1. ASSUME FInv, [Next]_vars
      PROVE  \A n \in 1..given : GoodsIds[n] \in DOMAIN goods' => GoodsIds[n] \in DOMAIN goods
  <2> SUFFICES ASSUME NEW n \in 1..given, GoodsIds[n] \in DOMAIN goods', GoodsIds[n] \notin DOMAIN goods
               PROVE  FALSE
    OBVIOUS
  <2>1. given \in Nat
    BY <1>1 DEF FInv, Shape
  <2>2. given < Len(GoodsIds) /\ GoodsIds[n] = GoodsIds[given + 1]
    BY <1>1, RowsAppear
  <2>3. n \in DOMAIN GoodsIds /\ given + 1 \in DOMAIN GoodsIds
    BY <2>1, <2>2, IdsAssumption
  <2>4. n = given + 1
    BY <2>2, <2>3, IdsAssumption
  <2> QED
    BY <2>1, <2>4
<1>2. FInv /\ [Next]_vars =>
        [\A n \in 1..given : GoodsIds[n] \in DOMAIN goods' => GoodsIds[n] \in DOMAIN goods]_vars
  BY <1>1
<1> QED
  BY <1>2, FormInit, FormNext, PTL DEF Spec, NeverBack
-----------------------------------------------------------------------------
(* An object that has no result, and one that knows the only one it has.   *)
Clean  == {o \in Object : o.allocated = {} /\ o.res = NoResult /\ o.fault = "none"}
Loaded == {o \in Object : o.allocated = {o.res} /\ o.res # NoResult /\ o.fault = "none"}

(* A new object has no result, connected or not.                           *)
LEMMA NewIsClean == ASSUME NEW yes PROVE BeginConnect(NewObject, yes) \in Clean
BY DEF BeginConnect, NewObject, NoResult, Clean, Object

(* A statement leaves an object without a result without one.              *)
LEMMA UpdateStaysClean ==
  ASSUME NEW o \in Clean, NEW ok, NEW n
  PROVE  ExeUpdate(o, [ok |-> ok, rows |-> FALSE, stored |-> FALSE, affected |-> n]).obj \in Clean
<1>1. Store(o, FALSE) = o /\ CloseResult(o) = o
  BY DEF Store, CloseResult, Clean, Object
<1>2. o.res = NoResult
  BY DEF Clean
<1> DEFINE a == [ok |-> ok, rows |-> FALSE, stored |-> FALSE, affected |-> n]
<1>3. a.ok = ok /\ a.rows = FALSE /\ a.affected = n
  OBVIOUS
<1> HIDE DEF a
<1>4. ExeUpdate(o, a).obj = o
  BY <1>1, <1>2, <1>3 DEF ExeUpdate
<1> QED
  BY <1>4 DEF a

(* The first query gives it one.                                           *)
LEMMA FirstSelectLoads ==
  ASSUME NEW o \in Clean, NEW ok
  PROVE  ExeSelect(o, [ok |-> ok, rows |-> TRUE, stored |-> TRUE, affected |-> 0]) \in Clean \cup Loaded
<1>1. o.made \in Nat /\ o \in Object /\ o.allocated = {} /\ o.fault = "none"
  BY DEF Clean, Object
<1> DEFINE n == o.made + 1
           p == [conn |-> o.conn, res |-> n, allocated |-> {n}, made |-> n, fault |-> "none"]
<1>2. p \in Object
  <2>1. n \in Nat /\ {n} \in SUBSET Nat /\ o.conn \in {"null", "init", "open"}
    BY <1>1 DEF Object
  <2> QED
    BY <2>1 DEF Object
<1>3. p.res = n /\ p.allocated = {n} /\ p.fault = "none" /\ n # 0
  BY <1>1
<1>4. Store(o, TRUE) = p
  BY <1>1 DEF Store, Object
<1>5. Store(o, TRUE) \in Loaded
  BY <1>2, <1>3, <1>4 DEF Loaded, NoResult
<1> QED
  BY <1>5 DEF ExeSelect

(* The destructor frees either kind.                                       *)
LEMMA EitherFrees == ASSUME NEW o \in Clean \cup Loaded PROVE Frees(o)
<1> DEFINE p == IF o.conn # "null" THEN CloseConnect(o) ELSE o
<1>1. p \in Clean \cup Loaded
  BY DEF CloseConnect, Clean, Loaded, Object
<1>2. CASE p.res = NoResult
  BY <1>1, <1>2 DEF Frees, Destroy, CloseResult, Clean, Loaded
<1>3. CASE p.res # NoResult
  <2>1. Free(p) = [p EXCEPT !.allocated = {}]
    BY <1>1, <1>3 DEF Free, Clean, Loaded, Object
  <2>2. CloseResult(p).allocated = {} /\ CloseResult(p).fault = "none"
    BY <1>1, <1>3, <2>1 DEF CloseResult, Clean, Loaded, Object
  <2> QED
    BY <2>2 DEF Frees, Destroy
<1> QED
  BY <1>2, <1>3

(* The objects of a program, up to its statement, which is the only one of *)
(* every program but change_god_cgi's form, and after it.                  *)
Before(b) == prog[b].pc \in {"connect", "run"} => objs[b] \in Seq(Clean)
AtRun(b)  == prog[b].pc = "run" => objs[b] # <<>>
After(b)  == prog[b].pc = "exit" /\ prog[b].kind # "change_show" => objs[b] \in Seq(Clean \cup Loaded)
Between(b) == /\ prog[b].kind = "none" => objs[b] = <<>> /\ prog[b].pc = "none"
              /\ prog[b].pc = "row" => prog[b].kind = "change_show"

RInv ==
  /\ DOMAIN prog = Browsers /\ DOMAIN objs = Browsers
  /\ \A b \in Browsers : DOMAIN prog[b] = ProgFields /\ Before(b) /\ AtRun(b) /\ After(b) /\ Between(b)

(* A step of one browser or program leaves the others' alone.              *)
LEMMA OthersKeep ==
  ASSUME RInv, NEW b \in Browsers, DOMAIN prog' = Browsers, DOMAIN objs' = Browsers,
         \A x \in Browsers : x # b => prog'[x] = prog[x] /\ objs'[x] = objs[x],
         DOMAIN prog'[b] = ProgFields, Before(b)', AtRun(b)', After(b)', Between(b)'
  PROVE  RInv'
<1>1. \A x \in Browsers : x # b =>
        DOMAIN prog'[x] = ProgFields /\ Before(x)' /\ AtRun(x)' /\ After(x)' /\ Between(x)'
  BY DEF RInv, Before, AtRun, After, Between
<1> QED
  BY <1>1 DEF RInv

(* The innermost object before the statement, and the objects after.       *)
LEMMA TopIsClean ==
  ASSUME RInv, NEW b \in Browsers, prog[b].pc = "run"
  PROVE  /\ Top(b) \in Clean
         /\ \A S : Clean \subseteq S => \A o \in S : SetTop(b, o) =>
              /\ objs'[b] \in Seq(S) /\ DOMAIN objs' = Browsers
              /\ \A x \in Browsers : x # b => objs'[x] = objs[x]
<1>1. objs[b] \in Seq(Clean) /\ objs[b] # <<>>
  BY DEF RInv, Before, AtRun
<1>2. Len(objs[b]) \in Nat \ {0} /\ Len(objs[b]) \in DOMAIN objs[b]
  BY <1>1
<1>3. Top(b) \in Clean
  BY <1>1, <1>2 DEF Top
<1>4. SubSeq(objs[b], 1, Len(objs[b]) - 1) \in Seq(Clean)
  BY <1>1, <1>2
<1>5. ASSUME NEW S, Clean \subseteq S, NEW o \in S, SetTop(b, o)
      PROVE  /\ objs'[b] \in Seq(S) /\ DOMAIN objs' = Browsers
             /\ \A x \in Browsers : x # b => objs'[x] = objs[x]
  <2>1. SubSeq(objs[b], 1, Len(objs[b]) - 1) \in Seq(S)
    BY <1>4, <1>5
  <2>2. objs'[b] = Append(SubSeq(objs[b], 1, Len(objs[b]) - 1), o)
    BY <1>5 DEF SetTop, RInv
  <2>3. objs'[b] \in Seq(S)
    BY <1>5, <2>1, <2>2
  <2> QED
    BY <1>5, <2>3 DEF SetTop, RInv
<1> QED
  BY <1>3, <1>5

(* exe_update, and the query of a program that makes one.                  *)
LEMMA UpdatedFrees ==
  ASSUME RInv, NEW b \in Browsers, prog[b].pc = "run", prog[b].kind # "none",
         NEW ok, NEW n, Updated(b, ok, n)
  PROVE  RInv'
<1> DEFINE o == ExeUpdate(Top(b), [ok |-> ok, rows |-> FALSE, stored |-> FALSE, affected |-> n]).obj
<1>1. o \in Clean /\ SetTop(b, o)
  BY TopIsClean, UpdateStaysClean DEF Updated
<1>2. /\ objs'[b] \in Seq(Clean \cup Loaded) /\ DOMAIN objs' = Browsers
      /\ \A x \in Browsers : x # b => objs'[x] = objs[x]
  BY <1>1, TopIsClean
<1>3. /\ DOMAIN prog' = Browsers /\ DOMAIN prog'[b] = ProgFields
      /\ prog'[b].pc = "exit" /\ prog'[b].kind = prog[b].kind
      /\ \A x \in Browsers : x # b => prog'[x] = prog[x]
  BY DEF Updated, RInv, ProgFields
<1> QED
  BY <1>2, <1>3, OthersKeep DEF Before, AtRun, After, Between

(* A first select, whatever comes of it, leaves an object that knows its   *)
(* result.                                                                 *)
LEMMA SelectedFrees ==
  ASSUME RInv, NEW b \in Browsers, prog[b].pc = "run", prog[b].kind # "none", NEW ok, NEW p,
         NEW next \in {"exit", "row"}, next = "row" => prog[b].kind = "change_show",
         Selected(b, ok, p, next)
  PROVE  RInv'
<1> DEFINE o == ExeSelect(Top(b), [ok |-> ok, rows |-> TRUE, stored |-> TRUE, affected |-> 0])
<1>1. o \in Clean \cup Loaded /\ SetTop(b, o)
  BY TopIsClean, FirstSelectLoads DEF Selected
<1>2. /\ objs'[b] \in Seq(Clean \cup Loaded) /\ DOMAIN objs' = Browsers
      /\ \A x \in Browsers : x # b => objs'[x] = objs[x]
  BY <1>1, TopIsClean
<1>3. /\ DOMAIN prog' = Browsers /\ DOMAIN prog'[b] = ProgFields
      /\ prog'[b].pc = next /\ prog'[b].kind = prog[b].kind
      /\ \A x \in Browsers : x # b => prog'[x] = prog[x]
  BY DEF Selected, RInv, ProgFields
<1> QED
  BY <1>2, <1>3, OthersKeep DEF Before, AtRun, After, Between

(* So before its statement each program has clean objects, and after it at *)
(* most one result each.                                                   *)
LEMMA StepFrees == RInv /\ [Next]_vars => RInv'
<1> SUFFICES ASSUME RInv, [Next]_vars PROVE RInv'
  OBVIOUS
<1>1. CASE UNCHANGED vars
  BY <1>1 DEF vars, RInv, Before, AtRun, After, Between
<1>2. ASSUME NEW b \in Browsers, User(b) PROVE RInv'
  <2>1. PICK kind, id, post, want : kind # "none" /\ Starts(b, kind, id, post, want)
    BY <1>2 DEF User, Follow, Pick, SubmitAdd, SubmitType, SubmitChange, SubmitFind
  <2>2. objs[b] = <<>> /\ objs' = objs /\ <<>> \in Seq(Clean)
    BY <2>1 DEF Starts, RInv, Between
  <2>3. /\ DOMAIN prog' = Browsers /\ DOMAIN prog'[b] = ProgFields
        /\ prog'[b].pc = "connect" /\ prog'[b].kind = kind
        /\ \A x \in Browsers : x # b => prog'[x] = prog[x]
    BY <2>1 DEF Starts, RInv, ProgFields
  <2> QED
    BY <2>1, <2>2, <2>3, OthersKeep DEF RInv, Before, AtRun, After, Between
<1>3. ASSUME NEW b \in Browsers, Program(b) PROVE RInv'
  <2>s. /\ DOMAIN prog = Browsers /\ DOMAIN objs = Browsers /\ DOMAIN prog[b] = ProgFields
        /\ Before(b) /\ AtRun(b) /\ After(b) /\ Between(b)
    BY DEF RInv
  <2>1. CASE Connect(b)
    <3>1. PICK o \in Clean : objs' = [objs EXCEPT ![b] = Append(@, o)]
      BY <2>1, NewIsClean DEF Connect
    <3>2. prog[b].pc = "connect" /\ \E l \in {"connect", "run"} : prog' = [prog EXCEPT ![b].pc = l]
      BY <2>1 DEF Connect
    <3>3. objs'[b] \in Seq(Clean) /\ objs'[b] # <<>>
      BY <3>1, <3>2, <2>s DEF Before
    <3>4. /\ DOMAIN prog'[b] = ProgFields
          /\ prog'[b].pc \in {"connect", "run"} /\ prog'[b].kind = prog[b].kind
      BY <3>2, <2>s DEF ProgFields
    <3>5. prog[b].kind # "none"
      BY <2>1, <3>2, <2>s DEF Between
    <3>6. /\ DOMAIN prog' = Browsers /\ DOMAIN objs' = Browsers
          /\ \A x \in Browsers : x # b => prog'[x] = prog[x] /\ objs'[x] = objs[x]
      BY <3>1, <3>2, <2>s
    <3>7. Before(b)' /\ AtRun(b)' /\ After(b)' /\ Between(b)'
      BY <3>3, <3>4, <3>5 DEF Before, AtRun, After, Between
    <3> QED
      BY <3>4, <3>6, <3>7, OthersKeep
  <2>2. CASE AddGoods(b) \/ AddType(b) \/ DelGoods(b) \/ ChangeGoods(b)
    <3>1. prog[b].pc = "run" /\ prog[b].kind \in {"add", "add_type", "del", "change"}
      BY <2>2 DEF AddGoods, AddType, DelGoods, ChangeGoods, Running
    <3>2. \E ok, n : Updated(b, ok, n)
      BY <2>2 DEF AddGoods, AddType, DelGoods, ChangeGoods, NotUpdated
    <3> QED
      BY <3>1, <3>2, UpdatedFrees
  <2>3. CASE SelectTypes(b)
    <3>1. prog[b].pc = "run" /\ prog[b].kind \in {"add_show", "find_show", "change_show"}
      BY <2>3 DEF SelectTypes, Running
    <3>2. \E ok, p : Selected(b, ok, p, IF prog[b].kind = "change_show" THEN "row" ELSE "exit")
      BY <2>3 DEF SelectTypes
    <3> QED
      BY <3>1, <3>2, SelectedFrees
  <2>4. CASE SelectGoods(b)
    <3>1. prog[b].pc = "run" /\ prog[b].kind \in {"list", "found"}
      BY <2>4 DEF SelectGoods, Running
    <3>2. \E ok, p : Selected(b, ok, p, "exit")
      BY <2>4 DEF SelectGoods
    <3> QED
      BY <3>1, <3>2, SelectedFrees
  <2>5. ASSUME Crash(b) PROVE RInv'
    <3>1. /\ objs' = [objs EXCEPT ![b] = <<>>] /\ prog' = [prog EXCEPT ![b] = Idle]
          /\ <<>> \in Seq(Clean)
      BY <2>5 DEF Crash
    <3> QED
      BY <3>1, <2>s, OthersKeep DEF Idle, ProgFields, Before, AtRun, After, Between
  <2>6. CASE SelectRow(b)
    <3>1. CASE Crash(b)
      BY <3>1, <2>5
    <3>2. CASE ~Crash(b)
      <4>1. PICK p : Selected(b, TRUE, p, "exit")
        BY <2>6, <3>2 DEF SelectRow
      <4>2. prog[b].kind = "change_show"
        BY <2>6, <2>s DEF SelectRow, Between
      <4> QED
        BY <4>1, <4>2, <2>s, OthersKeep
           DEF Selected, SetTop, ProgFields, Before, AtRun, After, Between
    <3> QED
      BY <3>1, <3>2
  <2>7. CASE StoreFails(b)
    BY <2>5, <2>7 DEF StoreFails
  <2>8. CASE Release(b)
    <3>1. /\ UNCHANGED prog /\ prog[b].pc = "exit" /\ objs[b] # <<>>
          /\ objs' = [objs EXCEPT ![b] = SubSeq(@, 1, Len(@) - 1)]
      BY <2>8 DEF Release
    <3>2. prog[b].kind # "none"
      BY <3>1, <2>s DEF Between
    <3>3. prog[b].kind # "change_show" => objs'[b] \in Seq(Clean \cup Loaded)
      <4>1. SUFFICES ASSUME objs[b] \in Seq(Clean \cup Loaded)
                     PROVE  SubSeq(objs[b], 1, Len(objs[b]) - 1) \in Seq(Clean \cup Loaded)
        BY <3>1, <2>s DEF After
      <4> QED
        BY <4>1, <3>1
    <3> QED
      BY <3>1, <3>2, <3>3, <2>s, OthersKeep DEF Before, AtRun, After, Between
  <2>9. CASE Show(b)
    <3>1. UNCHANGED objs /\ objs[b] = <<>> /\ prog' = [prog EXCEPT ![b] = Idle]
      BY <2>9 DEF Show
    <3> QED
      BY <3>1, <2>s, OthersKeep DEF Idle, ProgFields, Before, AtRun, After, Between
  <2> QED
    BY <1>3, <2>1, <2>2, <2>3, <2>4, <2>6, <2>7, <2>8, <2>9 DEF Program
<1> QED
  BY <1>1, <1>2, <1>3 DEF Next

(* Whichever statements fail and whoever interferes: every program but the *)
(* form of change_god_cgi frees what the library allocated for it, once.   *)
THEOREM ResultsFreed == Spec => []Freed
<1>1. Init => RInv
  <2>1. <<>> \in Seq(Clean)
    OBVIOUS
  <2> QED
    BY <2>1 DEF Init, RInv, Idle, ProgFields, Before, AtRun, After, Between
<1>2. RInv => Freed
  <2> SUFFICES ASSUME RInv, NEW b \in Browsers, prog[b].pc = "exit", objs[b] # <<>>,
                      prog[b].kind # "change_show"
               PROVE  Frees(Top(b))
    BY DEF Freed
  <2>1. objs[b] \in Seq(Clean \cup Loaded) /\ objs[b] # <<>>
    BY DEF RInv, After
  <2>2. Top(b) \in Clean \cup Loaded
    BY <2>1 DEF Top
  <2> QED
    BY <2>2, EitherFrees
<1> QED
  BY <1>1, <1>2, StepFrees, PTL DEF Spec
=============================================================================
