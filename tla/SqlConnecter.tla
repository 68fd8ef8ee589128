---------------------------- MODULE SqlConnecter ----------------------------
(***************************************************************************)
(* The class sql_connecter of sql_connect.cpp, as operators on the state   *)
(* of one object: its handle, its current result, and the results the      *)
(* client library has allocated for it.  Each operator is one method; what *)
(* the database and the library answer is its argument.  Goods composes    *)
(* the objects of concurrent programs with the database.                   *)
(***************************************************************************)
EXTENDS Integers, FiniteSets

NoResult == 0

(* The handle: none, made by mysql_init, or connected.  allocated holds    *)
(* the results not freed yet; fault is the undefined behaviour the object  *)
(* ran into, if any.                                                       *)
Object == [conn : {"null", "init", "open"}, res : Nat, allocated : SUBSET Nat, made : Nat,
           fault : {"none", "free", "null"}]

(* What comes back for a statement, a: whether it was executed, how many   *)
(* rows it affected, whether a result came with it and could be stored.    *)
NewObject == [conn |-> "init", res |-> NoResult, allocated |-> {}, made |-> 0, fault |-> "none"]

BeginConnect(o, accepted) == IF accepted THEN [o EXCEPT !.conn = "open"] ELSE o
CloseConnect(o) == [o EXCEPT !.conn = "null"]
-----------------------------------------------------------------------------
(* mysql_store_result and mysql_free_result. *)

Store(o, rows) ==
  IF rows THEN [o EXCEPT !.made = @ + 1, !.res = o.made + 1, !.allocated = @ \cup {o.made + 1}]
          ELSE [o EXCEPT !.res = NoResult]

Free(o) ==
  IF o.res \in o.allocated THEN [o EXCEPT !.allocated = @ \ {o.res}]
                           ELSE [o EXCEPT !.fault = "free"]
-----------------------------------------------------------------------------
CloseResult(o) == IF o.res = NoResult THEN o ELSE [Free(o) EXCEPT !.res = NoResult]

(* ~sql_connecter.  (A mutant leaves the result to its owner.)             *)
DestroyOnlyCloses(o) == CloseConnect(o)
Destroy(o) == CloseResult(IF o.conn # "null" THEN CloseConnect(o) ELSE o)

(* exe_update asks for a result before it has sent anything, and so loses  *)
(* the one it had.  An error of mysql_query, which is 1, is returned as    *)
(* the number of rows is; a result is freed and _res not cleared.          *)
ExeUpdate(o, a) ==
  LET before == CloseResult(Store(o, FALSE))
      after  == Store(before, a.rows)
  IN IF ~a.ok THEN [obj |-> before, ret |-> 1]
     ELSE [obj |-> IF after.res = NoResult THEN after ELSE Free(after), ret |-> a.affected]

(* exe_select_type and exe_select_goods: what _res pointed to is lost, and *)
(* a result that could not be stored is used all the same.                 *)
ExeSelect(o, a) ==
  IF ~a.ok THEN o
  ELSE IF a.stored THEN Store(o, TRUE)
  ELSE [Store(o, FALSE) EXCEPT !.fault = "null"]
=============================================================================
