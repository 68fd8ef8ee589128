------------------------------ MODULE MCWhole ------------------------------
(* The goods programs with a database that does what it is told and forms  *)
(* without a blank field: what the theorems of GoodsAnswers suppose.       *)
EXTENDS MCGoods

ASSUME WholeAssumption == Willing /\ Filled
=============================================================================
