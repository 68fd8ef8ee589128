------------------------------ MODULE MCGoods ------------------------------
(* Constants for the runs of Goods. *)
EXTENDS Goods, TLC
CONSTANTS b1, b2

TwoGoods == <<"11", "12">>
OneGoods == <<"11">>
TwoTypes == <<"1", "2">>
OneType  == <<"1">>

One == {[name |-> "cola", price |-> "5.5", size |-> "big"]}
Whole == {[name |-> "cola", price |-> "5.5", size |-> "big"], [name |-> "tea", price |-> "7.5", size |-> "small"]}

(* The same, and a form without a name.                                    *)
Nameless == One \cup {[name |-> "", price |-> "5.5", size |-> "big"]}

(* Searches left as they come, by each field, by ranges of prices, and with *)
(* a field empty.                                                          *)
AsItComes == [id |-> "xx", name |-> "xx", low |-> "xx.xx", high |-> "xx.xx", size |-> ""]
NoSearch  == {AsItComes}
AllSearches ==
  {AsItComes, [AsItComes EXCEPT !.id = "11"], [AsItComes EXCEPT !.name = "co"],
   [AsItComes EXCEPT !.low = "6.0"], [AsItComes EXCEPT !.high = "6.0", !.size = "big"],
   [AsItComes EXCEPT !.low = "5.5", !.high = "6.0"],
   [AsItComes EXCEPT !.name = ""], [AsItComes EXCEPT !.low = "5.5", !.high = ""]}
Inside == {<<"co", "cola">>}
Steps  == <<"5.5", "6.0", "7.5">>

Symmetry == Permutations(Browsers)
=============================================================================
