--------------------------- MODULE MCStreetStall ---------------------------
(* An instance of StreetStall for TLC: three players sell, two buy, and three are guests. *)
EXTENDS StreetStall

CONSTANTS sells1, sells2, sells3, buys1, buys2, guest1, guest2, guest3, potion, sword

TheInv == [p \in Player |->
  CASE p = sells1 -> <<ItemOf(1, potion, 2), ItemOf(2, sword, 1)>>
    [] p = sells2 -> <<ItemOf(3, potion, 2), NoItem>>
    [] p = sells3 -> <<ItemOf(6, potion, 2), NoItem>>
    [] p = guest2 -> <<ItemOf(4, potion, 2), NoItem>>
    [] p = guest3 -> <<ItemOf(5, sword, 1), NoItem>>
    [] OTHER -> <<NoItem, NoItem>>]
TheGold == [p \in Player |->
  IF p \in {buys1, buys2, guest1} THEN 2 ELSE IF p \in {guest2, guest3} THEN 1 ELSE 0]
TheOpens == [p \in Player |->
  IF p \in {sells1, sells2, sells3} THEN {"SELL"} ELSE IF p \in {buys1, buys2} THEN {"BUY"} ELSE {}]
ThePrices == [p \in Player |-> IF p \in {sells1, sells3} THEN {1} ELSE {1, 2}]
=============================================================================
