----------------------------- MODULE MCExchange -----------------------------
(* Instances of Exchange for TLC.  The players and the items are alike, so *)
(* both sets may be permuted.                                              *)
EXTENDS Exchange, TLC

Symmetry == Permutations(Player) \cup Permutations(Item) \cup Permutations(Room)
=============================================================================
