--------------------------- MODULE MCConsignment ---------------------------
(* Instances of Consignment for TLC.                                       *)
EXTENDS Consignment, TLC

Symmetry == Permutations(Player) \cup Permutations(Item)
=============================================================================
