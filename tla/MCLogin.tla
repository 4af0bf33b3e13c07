------------------------------ MODULE MCLogin ------------------------------
(* Instances of Login for TLC, with one account. *)
EXTENDS Login, TLC
OneAccount == [s \in Session |-> CHOOSE x \in Account : TRUE]
Symmetry == Permutations(Block) \cup Permutations(Session)
============================================================================
