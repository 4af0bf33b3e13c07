----------------------------- MODULE MCArrival -----------------------------
(* Instances of Arrival for TLC. *)
EXTENDS Arrival, TLC
Symmetry == Permutations(Map)
============================================================================
