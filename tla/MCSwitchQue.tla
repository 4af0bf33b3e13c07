---------------------------- MODULE MCSwitchQue ----------------------------
(* An instance of SwitchQue for TLC. *)
EXTENDS SwitchQue

CONSTANTS c1, c2
Messages == {[c \in Connection |-> IF c = c1 THEN 2 ELSE 0], [c \in Connection |-> 1]}
=============================================================================
