----------------------------- MODULE MCDataBase -----------------------------
(* Instances of DataBase for TLC: a character (its number is the index of  *)
(* its queries), a part of the game that gives no index, the log.          *)
EXTENDS DataBase

CONSTANTS hero, world, log

MCSource == {hero, world, log}
MCKind   == [s \in MCSource |-> IF s = log THEN "LOG" ELSE "ADMIN"]
MCLimit  == [s \in MCSource |-> CASE s = hero -> 2 [] s = world -> 1 [] s = log -> 3]
MCIndex  == [s \in MCSource |-> IF s = hero THEN 3 ELSE 0]
=============================================================================
