----------------------------- MODULE MCDBThread -----------------------------
(* Instances of DBThread for TLC.  The properties include liveness, so the *)
(* messages are not declared symmetric.                                    *)
EXTENDS DBThread
=============================================================================
