------------------------------ MODULE SendPipe ------------------------------
(***************************************************************************)
(* What the sending side of a connection promises: the bytes of the        *)
(* messages it accepts leave in order, each once, no message in part       *)
(* unless the connection breaks.  A message is its number and the length   *)
(* of its body; two bytes of length go before it.                          *)
(***************************************************************************)
EXTENDS Integers, Sequences

CONSTANTS MsgLength,  \* the lengths of bodies
          MaxMsgs     \* a bound: the messages sent

VARIABLES accepted,  \* how many messages have been accepted
          pending,   \* their bytes that have not left
          sent,      \* those that have
          broken     \* the connection has been broken

pipeVars == <<accepted, pending, sent, broken>>

Header(m)    == <<<<m, 1>>, <<m, 2>>>>
Body(m, len) == [k \in 1..len |-> <<m, k + 2>>]

Init == accepted = 0 /\ pending = <<>> /\ sent = <<>> /\ broken = FALSE

Accept ==
  \E len \in MsgLength :
    /\ accepted < MaxMsgs
    /\ accepted' = accepted + 1
    /\ pending' = pending \o Header(accepted + 1) \o Body(accepted + 1, len)
    /\ UNCHANGED <<sent, broken>>

Transmit ==
  \E n \in 1..Len(pending) :
    /\ ~broken
    /\ sent' = sent \o SubSeq(pending, 1, n)
    /\ pending' = SubSeq(pending, n + 1, Len(pending))
    /\ UNCHANGED <<accepted, broken>>

Break == broken' = TRUE /\ UNCHANGED <<accepted, pending, sent>>

Next == Accept \/ Transmit \/ Break
Spec == Init /\ [][Next]_pipeVars /\ WF_pipeVars(Transmit)
=============================================================================
