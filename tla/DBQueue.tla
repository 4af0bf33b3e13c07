------------------------------- MODULE DBQueue -------------------------------
(***************************************************************************)
(* What the servers rely on when they hand a query to a database thread:   *)
(* every query that was taken is carried out once, in the order in which   *)
(* the queries were handed over; its answer is given to its handler once,  *)
(* in the same order; and the block that carried it can be used again      *)
(* after the handler has returned, not before.  DBThread shows how two     *)
(* threads and two pairs of lists do it.                                   *)
(***************************************************************************)
EXTENDS Sequences

CONSTANTS Message,    \* the blocks a query travels in
          NoMessage   \* no block, which is not one of them

VARIABLES free,       \* the blocks no query uses
          pending,    \* the queries the database has not carried out
          answers,    \* the answers no handler has seen
          handling,   \* the answer whose handler is running
          open        \* queries are still accepted

vars == <<free, pending, answers, handling, open>>

Init == /\ free = Message
        /\ pending = <<>>
        /\ answers = <<>>
        /\ handling = NoMessage
        /\ open = TRUE

\* A query is handed over; a handler may do so while it runs.
Submit(m) ==
  /\ open /\ m \in free
  /\ free' = free \ {m}
  /\ pending' = Append(pending, m)
  /\ UNCHANGED <<answers, handling, open>>

\* The database carries out the oldest query.
Execute ==
  /\ pending # <<>>
  /\ pending' = Tail(pending)
  /\ answers' = Append(answers, Head(pending))
  /\ UNCHANGED <<free, handling, open>>

\* The handler of the oldest answer is called ...
Deliver ==
  /\ handling = NoMessage /\ answers # <<>>
  /\ handling' = Head(answers)
  /\ answers' = Tail(answers)
  /\ UNCHANGED <<free, pending, open>>

\* ... and returns.
Finish ==
  /\ handling # NoMessage
  /\ free' = free \cup {handling}
  /\ handling' = NoMessage
  /\ UNCHANGED <<pending, answers, open>>

\* The service is closed when nothing is under way.
Close ==
  /\ open /\ free = Message /\ handling = NoMessage
  /\ open' = FALSE
  /\ UNCHANGED <<free, pending, answers, handling>>

Next == (\E m \in Message : Submit(m)) \/ Execute \/ Deliver \/ Finish \/ Close

SafeSpec == Init /\ [][Next]_vars

Fairness == WF_vars(Execute) /\ WF_vars(Deliver) /\ WF_vars(Finish)

Spec == SafeSpec /\ Fairness
=============================================================================
