---------------------------- MODULE Consignment ----------------------------
(* The trade of Exchange together with the other user of the cell locks    *)
(* whose answer comes late: CConsignmentMgr locks a cell, asks the         *)
(* database to take the item (MP_CONSIGNMENT_INSERT) and finishes in       *)
(* RConsignment_Regist, while the character goes on playing.               *)
(*                                                                         *)
(* A character with a request under way is taken to stay logged in.        *)
EXTENDS Exchange

VARIABLES request,    \* the registrations the database has not answered
          consigned   \* the items the database has taken

RequestType == [owner : Player, cell : Slot, item : Item, deposit : Money]

CInit == Init /\ request = {} /\ consigned = {}

\* MP_CONSIGNMENT_REGIST_SYN.  It does not ask whether the character trades.
RegistSyn(p, s, d) ==
  /\ p \in online
  /\ s \notin locked[p] /\ inv[p][s] # NoItem
  /\ d <= gold[p]
  /\ locked' = [locked EXCEPT ![p] = @ \cup {s}]
  /\ request' = request \cup {[owner |-> p, cell |-> s, item |-> inv[p][s], deposit |-> d]}
  /\ UNCHANGED <<online, state, container, room, inv, gold, consigned>>

\* RConsignment_Regist, the database has taken the item: the cell is emptied
\* with SS_LOCKOMIT and the deposit is charged, both without another look.
RegistAck(q) ==
  /\ inv' = [inv EXCEPT ![q.owner][q.cell] = NoItem]
  /\ locked' = [locked EXCEPT ![q.owner] = @ \ {q.cell}]
  /\ gold' = [gold EXCEPT ![q.owner] = Subtraction(@, q.deposit)]
  /\ consigned' = consigned \cup {q.item}
  /\ request' = request \ {q}
  /\ UNCHANGED <<online, state, container, room>>

\* RConsignment_Regist, the database has refused.
RegistNack(q) ==
  /\ locked' = [locked EXCEPT ![q.owner] = @ \ {q.cell}]
  /\ request' = request \ {q}
  /\ UNCHANGED <<online, state, container, room, inv, gold, consigned>>

\* A step of the trade or of the rest of the character.  An item that was taken
\* is not one that "nobody carries": it cannot be obtained again.
OtherStep ==
  /\ Next
  /\ \A q \in request : q.owner \in online'
  /\ \A n \in consigned : \A p \in Player : \A s \in Slot :
       inv'[p][s] = n => \E o \in Player : \E t \in Slot : inv[o][t] = n
  /\ UNCHANGED <<request, consigned>>

CNext ==
  \/ OtherStep
  \/ \E p \in Player, s \in Slot, d \in Money : RegistSyn(p, s, d)
  \/ \E q \in request : RegistAck(q) \/ RegistNack(q)

CSpec == CInit /\ [][CNext]_<<vars, request, consigned>>

-----------------------------------------------------------------------------
\* "Process the item": what the consignment has taken is gone from every
\* inventory.  It is not, when a trade that ended in between has unlocked the
\* cell and the item was moved out of it.
ConsignedItemsGone ==
  \A n \in consigned : \A p \in Player : \A s \in Slot : inv[p][s] # n
=============================================================================
