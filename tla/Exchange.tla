------------------------------ MODULE Exchange ------------------------------
(***************************************************************************)
(* The trade between two players of one map server: CExchangeManager (the  *)
(* handlers of the MP_EXCHANGE messages), CExchangeRoom (the offers, the   *)
(* locks and DoExchange) and the parts of the player they change - the     *)
(* inventory cells and their lock flags (CItemSlot), the purse (CPurse)    *)
(* and the object state (CObjectStateManager).                             *)
(*                                                                         *)
(* A map server is one thread that handles one message to its end, so a    *)
(* handler is one action.  What interleaves is the order of the messages   *)
(* of the two clients, of deaths and log-outs, and of everything else that *)
(* happens to an inventory between two messages of a trade.                *)
(*                                                                         *)
(* An operator whose comment begins with "Faulty" is a variant of the one  *)
(* after it that no action uses: a check run with it in place of the       *)
(* original must fail, which shows that the property it names has content. *)
(***************************************************************************)
EXTENDS Integers, FiniteSets

CONSTANTS Player,      \* the characters of the map
          Item,        \* the items (dwDBIdx)
          Room,        \* the rooms of the pool m_mpExchangeRoom
          NSlots,      \* cells of an inventory
          MaxItems,    \* MAX_EXCHANGEITEM
          MaxMoney,    \* MAX_INVENTORY_MONEY, the limit of an inventory purse
          NoItem, NoRoom, NoPlayer   \* an empty cell, NULL, NULL

ASSUME ExchangeAssumption ==
  /\ IsFiniteSet(Player)
  /\ NSlots \in Nat \ {0} /\ MaxItems \in Nat /\ MaxMoney \in Nat
  /\ NoItem \notin Item /\ NoRoom \notin Room /\ NoPlayer \notin Player

VARIABLES online,      \* the characters in g_pUserTable
          state,       \* the object state of each character
          container,   \* sEXCHANGECONTAINER of each character
          room,        \* the rooms: m_ExchangeData and m_nExchangeState
          inv,         \* m_ItemBaseArray: the item in each inventory cell
          locked,      \* the cells whose SLOTINFO.bLock is set
          gold         \* the money in each inventory purse

vars == <<online, state, container, room, inv, locked, gold>>

Slot  == 1..NSlots
Money == 0..MaxMoney
Side  == {0, 1}                  \* nMyIndex: the applicant is 0
Other(i) == 1 - i

(***************************************************************************)
(* "None" stands for None, Move, Immortal and Housing, which every check   *)
(* of the exchange treats alike; "Deal" for the activities that bar a      *)
(* trade (talking to an NPC, a street stall); "Fishing" may be invited to  *)
(* a trade but may not apply.                                              *)
(***************************************************************************)
ObjectState == {"None", "Fishing", "Deal", "Exchange", "Die"}

Offer == [Slot -> Item \cup {NoItem}]
NoOffer == [s \in Slot |-> NoItem]

RoomType == [phase : {"FREE", "WAITING", "DOING"},
             who     : [Side -> Player \cup {NoPlayer}],
             offer   : [Side -> Offer],
             bid     : [Side -> Money],
             lock    : [Side -> BOOLEAN],
             confirm : [Side -> BOOLEAN]]

ContainerType == [room : Room \cup {NoRoom}, side : Side, op : Player \cup {NoPlayer}]

FreeRoom == [phase   |-> "FREE",
             who     |-> [i \in Side |-> NoPlayer],
             offer   |-> [i \in Side |-> NoOffer],
             bid     |-> [i \in Side |-> 0],
             lock    |-> [i \in Side |-> FALSE],
             confirm |-> [i \in Side |-> FALSE]]

NoContainer == [room |-> NoRoom, side |-> 0, op |-> NoPlayer]

Init == /\ online = Player
        /\ state = [p \in Player |-> "None"]
        /\ container = [p \in Player |-> NoContainer]
        /\ room = [r \in Room |-> FreeRoom]
        /\ inv \in [Player -> Offer]
        /\ \A p, q \in Player : \A s, t \in Slot :
             inv[p][s] = inv[q][t] /\ inv[p][s] # NoItem => p = q /\ s = t
        /\ locked = [p \in Player |-> {}]
        /\ gold \in [Player -> Money]

-----------------------------------------------------------------------------
(* The trade a character takes part in, read through its container.        *)

RoomOf(p)  == container[p].room
SideOf(p)  == container[p].side
InRoom(p)  == p \in online /\ RoomOf(p) # NoRoom /\ container[p].op # NoPlayer
Members(r) == {room[r].who[i] : i \in Side}

Offered(r, i) == {s \in Slot : room[r].offer[i][s] # NoItem}

\* The cells Exit unlocks when no item has moved: those of p's own offer.
OwnOffer(r, p) == UNION {Offered(r, i) : i \in {j \in Side : room[r].who[j] = p}}

EmptyCells(p) == {s \in Slot : inv[p][s] = NoItem /\ s \notin locked[p]}

\* Faulty: the partner is forgotten.
EndExchangeOfSome(ps) ==
  [p \in Player |-> IF p \in ps /\ state[p] = "Exchange" /\ SideOf(p) = 0
                      THEN "None" ELSE state[p]]

\* OBJECTSTATEMGR->EndObjectState(p, eObjectState_Exchange) for every p of ps;
\* it does nothing to a character that is in another state.
EndExchange(ps) ==
  [p \in Player |-> IF p \in ps /\ state[p] = "Exchange" THEN "None" ELSE state[p]]

\* StartObjectState(p, eObjectState_Exchange): refused to the dead only.
StartExchange(p) ==
  IF state[p] = "Die" THEN state ELSE [state EXCEPT ![p] = "Exchange"]

\* Faulty: only the applicant is told that the room is gone.
FreeTheRoomOfOne(r) ==
  /\ container' = [p \in Player |-> IF p = room[r].who[0] THEN NoContainer ELSE container[p]]
  /\ room' = [room EXCEPT ![r] = FreeRoom]

\* DestroyExchangeRoom: Exit unlocks the offered cells and clears both
\* containers, then the room goes back to the pool.
FreeTheRoom(r) ==
  /\ container' = [p \in Player |-> IF p \in Members(r) THEN NoContainer ELSE container[p]]
  /\ room' = [room EXCEPT ![r] = FreeRoom]

\* Faulty: the offered cells stay locked.
DestroyKeepingLocks(r) == FreeTheRoom(r) /\ UNCHANGED locked

DestroyExchangeRoom(r) ==
  /\ FreeTheRoom(r)
  /\ locked' = [p \in Player |-> locked[p] \ OwnOffer(r, p)]

-----------------------------------------------------------------------------
(* The handlers that open a trade.                                         *)

CanApplyExchange(p, q) ==
  /\ state[p] = "None"
  /\ RoomOf(p) = NoRoom
  /\ q \in online
  /\ RoomOf(q) = NoRoom
  /\ state[q] \in {"None", "Fishing"}

\* CExchangeRoom::Init for the applicant p and the invited q.
NewRoom(p, q) ==
  [FreeRoom EXCEPT !.phase = "WAITING",
                   !.who = [i \in Side |-> IF i = 0 THEN p ELSE q]]

\* MP_EXCHANGE_APPLY_SYN.  That p and q differ is asked by the client alone,
\* which refuses to name its own character ([Client]LUNA/ExchangeManager.cpp:110).
ApplySyn(p, q) ==
  /\ p \in online /\ p # q
  /\ CanApplyExchange(p, q)
  /\ \E r \in Room :
       /\ room[r].phase = "FREE"
       /\ room' = [room EXCEPT ![r] = NewRoom(p, q)]
       /\ container' = [container EXCEPT
                          ![p] = [room |-> r, side |-> 0, op |-> q],
                          ![q] = [room |-> r, side |-> 1, op |-> p]]
  /\ state' = StartExchange(p)
  /\ UNCHANGED <<online, inv, locked, gold>>

\* MP_EXCHANGE_ACCEPT_SYN, from either side and in any phase.  The state of the
\* accepter is not looked at again.
AcceptSyn(p) ==
  /\ InRoom(p)
  /\ room' = [room EXCEPT ![RoomOf(p)].phase = "DOING"]
  /\ state' = StartExchange(p)
  /\ UNCHANGED <<online, container, inv, locked, gold>>

\* The same message when the two stand more than 1500 apart.
AcceptTooFar(p) ==
  /\ InRoom(p)
  /\ state' = EndExchange(Members(RoomOf(p)))
  /\ DestroyExchangeRoom(RoomOf(p))
  /\ UNCHANGED <<online, inv, gold>>

\* MP_EXCHANGE_REJECT_SYN and MP_EXCHANGE_WAITING_CANCEL_SYN: refused once the
\* trade is under way.
Withdraw(p) ==
  /\ InRoom(p)
  /\ room[RoomOf(p)].phase = "WAITING"
  /\ state' = EndExchange(Members(RoomOf(p)))
  /\ DestroyExchangeRoom(RoomOf(p))
  /\ UNCHANGED <<online, inv, gold>>

\* MP_EXCHANGE_CANTAPPLY and MP_EXCHANGE_CANCEL_SYN: accepted in any phase.
CancelSyn(p) ==
  /\ InRoom(p)
  /\ state' = EndExchange(Members(RoomOf(p)))
  /\ DestroyExchangeRoom(RoomOf(p))
  /\ UNCHANGED <<online, inv, gold>>

-----------------------------------------------------------------------------
(* The handlers that build the offers.  None of them asks whether the      *)
(* trade has been accepted.                                                *)

\* Faulty: an offer stays open until both sides are locked.
BothLocks(r) == \A i \in Side : room[r].lock[i]

AnyLock(r) == \E i \in Side : room[r].lock[i]

\* MP_EXCHANGE_ADDITEM_SYN for the item in cell s, with CExchangeRoom::AddItem.
AddItemSyn(p, s) ==
  LET r == RoomOf(p)
      i == SideOf(p)
  IN /\ InRoom(p)
     /\ inv[p][s] # NoItem
     /\ ~AnyLock(r)
     /\ Cardinality(Offered(r, i)) < MaxItems
     /\ s \notin locked[p]
     /\ room' = [room EXCEPT ![r].offer[i][s] = inv[p][s]]
     /\ locked' = [locked EXCEPT ![p] = @ \cup {s}]
     /\ UNCHANGED <<online, state, container, inv, gold>>

\* MP_EXCHANGE_INPUTMONEY_SYN, with CExchangeRoom::InputMoney: an amount can be
\* put in once and is cut down to what the purse holds.
InputMoneySyn(p, m) ==
  LET r == RoomOf(p)
      i == SideOf(p)
  IN /\ InRoom(p)
     /\ ~AnyLock(r)
     /\ room[r].bid[i] = 0
     /\ room' = [room EXCEPT ![r].bid[i] = IF m > gold[p] THEN gold[p] ELSE m]
     /\ UNCHANGED <<online, state, container, inv, locked, gold>>

\* MP_EXCHANGE_LOCK_SYN.
LockSyn(p) ==
  /\ InRoom(p)
  /\ room' = [room EXCEPT ![RoomOf(p)].lock[SideOf(p)] = TRUE]
  /\ UNCHANGED <<online, state, container, inv, locked, gold>>

-----------------------------------------------------------------------------
(* CExchangeRoom::DoExchange.                                              *)

\* The three checks, in the order of the code.
HasSpace(r) ==
  \A i \in Side :
    Cardinality(Offered(r, Other(i))) - Cardinality(Offered(r, i))
      <= Cardinality(EmptyCells(room[r].who[i]))

\* Faulty: the limit of the other purse is not looked at.
HasMoneyOnly(r) == \A i \in Side : room[r].bid[i] <= gold[room[r].who[i]]

HasMoney(r) ==
  /\ \A i \in Side : room[r].bid[i] <= gold[room[r].who[i]]
  /\ \A i \in Side : room[r].bid[i] # 0 =>
        gold[room[r].who[Other(i)]] + room[r].bid[i] <= MaxMoney

OffersIntact(r) ==
  \A i \in Side : \A s \in Offered(r, i) :
    inv[room[r].who[i]][s] = room[r].offer[i][s]

CanExchange(r) == HasSpace(r) /\ HasMoney(r) /\ OffersIntact(r)

\* The cells an item can be put in once the offers have been taken out.
FreedCells(r, i) == EmptyCells(room[r].who[i]) \cup Offered(r, i)

\* GetEmptyCell hands out the lowest cells; an item for which none is left is
\* skipped.
LowestCells(S, n) == {s \in S : Cardinality({t \in S : t <= s}) <= n}

\* Where the items offered to side i can end up: each cell that is filled, with
\* the cell of the other inventory its item comes from.
Placements(r, i) ==
  LET sent  == Offered(r, Other(i))
      cells == LowestCells(FreedCells(r, i), Cardinality(sent))
  IN {f \in [cells -> sent] : \A s, t \in cells : f[s] = f[t] => s = t}

\* The inventory of side i with its offer taken out and f put in.
TradedInv(r, i, f) ==
  [s \in Slot |-> IF s \in DOMAIN f       THEN room[r].offer[Other(i)][f[s]]
                  ELSE IF s \in Offered(r, i) THEN NoItem
                  ELSE inv[room[r].who[i]][s]]

\* CPurse::Addition and CPurse::Subtraction.
Addition(have, m) == IF have > MaxMoney - m THEN MaxMoney ELSE have + m

Subtraction(have, m) == IF have >= m THEN have - m ELSE have

\* Only the difference of the two amounts is moved.
TradedGold(r, i) ==
  LET mine   == room[r].bid[i]
      theirs == room[r].bid[Other(i)]
      have   == gold[room[r].who[i]]
  IN IF mine > theirs THEN Subtraction(have, mine - theirs)
                      ELSE Addition(have, theirs - mine)

\* Taking an item out clears the lock of its cell.  Exit then unlocks, in the
\* inventory of side i, the cell numbers its items have in the other inventory.
TradedLocks(r, i, f) == (locked[room[r].who[i]] \ Offered(r, i)) \ DOMAIN f

DoExchange(r) ==
  \E f0 \in Placements(r, 0), f1 \in Placements(r, 1) :
    LET f == [i \in Side |-> IF i = 0 THEN f0 ELSE f1]
        sideOf(p) == CHOOSE i \in Side : room[r].who[i] = p
    IN /\ inv' = [p \in Player |-> IF p \in Members(r)
                    THEN TradedInv(r, sideOf(p), f[sideOf(p)]) ELSE inv[p]]
       /\ gold' = [p \in Player |-> IF p \in Members(r)
                    THEN TradedGold(r, sideOf(p)) ELSE gold[p]]
       /\ locked' = [p \in Player |-> IF p \in Members(r)
                    THEN TradedLocks(r, sideOf(p), f[Other(sideOf(p))]) ELSE locked[p]]
       /\ FreeTheRoom(r)

\* Faulty: one confirmation counts for both sides.
ConfirmedForBoth(p) == [i \in Side |-> TRUE]

\* MP_EXCHANGE_EXCHANGE_SYN with both sides locked; with one side open it is
\* answered with a NACK.
Confirmed(p) == [room[RoomOf(p)].confirm EXCEPT ![SideOf(p)] = TRUE]

CanConfirm(p) == InRoom(p) /\ \A i \in Side : room[RoomOf(p)].lock[i]

\* The first of the two confirmations.
ConfirmFirst(p) ==
  /\ CanConfirm(p)
  /\ ~Confirmed(p)[Other(SideOf(p))]
  /\ room' = [room EXCEPT ![RoomOf(p)].confirm = Confirmed(p)]
  /\ UNCHANGED <<online, state, container, inv, locked, gold>>

\* The second one, and the exchange is carried out.
ConfirmExchange(p) ==
  /\ CanConfirm(p)
  /\ Confirmed(p)[Other(SideOf(p))]
  /\ CanExchange(RoomOf(p))
  /\ DoExchange(RoomOf(p))
  /\ state' = EndExchange(Members(RoomOf(p)))
  /\ UNCHANGED online

\* The second one, and a check of DoExchange fails.
ConfirmRefused(p) ==
  /\ CanConfirm(p)
  /\ Confirmed(p)[Other(SideOf(p))]
  /\ ~CanExchange(RoomOf(p))
  /\ DestroyExchangeRoom(RoomOf(p))
  /\ state' = EndExchange(Members(RoomOf(p)))
  /\ UNCHANGED <<online, inv, gold>>

-----------------------------------------------------------------------------
(* Deaths and log-outs, which end a trade from outside.                    *)

\* What both do to the partner, and to the room if there is one.
LeaveTrade(p) ==
  IF RoomOf(p) = NoRoom THEN UNCHANGED <<container, room, locked>>
                        ELSE DestroyExchangeRoom(RoomOf(p))

\* CPlayer::DoDie: StartObjectState(Die), then CancelExchange.
Die(p) ==
  /\ p \in online /\ state[p] # "Die"
  /\ state' = [EndExchange({container[p].op}) EXCEPT ![p] = "Die"]
  /\ LeaveTrade(p)
  /\ UNCHANGED <<online, inv, gold>>

\* CServerSystem::RemovePlayer, with CExchangeManager::UserLogOut.
UserLogOut(p) ==
  /\ p \in online
  /\ online' = online \ {p}
  /\ state' = [EndExchange({container[p].op}) EXCEPT ![p] = "None"]
  /\ LeaveTrade(p)
  /\ UNCHANGED <<inv, gold>>

-----------------------------------------------------------------------------
(* What else happens to the character meanwhile and leaves its trade as it *)
(* is: it logs in, dies by a pet and revives, begins and ends other        *)
(* activities, and its inventory and purse change through CItemSlot and    *)
(* CPurse, which refuse a locked cell.                                     *)

Login(p) ==
  /\ p \notin online
  /\ online' = online \cup {p}
  /\ UNCHANGED <<state, container, room, inv, locked, gold>>

\* CPlayer::DoDie by a pet whose owner has gone: it returns before CancelExchange,
\* and the dead character stays in its trade.
DieByPet(p) ==
  /\ p \in online /\ state[p] # "Die"
  /\ state' = [state EXCEPT ![p] = "Die"]
  /\ UNCHANGED <<online, container, room, inv, locked, gold>>

Revive(p) ==
  /\ p \in online /\ state[p] = "Die"
  /\ state' = [state EXCEPT ![p] = "None"]
  /\ UNCHANGED <<online, container, room, inv, locked, gold>>

StartOther(p, st) ==
  /\ p \in online /\ state[p] = "None"
  /\ state' = [state EXCEPT ![p] = st]
  /\ UNCHANGED <<online, container, room, inv, locked, gold>>

\* MP_NPC_SPEECH_SYN: StartObjectState(Deal), refused to the dead only.
NpcSpeech(p) ==
  /\ p \in online /\ state[p] # "Die"
  /\ state' = [state EXCEPT ![p] = "Deal"]
  /\ UNCHANGED <<online, container, room, inv, locked, gold>>

EndOther(p) ==
  /\ p \in online /\ state[p] \in {"Fishing", "Deal"}
  /\ state' = [state EXCEPT ![p] = "None"]
  /\ UNCHANGED <<online, container, room, inv, locked, gold>>

\* Faulty: only the cell the item leaves is asked for its lock.
MoveItemOver(p, s, t) ==
  /\ p \in online /\ s # t
  /\ inv[p][s] # NoItem
  /\ s \notin locked[p]
  /\ inv' = [inv EXCEPT ![p][s] = inv[p][t], ![p][t] = inv[p][s]]
  /\ UNCHANGED <<online, state, container, room, locked, gold>>

\* CItemManager::MoveItem inside the inventory.
MoveItem(p, s, t) ==
  /\ p \in online /\ s # t
  /\ inv[p][s] # NoItem
  /\ s \notin locked[p] /\ t \notin locked[p]
  /\ inv' = [inv EXCEPT ![p][s] = inv[p][t], ![p][t] = inv[p][s]]
  /\ UNCHANGED <<online, state, container, room, locked, gold>>

\* CItemSlot::DeleteItemAbs without SS_LOCKOMIT: an item is sold or thrown away.
Discard(p, s) ==
  /\ p \in online
  /\ inv[p][s] # NoItem /\ s \notin locked[p]
  /\ inv' = [inv EXCEPT ![p][s] = NoItem]
  /\ UNCHANGED <<online, state, container, room, locked, gold>>

\* CItemSlot::InsertItemAbs without SS_LOCKOMIT: an item that nobody carries is
\* put in an empty cell.
Obtain(p, n, s) ==
  /\ p \in online
  /\ \A q \in Player : \A t \in Slot : inv[q][t] # n
  /\ s \in EmptyCells(p)
  /\ inv' = [inv EXCEPT ![p][s] = n]
  /\ UNCHANGED <<online, state, container, room, locked, gold>>

Earn(p, m) ==
  /\ p \in online
  /\ gold' = [gold EXCEPT ![p] = Addition(@, m)]
  /\ UNCHANGED <<online, state, container, room, inv, locked>>

Spend(p, m) ==
  /\ p \in online
  /\ gold' = [gold EXCEPT ![p] = Subtraction(@, m)]
  /\ UNCHANGED <<online, state, container, room, inv, locked>>

-----------------------------------------------------------------------------
Trade(p) ==
  \/ \E q \in Player : ApplySyn(p, q)
  \/ AcceptSyn(p)
  \/ AcceptTooFar(p)
  \/ Withdraw(p)
  \/ CancelSyn(p)
  \/ \E s \in Slot : AddItemSyn(p, s)
  \/ \E m \in Money : InputMoneySyn(p, m)
  \/ LockSyn(p)
  \/ ConfirmFirst(p)
  \/ ConfirmExchange(p)
  \/ ConfirmRefused(p)
  \/ Die(p)
  \/ UserLogOut(p)

Outside(p) ==
  \/ Login(p)
  \/ DieByPet(p)
  \/ Revive(p)
  \/ \E st \in {"Fishing", "Deal"} : StartOther(p, st)
  \/ NpcSpeech(p)
  \/ EndOther(p)
  \/ \E s, t \in Slot : MoveItem(p, s, t)
  \/ \E s \in Slot : Discard(p, s)
  \/ \E n \in Item, s \in Slot : Obtain(p, n, s)
  \/ \E m \in Money : Earn(p, m)
  \/ \E m \in Money : Spend(p, m)

Next == \E p \in Player : Trade(p) \/ Outside(p)

Spec == Init /\ [][Next]_vars

-----------------------------------------------------------------------------
(* Invariants.                                                             *)

TypeOK ==
  /\ online \subseteq Player
  /\ state \in [Player -> ObjectState]
  /\ container \in [Player -> ContainerType]
  /\ room \in [Room -> RoomType]
  /\ inv \in [Player -> Offer]
  /\ locked \in [Player -> SUBSET Slot]
  /\ gold \in [Player -> Money]

\* The containers of two players and the room between them always tell the same
\* story: no container points to a room that went back to the pool, no room
\* keeps a pointer to a player who left or who trades elsewhere.
ContainersPaired ==
  /\ \A p \in Player : RoomOf(p) # NoRoom =>
       /\ p \in online
       /\ room[RoomOf(p)].phase # "FREE"
       /\ room[RoomOf(p)].who[SideOf(p)] = p
  /\ \A p \in Player : RoomOf(p) = NoRoom => container[p] = NoContainer
  /\ \A r \in Room : IF room[r].phase = "FREE" THEN room[r] = FreeRoom
       ELSE \A i \in Side :
              /\ room[r].who[i] \in Player
              /\ container[room[r].who[i]] =
                   [room |-> r, side |-> i, op |-> room[r].who[Other(i)]]

\* Types and the pairing together: the state every handler may rely on.
RoomsSound == TypeOK /\ ContainersPaired

\* While a trade is open the cells it offers are locked and still hold the very
\* items that were put in, whatever else happens to the inventory: what the
\* check "is everything in its place" of DoExchange asks for.
OffersHeld ==
  \A r \in Room : \A i \in Side : \A s \in Offered(r, i) :
    /\ inv[room[r].who[i]][s] = room[r].offer[i][s]
    /\ s \in locked[room[r].who[i]]

\* No cell stays locked after its trade: a locked cell is one that is offered
\* in the trade its owner takes part in now.
NoStrayLock ==
  \A p \in Player : \A s \in locked[p] :
    RoomOf(p) # NoRoom /\ s \in Offered(RoomOf(p), SideOf(p))

\* Both: the locks are those of the open trades, no more and no less.
OffersFrozen == OffersHeld /\ NoStrayLock

\* Nobody is left in the object state Exchange without a trade that can still
\* be ended: there is no other way out of that state but death and log-out.
NobodyStuck ==
  \A p \in Player : state[p] = "Exchange" =>
    /\ RoomOf(p) # NoRoom
    /\ room[RoomOf(p)].phase = "DOING" \/ SideOf(p) = 0

-----------------------------------------------------------------------------
(* Action properties.                                                      *)

\* The items in the cells of an inventory.
Items(cells) == {cells[s] : s \in Slot} \ {NoItem}

Given(r, i) == {room[r].offer[i][s] : s \in Offered(r, i)}

\* Once one side has locked, what that side saw - both offers and both sums -
\* is what the trade is about until the room is closed.
LockedOffersFixed ==
  [][\A r \in Room : (\E i \in Side : room[r].lock[i]) /\ room'[r].phase # "FREE" =>
       room'[r].offer = room[r].offer /\ room'[r].bid = room[r].bid]_vars

\* An item passes from one player to another only out of a trade of the two in
\* which both have locked and one has confirmed before, and only if it was
\* offered there.
ItemsMoveByConsent ==
  [][\A p, q \in Player : p # q => \A n \in Items(inv[p]) \cap Items(inv'[q]) :
       LET r == RoomOf(p)
       IN /\ r # NoRoom /\ RoomOf(q) = r
          /\ room[r].phase # "FREE"
          /\ \A i \in Side : room[r].lock[i]
          /\ \E i \in Side : room[r].confirm[i]
          /\ n \in Given(r, SideOf(p))]_vars

\* A trade is carried out whole or not at all: when a single item of it changes
\* hands, every offered item does, no other item of the two is lost or made, and
\* each purse changes by exactly the two sums.
TradeIsExact ==
  [][\A r \in Room :
       (\E i \in Side : room[r].phase # "FREE"
                        /\ Given(r, i) \cap Items(inv'[room[r].who[Other(i)]]) # {}) =>
         \A i \in Side :
           LET p == room[r].who[i]
           IN /\ Items(inv'[p]) = (Items(inv[p]) \ Given(r, i)) \cup Given(r, Other(i))
              /\ gold'[p] = gold[p] - room[r].bid[i] + room[r].bid[Other(i)]]_vars
=============================================================================
