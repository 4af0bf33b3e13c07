--------------------------- MODULE ExchangeProofs ---------------------------
(* What the trade of Exchange guarantees for any number of players, rooms, *)
(* cells and items.                                                        *)
EXTENDS Exchange, FiniteSetTheorems, WellFoundedInduction, TLAPS

\* FreeRoom and a room that was just opened are rooms.
LEMMA RoomTypes ==
  ASSUME ExchangeAssumption
  PROVE  /\ FreeRoom \in RoomType
         /\ NoContainer \in ContainerType
         /\ \A p, q \in Player : NewRoom(p, q) \in RoomType
<1>1. FreeRoom \in RoomType
  BY DEF ExchangeAssumption, FreeRoom, RoomType, Offer, NoOffer, Money, Side
<1>2. NoContainer \in ContainerType
  BY DEF NoContainer, ContainerType, Side
<1>3. ASSUME NEW p \in Player, NEW q \in Player PROVE NewRoom(p, q) \in RoomType
  <2>1. [i \in Side |-> IF i = 0 THEN p ELSE q] \in [Side -> Player \cup {NoPlayer}]
    OBVIOUS
  <2> QED BY <1>1, <2>1 DEF NewRoom, RoomType
<1> QED BY <1>1, <1>2, <1>3

\* What every handler may rely on for the trade it acts in.
LEMMA InRoomType ==
  ASSUME TypeOK, NEW p \in Player, InRoom(p)
  PROVE  /\ RoomOf(p) \in Room
         /\ SideOf(p) \in Side
         /\ room[RoomOf(p)] \in RoomType
BY DEF TypeOK, InRoom, RoomOf, SideOf, ContainerType

\* Closing a room keeps the types.
LEMMA DestroyType ==
  ASSUME ExchangeAssumption, TypeOK, NEW r \in Room, DestroyExchangeRoom(r)
  PROVE  /\ container' \in [Player -> ContainerType]
         /\ room' \in [Room -> RoomType]
         /\ locked' \in [Player -> SUBSET Slot]
BY RoomTypes DEF TypeOK, DestroyExchangeRoom, FreeTheRoom

LEMMA EndType ==
  ASSUME TypeOK, NEW ps
  PROVE  EndExchange(ps) \in [Player -> ObjectState]
BY DEF TypeOK, EndExchange, ObjectState

LEMMA StartType ==
  ASSUME TypeOK, NEW p \in Player
  PROVE  StartExchange(p) \in [Player -> ObjectState]
BY DEF TypeOK, StartExchange, ObjectState

\* Items taken over from the other side's offer leave an inventory an inventory.
LEMMA TradedInvType ==
  ASSUME TypeOK, NEW r \in Room, NEW i \in Side, room[r].who[i] \in Player,
         NEW f \in Placements(r, i)
  PROVE  TradedInv(r, i, f) \in Offer
<1>1. Other(i) \in Side
  BY DEF Side, Other
<1>2. /\ DOMAIN f \subseteq Slot
      /\ \A s \in DOMAIN f : f[s] \in Offered(r, Other(i))
  BY DEF Placements, LowestCells, FreedCells, EmptyCells, Offered
<1>3. \A s \in DOMAIN f : room[r].offer[Other(i)][f[s]] \in Item \cup {NoItem}
  BY <1>1, <1>2 DEF TypeOK, RoomType, Offer, Offered
<1>4. inv[room[r].who[i]] \in Offer
  BY DEF TypeOK
<1> QED BY <1>3, <1>4 DEF TradedInv, Offer

\* A purse stays within its limit.
LEMMA TradedGoldType ==
  ASSUME ExchangeAssumption, TypeOK, NEW r \in Room, NEW i \in Side, room[r].who[i] \in Player
  PROVE  TradedGold(r, i) \in Money
<1>1. Other(i) \in Side
  BY DEF Side, Other
<1>2. room[r].bid[i] \in Money /\ room[r].bid[Other(i)] \in Money
  BY <1>1 DEF TypeOK, RoomType
<1>3. gold[room[r].who[i]] \in Money
  BY DEF TypeOK
<1> QED BY <1>2, <1>3 DEF TradedGold, Money, Addition, Subtraction, ExchangeAssumption

LEMMA DoExchangeType ==
  ASSUME ExchangeAssumption, TypeOK, NEW r \in Room, DoExchange(r)
  PROVE  /\ container' \in [Player -> ContainerType]
         /\ room' \in [Room -> RoomType]
         /\ inv' \in [Player -> Offer]
         /\ locked' \in [Player -> SUBSET Slot]
         /\ gold' \in [Player -> Money]
<1> DEFINE sideOf(p) == CHOOSE i \in Side : room[r].who[i] = p
<1>1. PICK f0 \in Placements(r, 0), f1 \in Placements(r, 1) :
        LET f == [i \in Side |-> IF i = 0 THEN f0 ELSE f1]
        IN /\ inv' = [p \in Player |-> IF p \in Members(r)
                        THEN TradedInv(r, sideOf(p), f[sideOf(p)]) ELSE inv[p]]
           /\ gold' = [p \in Player |-> IF p \in Members(r)
                        THEN TradedGold(r, sideOf(p)) ELSE gold[p]]
           /\ locked' = [p \in Player |-> IF p \in Members(r)
                        THEN TradedLocks(r, sideOf(p), f[Other(sideOf(p))]) ELSE locked[p]]
           /\ FreeTheRoom(r)
  BY DEF DoExchange
<1> DEFINE f == [i \in Side |-> IF i = 0 THEN f0 ELSE f1]
<1>2. \A i \in Side : f[i] \in Placements(r, i)
  BY DEF Side
<1>3. \A p \in Members(r) : sideOf(p) \in Side /\ room[r].who[sideOf(p)] = p
  BY DEF Members
<1> HIDE DEF f, sideOf
<1>4. \A p \in Player : p \in Members(r) => TradedInv(r, sideOf(p), f[sideOf(p)]) \in Offer
  BY <1>2, <1>3, TradedInvType
<1>5. \A p \in Player : p \in Members(r) => TradedGold(r, sideOf(p)) \in Money
  BY <1>3, TradedGoldType
<1>6. \A p \in Player : p \in Members(r) =>
        TradedLocks(r, sideOf(p), f[Other(sideOf(p))]) \in SUBSET Slot
  BY <1>3 DEF TradedLocks, TypeOK
<1>7. inv' \in [Player -> Offer]
  BY <1>1, <1>4 DEF TypeOK, f
<1>8. gold' \in [Player -> Money]
  BY <1>1, <1>5 DEF TypeOK
<1>9. locked' \in [Player -> SUBSET Slot]
  BY <1>1, <1>6 DEF TypeOK, f
<1>10. container' \in [Player -> ContainerType] /\ room' \in [Room -> RoomType]
  BY <1>1, RoomTypes DEF TypeOK, FreeTheRoom
<1> QED BY <1>7, <1>8, <1>9, <1>10

-----------------------------------------------------------------------------
\* Type correctness: every handler leaves a well-formed world - in particular no
\* purse under 0 or over its limit.
LEMMA InitType ==
  ASSUME ExchangeAssumption, Init
  PROVE  TypeOK
BY RoomTypes DEF Init, TypeOK, ObjectState

LEMMA TradeType ==
  ASSUME ExchangeAssumption, TypeOK, NEW p \in Player, Trade(p)
  PROVE  TypeOK'
<1>1. ASSUME NEW q \in Player, ApplySyn(p, q) PROVE TypeOK'
  <2>1. PICK r \in Room :
          /\ room' = [room EXCEPT ![r] = NewRoom(p, q)]
          /\ container' = [container EXCEPT ![p] = [room |-> r, side |-> 0, op |-> q],
                                            ![q] = [room |-> r, side |-> 1, op |-> p]]
    BY <1>1 DEF ApplySyn
  <2>2. room' \in [Room -> RoomType]
    BY <2>1, RoomTypes DEF TypeOK
  <2>3. container' \in [Player -> ContainerType]
    BY <2>1 DEF TypeOK, ContainerType, Side
  <2> QED BY <1>1, <2>2, <2>3, StartType DEF ApplySyn, TypeOK
<1>2. CASE AcceptSyn(p)
  <2>1. room' \in [Room -> RoomType]
    BY <1>2, InRoomType DEF AcceptSyn, TypeOK, RoomType
  <2> QED BY <1>2, <2>1, StartType DEF AcceptSyn, TypeOK
<1>3. CASE AcceptTooFar(p)
  BY <1>3, InRoomType, DestroyType, EndType DEF AcceptTooFar, TypeOK
<1>4. CASE Withdraw(p)
  BY <1>4, InRoomType, DestroyType, EndType DEF Withdraw, TypeOK
<1>5. CASE CancelSyn(p)
  BY <1>5, InRoomType, DestroyType, EndType DEF CancelSyn, TypeOK
<1>6. ASSUME NEW s \in Slot, AddItemSyn(p, s) PROVE TypeOK'
  <2>1. inv[p][s] \in Item \cup {NoItem}
    BY DEF TypeOK, Offer
  <2>2. room' \in [Room -> RoomType]
    BY <1>6, <2>1, InRoomType DEF AddItemSyn, TypeOK, RoomType, Offer
  <2> QED BY <1>6, <2>2 DEF AddItemSyn, TypeOK
<1>7. ASSUME NEW m \in Money, InputMoneySyn(p, m) PROVE TypeOK'
  <2>1. gold[p] \in Money
    BY DEF TypeOK
  <2>2. room' \in [Room -> RoomType]
    BY <1>7, <2>1, InRoomType DEF InputMoneySyn, TypeOK, RoomType
  <2> QED BY <1>7, <2>2 DEF InputMoneySyn, TypeOK
<1>8. CASE LockSyn(p)
  <2>1. room' \in [Room -> RoomType]
    BY <1>8, InRoomType DEF LockSyn, TypeOK, RoomType
  <2> QED BY <1>8, <2>1 DEF LockSyn, TypeOK
<1>9. CASE ConfirmFirst(p)
  <2>1. Confirmed(p) \in [Side -> BOOLEAN]
    BY <1>9, InRoomType DEF ConfirmFirst, CanConfirm, Confirmed, RoomType
  <2>2. RoomOf(p) \in Room /\ room[RoomOf(p)] \in RoomType
    BY <1>9, InRoomType DEF ConfirmFirst, CanConfirm
  <2>3. [room[RoomOf(p)] EXCEPT !.confirm = Confirmed(p)] \in RoomType
    BY <2>1, <2>2 DEF RoomType
  <2>4. room' \in [Room -> RoomType]
    BY <1>9, <2>2, <2>3 DEF ConfirmFirst, TypeOK
  <2> QED BY <1>9, <2>4 DEF ConfirmFirst, TypeOK
<1>10. CASE ConfirmExchange(p)
  BY <1>10, InRoomType, DoExchangeType, EndType DEF ConfirmExchange, CanConfirm, TypeOK
<1>11. CASE ConfirmRefused(p)
  BY <1>11, InRoomType, DestroyType, EndType DEF ConfirmRefused, CanConfirm, TypeOK
<1>12. ASSUME LeaveTrade(p)
       PROVE  /\ container' \in [Player -> ContainerType]
              /\ room' \in [Room -> RoomType]
              /\ locked' \in [Player -> SUBSET Slot]
  <2>1. RoomOf(p) \in Room \cup {NoRoom}
    BY DEF TypeOK, RoomOf, ContainerType
  <2> QED BY <1>12, <2>1, DestroyType DEF LeaveTrade, TypeOK
<1>13. CASE Die(p)
  <2>1. state' \in [Player -> ObjectState]
    BY <1>13, EndType DEF Die, ObjectState
  <2> QED BY <1>12, <1>13, <2>1 DEF Die, TypeOK
<1>14. CASE UserLogOut(p)
  <2>1. state' \in [Player -> ObjectState]
    BY <1>14, EndType DEF UserLogOut, ObjectState
  <2> QED BY <1>12, <1>14, <2>1 DEF UserLogOut, TypeOK
<1> QED BY <1>1, <1>2, <1>3, <1>4, <1>5, <1>6, <1>7, <1>8, <1>9, <1>10, <1>11,
           <1>13, <1>14 DEF Trade

LEMMA OutsideType ==
  ASSUME ExchangeAssumption, TypeOK, NEW p \in Player, Outside(p)
  PROVE  TypeOK'
<1>1. CASE Login(p)
  BY <1>1 DEF Login, TypeOK
<1>2. CASE DieByPet(p) \/ Revive(p) \/ NpcSpeech(p) \/ EndOther(p)
  BY <1>2 DEF DieByPet, Revive, NpcSpeech, EndOther, TypeOK, ObjectState
<1>3. ASSUME NEW st \in {"Fishing", "Deal"}, StartOther(p, st) PROVE TypeOK'
  BY <1>3 DEF StartOther, TypeOK, ObjectState
<1>4. ASSUME NEW s \in Slot, NEW t \in Slot, MoveItem(p, s, t) PROVE TypeOK'
  BY <1>4 DEF MoveItem, TypeOK, Offer
<1>5. ASSUME NEW s \in Slot, Discard(p, s) PROVE TypeOK'
  BY <1>5 DEF Discard, TypeOK, Offer
<1>6. ASSUME NEW n \in Item, NEW s \in Slot, Obtain(p, n, s) PROVE TypeOK'
  BY <1>6 DEF Obtain, TypeOK, Offer
<1>7. ASSUME NEW m \in Money, Earn(p, m) PROVE TypeOK'
  BY <1>7 DEF Earn, TypeOK, Money, Addition, ExchangeAssumption
<1>8. ASSUME NEW m \in Money, Spend(p, m) PROVE TypeOK'
  BY <1>8 DEF Spend, TypeOK, Money, Subtraction, ExchangeAssumption
<1> QED BY <1>1, <1>2, <1>3, <1>4, <1>5, <1>6, <1>7, <1>8 DEF Outside

LEMMA NextType ==
  ASSUME ExchangeAssumption, TypeOK, [Next]_vars
  PROVE  TypeOK'
<1>1. ASSUME UNCHANGED vars PROVE TypeOK'
  BY <1>1 DEF vars, TypeOK
<1> QED BY <1>1, TradeType, OutsideType DEF Next

THEOREM TypeCorrect == Spec => []TypeOK
<1>1. Init => TypeOK
  BY ExchangeAssumption, InitType
<1>2. TypeOK /\ [Next]_vars => TypeOK'
  BY ExchangeAssumption, NextType
<1> QED BY <1>1, <1>2, PTL DEF Spec

-----------------------------------------------------------------------------
(* The containers and the rooms.  Only opening and closing a room changes  *)
(* who trades with whom; every other step is covered by PairedSame.        *)

\* A room between two players: each side's container leads back to it.
LEMMA Partners ==
  ASSUME TypeOK, ContainersPaired, NEW r \in Room, room[r].phase # "FREE"
  PROVE  /\ \A i \in Side : /\ room[r].who[i] \in Player
                            /\ RoomOf(room[r].who[i]) = r
                            /\ SideOf(room[r].who[i]) = i
         /\ Members(r) \subseteq Player
         /\ \A q \in Player : q \in Members(r) <=> RoomOf(q) = r
<1>1. ASSUME NEW i \in Side
      PROVE  /\ room[r].who[i] \in Player
             /\ RoomOf(room[r].who[i]) = r
             /\ SideOf(room[r].who[i]) = i
  <2>1. /\ room[r].who[i] \in Player
        /\ container[room[r].who[i]] = [room |-> r, side |-> i, op |-> room[r].who[Other(i)]]
    BY DEF ContainersPaired
  <2> QED BY <2>1 DEF RoomOf, SideOf
<1>2. ASSUME NEW q \in Player, RoomOf(q) = r PROVE q \in Members(r)
  <2>1. r # NoRoom
    BY ExchangeAssumption DEF ExchangeAssumption
  <2>2. SideOf(q) \in Side
    BY DEF TypeOK, SideOf, ContainerType
  <2> QED BY <1>2, <2>1, <2>2 DEF ContainersPaired, Members
<1> QED BY <1>1, <1>2 DEF Members

LEMMA OpenRoom ==
  ASSUME TypeOK, ContainersPaired, NEW p \in Player, RoomOf(p) # NoRoom
  PROVE  /\ RoomOf(p) \in Room /\ SideOf(p) \in Side
         /\ room[RoomOf(p)].phase # "FREE"
         /\ room[RoomOf(p)].who[SideOf(p)] = p
         /\ p \in Members(RoomOf(p))
BY DEF ContainersPaired, RoomOf, SideOf, Members, TypeOK, ContainerType

LEMMA PairedSame ==
  ASSUME TypeOK, ContainersPaired,
         UNCHANGED container,
         \A q \in Player : RoomOf(q) # NoRoom => q \in online',
         \A r \in Room : room'[r] = room[r]
                         \/ /\ room[r].phase # "FREE" /\ room'[r].phase # "FREE"
                            /\ room'[r].who = room[r].who
  PROVE  ContainersPaired'
<1>1. ASSUME NEW p \in Player, RoomOf(p)' # NoRoom
      PROVE  /\ p \in online'
             /\ room'[RoomOf(p)'].phase # "FREE"
             /\ room'[RoomOf(p)'].who[SideOf(p)'] = p
  <2>1. RoomOf(p)' = RoomOf(p) /\ SideOf(p)' = SideOf(p)
    BY DEF RoomOf, SideOf
  <2> QED BY <1>1, <2>1, OpenRoom
<1>2. ASSUME NEW p \in Player, RoomOf(p)' = NoRoom
      PROVE  container'[p] = NoContainer
  BY <1>2 DEF ContainersPaired, RoomOf
<1>3. ASSUME NEW r \in Room
      PROVE  IF room'[r].phase = "FREE" THEN room'[r] = FreeRoom
             ELSE \A i \in Side :
                    /\ room'[r].who[i] \in Player
                    /\ container'[room'[r].who[i]] =
                         [room |-> r, side |-> i, op |-> room'[r].who[Other(i)]]
  BY DEF ContainersPaired
<1> QED BY <1>1, <1>2, <1>3 DEF ContainersPaired

LEMMA PairedFree ==
  ASSUME ExchangeAssumption, TypeOK, ContainersPaired,
         NEW r \in Room, room[r].phase # "FREE", FreeTheRoom(r),
         online \ online' \subseteq Members(r)
  PROVE  ContainersPaired'
<1>1. /\ \A p \in Player : container'[p] = IF RoomOf(p) = r THEN NoContainer ELSE container[p]
      /\ room'[r] = FreeRoom
      /\ \A t \in Room \ {r} : room'[t] = room[t]
  BY Partners DEF FreeTheRoom, TypeOK
<1>2. ASSUME NEW p \in Player, RoomOf(p)' # NoRoom
      PROVE  /\ p \in online'
             /\ room'[RoomOf(p)'].phase # "FREE"
             /\ room'[RoomOf(p)'].who[SideOf(p)'] = p
  <2>1. RoomOf(p) # r /\ container'[p] = container[p]
    BY <1>1, <1>2 DEF RoomOf, NoContainer
  <2>2. p \in online /\ p \notin Members(r)
    BY <1>2, <2>1, Partners DEF ContainersPaired, RoomOf
  <2> QED BY <1>1, <1>2, <2>1, <2>2, OpenRoom DEF RoomOf, SideOf
<1>3. ASSUME NEW p \in Player, RoomOf(p)' = NoRoom
      PROVE  container'[p] = NoContainer
  BY <1>1, <1>3 DEF ContainersPaired, RoomOf
<1>4. ASSUME NEW t \in Room
      PROVE  IF room'[t].phase = "FREE" THEN room'[t] = FreeRoom
             ELSE \A i \in Side :
                    /\ room'[t].who[i] \in Player
                    /\ container'[room'[t].who[i]] =
                         [room |-> t, side |-> i, op |-> room'[t].who[Other(i)]]
  <2>1. CASE t = r
    BY <1>1, <2>1 DEF FreeRoom
  <2>2. CASE t # r
    <3>1. room'[t] = room[t]
      BY <1>1, <2>2
    <3>2. CASE room[t].phase = "FREE"
      BY <3>1, <3>2 DEF ContainersPaired
    <3>3. CASE room[t].phase # "FREE"
      <4>1. \A i \in Side : room[t].who[i] \in Player /\ RoomOf(room[t].who[i]) = t
        BY <3>3, Partners
      <4>2. \A i \in Side : container'[room[t].who[i]] = container[room[t].who[i]]
        BY <1>1, <2>2, <4>1
      <4> QED BY <3>1, <3>3, <4>1, <4>2 DEF ContainersPaired
    <3> QED BY <3>2, <3>3
  <2> QED BY <2>1, <2>2
<1> QED BY <1>2, <1>3, <1>4 DEF ContainersPaired

LEMMA TradePaired ==
  ASSUME ExchangeAssumption, TypeOK, ContainersPaired, NEW p \in Player, Trade(p)
  PROVE  ContainersPaired'
<1>1. ASSUME NEW q \in Player, ApplySyn(p, q) PROVE ContainersPaired'
  <2>1. PICK r \in Room :
          /\ room[r].phase = "FREE"
          /\ room' = [room EXCEPT ![r] = NewRoom(p, q)]
          /\ container' = [container EXCEPT ![p] = [room |-> r, side |-> 0, op |-> q],
                                            ![q] = [room |-> r, side |-> 1, op |-> p]]
    BY <1>1 DEF ApplySyn
  <2>2. p # q /\ p \in online /\ q \in online /\ RoomOf(p) = NoRoom /\ RoomOf(q) = NoRoom
    BY <1>1 DEF ApplySyn, CanApplyExchange
  <2>3. /\ container'[p] = [room |-> r, side |-> 0, op |-> q]
        /\ container'[q] = [room |-> r, side |-> 1, op |-> p]
        /\ \A z \in Player \ {p, q} : container'[z] = container[z]
    BY <2>1, <2>2 DEF TypeOK
  <2>4. /\ room'[r].phase = "WAITING"
        /\ room'[r].who[0] = p /\ room'[r].who[1] = q
        /\ \A t \in Room \ {r} : room'[t] = room[t]
    BY <2>1 DEF NewRoom, FreeRoom, TypeOK, Side
  <2>5. online' = online
    BY <1>1 DEF ApplySyn
  <2>6. ASSUME NEW z \in Player, RoomOf(z)' # NoRoom
        PROVE  /\ z \in online'
               /\ room'[RoomOf(z)'].phase # "FREE"
               /\ room'[RoomOf(z)'].who[SideOf(z)'] = z
    <3>1. CASE z = p \/ z = q
      BY <2>2, <2>3, <2>4, <2>5, <3>1 DEF RoomOf, SideOf
    <3>2. CASE z \notin {p, q}
      <4>1. RoomOf(z)' = RoomOf(z) /\ SideOf(z)' = SideOf(z)
        BY <2>3, <3>2 DEF RoomOf, SideOf
      <4>2. RoomOf(z) \in Room \ {r}
        BY <2>1, <2>6, <4>1, OpenRoom
      <4> QED BY <2>4, <2>5, <2>6, <4>1, <4>2 DEF ContainersPaired
    <3> QED BY <3>1, <3>2
  <2>7. ASSUME NEW z \in Player, RoomOf(z)' = NoRoom PROVE container'[z] = NoContainer
    <3>1. z \notin {p, q}
      BY <2>3, <2>7, ExchangeAssumption DEF RoomOf, ExchangeAssumption
    <3> QED BY <2>3, <2>7, <3>1 DEF ContainersPaired, RoomOf
  <2>8. ASSUME NEW t \in Room
        PROVE  IF room'[t].phase = "FREE" THEN room'[t] = FreeRoom
               ELSE \A i \in Side :
                      /\ room'[t].who[i] \in Player
                      /\ container'[room'[t].who[i]] =
                           [room |-> t, side |-> i, op |-> room'[t].who[Other(i)]]
    <3>1. CASE t = r
      BY <2>3, <2>4, <3>1 DEF Side, Other
    <3>2. CASE t # r /\ room[t].phase = "FREE"
      BY <2>4, <3>2 DEF ContainersPaired
    <3>3. CASE t # r /\ room[t].phase # "FREE"
      <4>1. \A i \in Side : room[t].who[i] \in Player /\ RoomOf(room[t].who[i]) = t
        BY <3>3, Partners
      <4>2. \A i \in Side : room[t].who[i] \notin {p, q}
        BY <2>2, <4>1, ExchangeAssumption DEF ExchangeAssumption
      <4>3. \A i \in Side : container'[room[t].who[i]] = container[room[t].who[i]]
        BY <2>3, <4>1, <4>2
      <4> QED BY <2>4, <3>3, <4>1, <4>3 DEF ContainersPaired
    <3> QED BY <3>1, <3>2, <3>3
  <2> QED BY <2>6, <2>7, <2>8 DEF ContainersPaired
<1>2. ASSUME AcceptSyn(p) \/ LockSyn(p) \/ ConfirmFirst(p)
             \/ (\E s \in Slot : AddItemSyn(p, s)) \/ (\E m \in Money : InputMoneySyn(p, m))
      PROVE  ContainersPaired'
  <2>1. /\ InRoom(p) /\ UNCHANGED <<container, online>>
        /\ room'[RoomOf(p)].who = room[RoomOf(p)].who
        /\ room'[RoomOf(p)].phase \in {room[RoomOf(p)].phase, "DOING"}
        /\ \A t \in Room : t # RoomOf(p) => room'[t] = room[t]
    BY <1>2, InRoomType
       DEF AcceptSyn, LockSyn, ConfirmFirst, CanConfirm, AddItemSyn, InputMoneySyn, TypeOK, RoomType
  <2>2. room[RoomOf(p)].phase # "FREE"
    BY <2>1, OpenRoom DEF InRoom
  <2>3. \A q \in Player : RoomOf(q) # NoRoom => q \in online'
    BY <2>1 DEF ContainersPaired
  <2> QED BY <2>1, <2>2, <2>3, PairedSame
<1>3. ASSUME AcceptTooFar(p) \/ Withdraw(p) \/ CancelSyn(p) \/ ConfirmRefused(p)
             \/ ConfirmExchange(p)
      PROVE  ContainersPaired'
  <2>1. /\ RoomOf(p) # NoRoom /\ FreeTheRoom(RoomOf(p))
        /\ online' = online
    BY <1>3 DEF AcceptTooFar, Withdraw, CancelSyn, ConfirmRefused, ConfirmExchange,
                CanConfirm, InRoom, DestroyExchangeRoom, DoExchange
  <2> QED BY <2>1, OpenRoom, PairedFree
<1>4. ASSUME Die(p) \/ UserLogOut(p) PROVE ContainersPaired'
  <2>1. online \ online' \subseteq {p} /\ LeaveTrade(p)
    BY <1>4 DEF Die, UserLogOut
  <2>2. CASE RoomOf(p) = NoRoom
    <3>1. UNCHANGED <<container, room>>
      BY <2>1, <2>2 DEF LeaveTrade
    <3>2. \A q \in Player : RoomOf(q) # NoRoom => q \in online'
      BY <2>1, <2>2 DEF ContainersPaired
    <3> QED BY <3>1, <3>2, PairedSame
  <2>3. CASE RoomOf(p) # NoRoom
    <3>1. FreeTheRoom(RoomOf(p))
      BY <2>1, <2>3 DEF LeaveTrade, DestroyExchangeRoom
    <3> QED BY <2>1, <2>3, <3>1, OpenRoom, PairedFree
  <2> QED BY <2>2, <2>3
<1> QED BY <1>1, <1>2, <1>3, <1>4 DEF Trade

LEMMA OutsidePaired ==
  ASSUME TypeOK, ContainersPaired, NEW p \in Player, Outside(p)
  PROVE  ContainersPaired'
<1>1. UNCHANGED <<container, room>> /\ online \subseteq online'
  BY DEF Outside, Login, DieByPet, Revive, StartOther, NpcSpeech, EndOther, MoveItem, Discard,
         Obtain, Earn, Spend
<1>2. \A q \in Player : RoomOf(q) # NoRoom => q \in online'
  BY <1>1 DEF ContainersPaired
<1> QED BY <1>1, <1>2, PairedSame

LEMMA NextPaired ==
  ASSUME ExchangeAssumption, TypeOK, ContainersPaired, [Next]_vars
  PROVE  ContainersPaired'
<1>1. ASSUME UNCHANGED vars PROVE ContainersPaired'
  <2>1. \A q \in Player : RoomOf(q) # NoRoom => q \in online'
    BY <1>1 DEF vars, ContainersPaired
  <2> QED BY <1>1, <2>1, PairedSame DEF vars
<1> QED BY <1>1, TradePaired, OutsidePaired DEF Next

LEMMA InitPaired ==
  ASSUME ExchangeAssumption, Init
  PROVE  ContainersPaired
BY DEF Init, ContainersPaired, RoomOf, NoContainer, FreeRoom

\* The containers and the rooms never disagree.
THEOREM ContainersStayPaired == Spec => []ContainersPaired
<1>1. Init => TypeOK /\ ContainersPaired
  BY ExchangeAssumption, InitType, InitPaired
<1>2. TypeOK /\ ContainersPaired /\ [Next]_vars => (TypeOK /\ ContainersPaired)'
  BY ExchangeAssumption, NextType, NextPaired
<1> QED BY <1>1, <1>2, PTL DEF Spec

\* Both together: what the handlers of a trade find when they begin, for any
\* number of players, rooms and items.
THEOREM RoomsStaySound == Spec => []RoomsSound
<1>1. TypeOK /\ ContainersPaired => RoomsSound
  BY DEF RoomsSound
<1> QED BY <1>1, TypeCorrect, ContainersStayPaired, PTL

-----------------------------------------------------------------------------
(* The locks and the offers.  OffersHeld is not inductive alone: a cell    *)
(* keeps its item because it is locked, and it is locked because nobody    *)
(* but the trade of its owner takes the lock away.                         *)

Frozen == ContainersPaired /\ OffersHeld /\ NoStrayLock

\* The cells a trade unlocks are those its two players offered in it.
LEMMA OwnOfferIs ==
  ASSUME TypeOK, ContainersPaired, NEW r \in Room, room[r].phase # "FREE", NEW p \in Player
  PROVE  /\ RoomOf(p) = r => OwnOffer(r, p) = Offered(r, SideOf(p))
         /\ RoomOf(p) # r => OwnOffer(r, p) = {}
<1>1. \A i \in Side : room[r].who[i] = p => RoomOf(p) = r /\ i = SideOf(p)
  BY Partners
<1>2. CASE RoomOf(p) = r
  <2>1. r # NoRoom
    BY ExchangeAssumption DEF ExchangeAssumption
  <2>2. SideOf(p) \in Side /\ room[r].who[SideOf(p)] = p
    BY <1>2, <2>1, OpenRoom
  <2>3. {j \in Side : room[r].who[j] = p} = {SideOf(p)}
    BY <1>1, <2>2
  <2> QED BY <1>2, <2>3 DEF OwnOffer
<1>3. CASE RoomOf(p) # r
  <2>1. {j \in Side : room[r].who[j] = p} = {}
    BY <1>1, <1>3
  <2> QED BY <1>3, <2>1 DEF OwnOffer
<1> QED BY <1>2, <1>3

\* Closing room r: the locks of its two players go, nothing else moves.
LEMMA FrozenFree ==
  ASSUME TypeOK, Frozen,
         NEW r \in Room, room[r].phase # "FREE", FreeTheRoom(r),
         \A q \in Player : RoomOf(q) = r => locked'[q] \subseteq locked[q] \ Offered(r, SideOf(q)),
         \A q \in Player : RoomOf(q) # r => locked'[q] = locked[q] /\ inv'[q] = inv[q]
  PROVE  OffersHeld' /\ NoStrayLock'
<1>1. /\ \A q \in Player : container'[q] = IF RoomOf(q) = r THEN NoContainer ELSE container[q]
      /\ room'[r] = FreeRoom
      /\ \A t \in Room \ {r} : room'[t] = room[t]
  BY Partners DEF FreeTheRoom, TypeOK, Frozen
<1>2. ASSUME NEW t \in Room, NEW i \in Side, NEW s \in Offered(t, i)'
      PROVE  /\ inv'[room'[t].who[i]][s] = room'[t].offer[i][s]
             /\ s \in locked'[room'[t].who[i]]
  <2>1. t # r
    BY <1>1, <1>2 DEF Offered, FreeRoom, NoOffer
  <2>2. room'[t] = room[t] /\ s \in Offered(t, i)
    BY <1>1, <1>2, <2>1 DEF Offered
  <2>3. room[t].phase # "FREE"
    BY <2>2 DEF Frozen, ContainersPaired, Offered, FreeRoom, NoOffer
  <2>4. room[t].who[i] \in Player /\ RoomOf(room[t].who[i]) = t
    BY <2>3, Partners DEF Frozen
  <2> QED BY <2>1, <2>2, <2>4 DEF Frozen, OffersHeld
<1>3. ASSUME NEW q \in Player, NEW s \in locked'[q]
      PROVE  RoomOf(q)' # NoRoom /\ s \in Offered(RoomOf(q), SideOf(q))'
  <2>1. CASE RoomOf(q) = r
    BY <1>3, <2>1, ExchangeAssumption DEF Frozen, NoStrayLock
  <2>2. CASE RoomOf(q) # r
    <3>1. s \in locked[q] /\ RoomOf(q) # NoRoom /\ s \in Offered(RoomOf(q), SideOf(q))
      BY <1>3, <2>2 DEF Frozen, NoStrayLock
    <3>2. RoomOf(q) \in Room
      BY <3>1, OpenRoom DEF Frozen
    <3>3. RoomOf(q)' = RoomOf(q) /\ SideOf(q)' = SideOf(q)
      BY <1>1, <2>2 DEF RoomOf, SideOf
    <3>4. room'[RoomOf(q)] = room[RoomOf(q)]
      BY <1>1, <2>2, <3>2
    <3>5. Offered(RoomOf(q), SideOf(q))' = Offered(RoomOf(q), SideOf(q))
      BY <3>3, <3>4 DEF Offered
    <3> QED BY <3>1, <3>3, <3>5
  <2> QED BY <2>1, <2>2
<1> QED BY <1>2, <1>3 DEF OffersHeld, NoStrayLock

LEMMA FrozenDestroy ==
  ASSUME TypeOK, Frozen, NEW r \in Room, room[r].phase # "FREE",
         DestroyExchangeRoom(r), UNCHANGED inv
  PROVE  OffersHeld' /\ NoStrayLock'
<1>1. FreeTheRoom(r) /\ \A q \in Player : locked'[q] = locked[q] \ OwnOffer(r, q)
  BY DEF DestroyExchangeRoom
<1> QED BY <1>1, OwnOfferIs, FrozenFree DEF Frozen

\* A step that touches neither the offers nor the locks, nor what is in a locked cell.
LEMMA FrozenSame ==
  ASSUME TypeOK, Frozen, UNCHANGED <<container, locked>>,
         \A r \in Room : room'[r].offer = room[r].offer /\ room'[r].who = room[r].who,
         \A q \in Player : \A s \in locked[q] : inv'[q][s] = inv[q][s]
  PROVE  OffersHeld' /\ NoStrayLock'
<1>1. \A r \in Room : \A i \in Side : Offered(r, i)' = Offered(r, i)
  BY DEF Offered
<1>2. ASSUME NEW r \in Room, NEW i \in Side, NEW s \in Offered(r, i)
      PROVE  /\ inv'[room'[r].who[i]][s] = room'[r].offer[i][s]
             /\ s \in locked'[room'[r].who[i]]
  <2>1. room[r].phase # "FREE"
    BY <1>2 DEF Frozen, ContainersPaired, Offered, FreeRoom, NoOffer
  <2>2. room[r].who[i] \in Player
    BY <2>1, Partners DEF Frozen
  <2> QED BY <1>2, <2>2 DEF Frozen, OffersHeld
<1>3. ASSUME NEW q \in Player, NEW s \in locked'[q]
      PROVE  RoomOf(q)' # NoRoom /\ s \in Offered(RoomOf(q), SideOf(q))'
  <2>1. RoomOf(q) # NoRoom /\ s \in Offered(RoomOf(q), SideOf(q))
    BY <1>3 DEF Frozen, NoStrayLock
  <2>2. RoomOf(q) \in Room /\ SideOf(q) \in Side
    BY <2>1, OpenRoom DEF Frozen
  <2>3. RoomOf(q)' = RoomOf(q) /\ SideOf(q)' = SideOf(q)
    BY DEF RoomOf, SideOf
  <2>4. Offered(RoomOf(q), SideOf(q))' = Offered(RoomOf(q), SideOf(q))
    BY <2>2, <2>3 DEF Offered
  <2> QED BY <2>1, <2>3, <2>4
<1> QED BY <1>1, <1>2, <1>3 DEF OffersHeld, NoStrayLock

LEMMA FrozenTrade ==
  ASSUME TypeOK, Frozen, NEW p \in Player, Trade(p)
  PROVE  OffersHeld' /\ NoStrayLock'
<1>1. ASSUME NEW q \in Player, ApplySyn(p, q) PROVE OffersHeld' /\ NoStrayLock'
  <2>1. PICK r \in Room :
          /\ room[r].phase = "FREE"
          /\ room' = [room EXCEPT ![r] = NewRoom(p, q)]
          /\ container' = [container EXCEPT ![p] = [room |-> r, side |-> 0, op |-> q],
                                            ![q] = [room |-> r, side |-> 1, op |-> p]]
    BY <1>1 DEF ApplySyn
  <2>2. RoomOf(p) = NoRoom /\ RoomOf(q) = NoRoom /\ UNCHANGED <<inv, locked>>
    BY <1>1 DEF ApplySyn, CanApplyExchange
  <2>3. locked[p] = {} /\ locked[q] = {}
    BY <2>2 DEF Frozen, NoStrayLock, TypeOK
  <2>4. /\ \A z \in Player \ {p, q} : container'[z] = container[z]
        /\ \A t \in Room \ {r} : room'[t] = room[t]
        /\ \A i \in Side : Offered(r, i)' = {}
    BY <2>1 DEF TypeOK, Offered, NewRoom, FreeRoom, NoOffer
  <2>5. ASSUME NEW t \in Room, NEW i \in Side, NEW s \in Offered(t, i)'
        PROVE  /\ inv'[room'[t].who[i]][s] = room'[t].offer[i][s]
               /\ s \in locked'[room'[t].who[i]]
    <3>1. t # r
      BY <2>4, <2>5
    <3>2. room'[t] = room[t] /\ s \in Offered(t, i)
      BY <2>4, <2>5, <3>1 DEF Offered
    <3> QED BY <2>2, <3>2 DEF Frozen, OffersHeld
  <2>6. ASSUME NEW z \in Player, NEW s \in locked'[z]
        PROVE  RoomOf(z)' # NoRoom /\ s \in Offered(RoomOf(z), SideOf(z))'
    <3>1. s \in locked[z] /\ z \notin {p, q}
      BY <2>2, <2>3, <2>6
    <3>2. RoomOf(z) # NoRoom /\ s \in Offered(RoomOf(z), SideOf(z))
      BY <3>1 DEF Frozen, NoStrayLock
    <3>3. RoomOf(z) \in Room \ {r}
      BY <2>1, <3>2, OpenRoom DEF Frozen
    <3>4. RoomOf(z)' = RoomOf(z) /\ SideOf(z)' = SideOf(z)
      BY <2>4, <3>1 DEF RoomOf, SideOf
    <3>5. Offered(RoomOf(z), SideOf(z))' = Offered(RoomOf(z), SideOf(z))
      BY <2>4, <3>3, <3>4 DEF Offered
    <3> QED BY <3>2, <3>4, <3>5
  <2> QED BY <2>5, <2>6 DEF OffersHeld, NoStrayLock
<1>2. ASSUME AcceptSyn(p) \/ LockSyn(p) \/ ConfirmFirst(p) \/ (\E m \in Money : InputMoneySyn(p, m))
      PROVE  OffersHeld' /\ NoStrayLock'
  <2>1. UNCHANGED <<container, locked, inv>>
    BY <1>2 DEF AcceptSyn, LockSyn, ConfirmFirst, InputMoneySyn
  <2>2. /\ room'[RoomOf(p)].offer = room[RoomOf(p)].offer
        /\ room'[RoomOf(p)].who = room[RoomOf(p)].who
        /\ \A r \in Room : r # RoomOf(p) => room'[r] = room[r]
    <3>1. CASE AcceptSyn(p)
      BY <3>1, InRoomType DEF AcceptSyn, TypeOK, RoomType
    <3>2. CASE LockSyn(p)
      BY <3>2, InRoomType DEF LockSyn, TypeOK, RoomType
    <3>3. CASE ConfirmFirst(p)
      BY <3>3, InRoomType DEF ConfirmFirst, CanConfirm, TypeOK, RoomType
    <3>4. ASSUME NEW m \in Money, InputMoneySyn(p, m)
          PROVE  /\ room'[RoomOf(p)].offer = room[RoomOf(p)].offer
                 /\ room'[RoomOf(p)].who = room[RoomOf(p)].who
                 /\ \A r \in Room : r # RoomOf(p) => room'[r] = room[r]
      BY <3>4, InRoomType DEF InputMoneySyn, TypeOK, RoomType
    <3> QED BY <1>2, <3>1, <3>2, <3>3, <3>4
  <2> QED BY <2>1, <2>2, FrozenSame
<1>3. ASSUME NEW s \in Slot, AddItemSyn(p, s) PROVE OffersHeld' /\ NoStrayLock'
  <2>1. PICK r \in Room, i \in Side :
          /\ r = RoomOf(p) /\ i = SideOf(p)
          /\ room[r].phase # "FREE" /\ room[r].who[i] = p
    BY <1>3, OpenRoom DEF AddItemSyn, InRoom, Frozen
  <2>2. /\ inv[p][s] # NoItem /\ s \notin locked[p] /\ UNCHANGED <<container, inv>>
        /\ room' = [room EXCEPT ![r].offer[i][s] = inv[p][s]]
        /\ locked' = [locked EXCEPT ![p] = @ \cup {s}]
    BY <1>3, <2>1 DEF AddItemSyn
  <2>3. /\ \A t \in Room \ {r} : room'[t] = room[t]
        /\ room'[r].who = room[r].who
        /\ \A z \in Player \ {p} : locked'[z] = locked[z]
        /\ locked'[p] = locked[p] \cup {s}
    BY <2>1, <2>2 DEF TypeOK, RoomType
  <2>4. /\ room'[r].offer[i][s] = inv[p][s]
        /\ \A t \in Slot : t # s => room'[r].offer[i][t] = room[r].offer[i][t]
        /\ \A j \in Side : j # i => room'[r].offer[j] = room[r].offer[j]
    BY <2>1, <2>2 DEF TypeOK, RoomType, Offer
  <2>5. /\ Offered(r, i)' = Offered(r, i) \cup {s}
        /\ \A j \in Side : j # i => Offered(r, j)' = Offered(r, j)
        /\ \A t \in Room \ {r} : \A j \in Side : Offered(t, j)' = Offered(t, j)
    BY <2>2, <2>3, <2>4 DEF Offered
  <2>6. ASSUME NEW t \in Room, NEW j \in Side, NEW c \in Offered(t, j)'
        PROVE  /\ inv'[room'[t].who[j]][c] = room'[t].offer[j][c]
               /\ c \in locked'[room'[t].who[j]]
    <3>1. CASE t = r /\ j = i /\ c = s
      BY <2>1, <2>2, <2>3, <2>4, <3>1
    <3>2. CASE ~(t = r /\ j = i /\ c = s)
      <4>1. c \in Slot
        BY <2>6 DEF Offered
      <4>2. /\ c \in Offered(t, j) /\ room'[t].who = room[t].who
            /\ room'[t].offer[j][c] = room[t].offer[j][c]
        BY <2>3, <2>4, <2>5, <2>6, <3>2, <4>1
      <4>3. room[t].phase # "FREE"
        BY <4>2 DEF Frozen, ContainersPaired, Offered, FreeRoom, NoOffer
      <4>4. room[t].who[j] \in Player
        BY <4>3, Partners DEF Frozen
      <4>5. locked[room[t].who[j]] \subseteq locked'[room[t].who[j]]
        BY <2>3, <4>4
      <4> QED BY <2>2, <4>2, <4>5 DEF Frozen, OffersHeld
    <3> QED BY <3>1, <3>2
  <2>7. ASSUME NEW z \in Player, NEW c \in locked'[z]
        PROVE  RoomOf(z)' # NoRoom /\ c \in Offered(RoomOf(z), SideOf(z))'
    <3>1. RoomOf(z)' = RoomOf(z) /\ SideOf(z)' = SideOf(z)
      BY <2>2 DEF RoomOf, SideOf
    <3>2. CASE z = p /\ c = s
      BY <2>1, <2>5, <3>1, <3>2, ExchangeAssumption DEF ExchangeAssumption
    <3>3. CASE ~(z = p /\ c = s)
      <4>1. RoomOf(z) # NoRoom /\ c \in Offered(RoomOf(z), SideOf(z))
        BY <2>3, <2>7, <3>3 DEF Frozen, NoStrayLock
      <4>2. RoomOf(z) \in Room /\ SideOf(z) \in Side
        BY <4>1, OpenRoom DEF Frozen
      <4>3. Offered(RoomOf(z), SideOf(z)) \subseteq Offered(RoomOf(z), SideOf(z))'
        BY <2>5, <3>1, <4>2 DEF Offered
      <4> QED BY <3>1, <4>1, <4>3
    <3> QED BY <3>2, <3>3
  <2> QED BY <2>6, <2>7 DEF OffersHeld, NoStrayLock
<1>4. ASSUME AcceptTooFar(p) \/ Withdraw(p) \/ CancelSyn(p) \/ ConfirmRefused(p)
      PROVE  OffersHeld' /\ NoStrayLock'
  <2>1. RoomOf(p) # NoRoom /\ DestroyExchangeRoom(RoomOf(p)) /\ UNCHANGED inv
    BY <1>4 DEF AcceptTooFar, Withdraw, CancelSyn, ConfirmRefused, CanConfirm, InRoom
  <2> QED BY <2>1, OpenRoom, FrozenDestroy DEF Frozen
<1>5. CASE ConfirmExchange(p)
  <2> DEFINE r == RoomOf(p)
  <2>1. r \in Room /\ room[r].phase # "FREE" /\ FreeTheRoom(r) /\ DoExchange(r)
    BY <1>5, OpenRoom DEF ConfirmExchange, CanConfirm, InRoom, DoExchange, Frozen
  <2> HIDE DEF r
  <2>2. \A q \in Player : q \in Members(r) <=> RoomOf(q) = r
    BY <2>1, Partners DEF Frozen
  <2> DEFINE side(q) == CHOOSE i \in Side : room[r].who[i] = q
  <2>3. \A q \in Player : RoomOf(q) = r => side(q) = SideOf(q)
    <3>1. \A i \in Side : \A q \in Player : room[r].who[i] = q => i = SideOf(q)
      BY <2>1, Partners DEF Frozen
    <3>2. \A q \in Player : RoomOf(q) = r => \E i \in Side : room[r].who[i] = q
      BY <2>2 DEF Members
    <3> QED BY <3>1, <3>2
  <2>4. \A q \in Player : RoomOf(q) = r => room[r].who[side(q)] = q
    BY <2>2 DEF Members
  <2>5. \A q \in Player :
          /\ RoomOf(q) = r => locked'[q] \subseteq locked[q] \ Offered(r, side(q))
          /\ RoomOf(q) # r => locked'[q] = locked[q] /\ inv'[q] = inv[q]
    <3>1. PICK f \in [Side -> UNION {Placements(r, 0), Placements(r, 1)}] :
            /\ inv' = [q \in Player |-> IF q \in Members(r)
                         THEN TradedInv(r, side(q), f[side(q)]) ELSE inv[q]]
            /\ locked' = [q \in Player |-> IF q \in Members(r)
                         THEN TradedLocks(r, side(q), f[Other(side(q))]) ELSE locked[q]]
      BY <2>1 DEF DoExchange
    <3>2. \A q \in Player : RoomOf(q) = r =>
            locked'[q] = (locked[q] \ Offered(r, side(q))) \ DOMAIN f[Other(side(q))]
      BY <2>2, <2>4, <3>1 DEF TradedLocks
    <3> QED BY <2>2, <3>1, <3>2
  <2> HIDE DEF side
  <2> QED BY <2>1, <2>3, <2>5, FrozenFree
<1>6. ASSUME Die(p) \/ UserLogOut(p) PROVE OffersHeld' /\ NoStrayLock'
  <2>1. LeaveTrade(p) /\ UNCHANGED inv
    BY <1>6 DEF Die, UserLogOut
  <2>2. CASE RoomOf(p) = NoRoom
    BY <2>1, <2>2, FrozenSame DEF LeaveTrade
  <2>3. CASE RoomOf(p) # NoRoom
    BY <2>1, <2>3, OpenRoom, FrozenDestroy DEF LeaveTrade, Frozen
  <2> QED BY <2>2, <2>3
<1> QED BY <1>1, <1>2, <1>3, <1>4, <1>5, <1>6 DEF Trade

LEMMA FrozenOutside ==
  ASSUME TypeOK, Frozen, NEW p \in Player, Outside(p)
  PROVE  OffersHeld' /\ NoStrayLock'
<1>1. UNCHANGED <<container, room, locked>>
  BY DEF Outside, Login, DieByPet, Revive, StartOther, NpcSpeech, EndOther, MoveItem, Discard,
         Obtain, Earn, Spend
<1>2. ASSUME NEW q \in Player, NEW c \in locked[q] PROVE inv'[q][c] = inv[q][c]
  <2>1. CASE UNCHANGED inv
    BY <2>1
  <2>2. ASSUME NEW s \in Slot, NEW t \in Slot, MoveItem(p, s, t) PROVE inv'[q][c] = inv[q][c]
    BY <1>2, <2>2 DEF MoveItem, TypeOK, Offer
  <2>3. ASSUME NEW s \in Slot, Discard(p, s) PROVE inv'[q][c] = inv[q][c]
    BY <1>2, <2>3 DEF Discard, TypeOK, Offer
  <2>4. ASSUME NEW n \in Item, NEW s \in Slot, Obtain(p, n, s) PROVE inv'[q][c] = inv[q][c]
    BY <1>2, <2>4 DEF Obtain, EmptyCells, TypeOK, Offer
  <2> QED BY <2>1, <2>2, <2>3, <2>4
       DEF Outside, Login, DieByPet, Revive, StartOther, NpcSpeech, EndOther, Earn, Spend
<1> QED BY <1>1, <1>2, FrozenSame

\* Whatever happens to the two inventories during a trade, the offered cells are
\* locked, only they are, and each still holds what was offered.
THEOREM OffersStayFrozen == Spec => []OffersFrozen
<1>1. Init => TypeOK /\ Frozen
  <2>1. ASSUME Init PROVE OffersHeld /\ NoStrayLock
    BY <2>1 DEF Init, OffersHeld, NoStrayLock, Offered, FreeRoom, NoOffer
  <2> QED BY <2>1, ExchangeAssumption, InitType, InitPaired DEF Frozen
<1>2. TypeOK /\ Frozen /\ [Next]_vars => (TypeOK /\ Frozen)'
  <2>1. ASSUME TypeOK, Frozen, UNCHANGED vars PROVE OffersHeld' /\ NoStrayLock'
    BY <2>1, FrozenSame DEF vars
  <2> QED BY <2>1, ExchangeAssumption, NextType, NextPaired, FrozenTrade, FrozenOutside
       DEF Next, Frozen
<1>3. Frozen => OffersFrozen
  BY DEF Frozen, OffersFrozen
<1> QED BY <1>1, <1>2, <1>3, PTL DEF Spec

-----------------------------------------------------------------------------
(* The object state Exchange.  What ends a trade ends the state of both    *)
(* players; the partner of a player who dies or leaves is found in his     *)
(* container.                                                              *)

\* Whoever leaves a trade from outside tells exactly the two who are in it.
LEMMA LeaversPartner ==
  ASSUME TypeOK, ContainersPaired, NEW p \in Player, RoomOf(p) # NoRoom
  PROVE  Members(RoomOf(p)) = {p, container[p].op}
<1> DEFINE r == RoomOf(p)
           i == SideOf(p)
<1>1. r \in Room /\ i \in Side /\ room[r].phase # "FREE" /\ room[r].who[i] = p
  BY OpenRoom
<1>2. container[p].op = room[r].who[Other(i)]
  <2> HIDE DEF r, i
  <2>1. container[room[r].who[i]] = [room |-> r, side |-> i, op |-> room[r].who[Other(i)]]
    BY <1>1 DEF ContainersPaired
  <2> QED BY <1>1, <2>1
<1>3. Side = {i, Other(i)}
  BY <1>1 DEF Side, Other
<1> QED BY <1>1, <1>2, <1>3 DEF Members

\* A step that takes nobody's room away and lets nobody into the state.
LEMMA StuckSame ==
  ASSUME TypeOK, ContainersPaired, NobodyStuck, UNCHANGED container,
         \A q \in Player : state'[q] = "Exchange" => state[q] = "Exchange",
         \A r \in Room : room'[r].phase = room[r].phase
  PROVE  NobodyStuck'
<1> SUFFICES ASSUME NEW q \in Player, state'[q] = "Exchange"
             PROVE  RoomOf(q)' # NoRoom /\ (room'[RoomOf(q)'].phase = "DOING" \/ SideOf(q)' = 0)
  BY DEF NobodyStuck
<1>1. RoomOf(q)' = RoomOf(q) /\ SideOf(q)' = SideOf(q)
  BY DEF RoomOf, SideOf
<1>2. RoomOf(q) # NoRoom /\ (room[RoomOf(q)].phase = "DOING" \/ SideOf(q) = 0)
  BY DEF NobodyStuck
<1> QED BY <1>1, <1>2, OpenRoom

\* A step that closes room r and takes both its players out of the state.
LEMMA StuckFree ==
  ASSUME TypeOK, ContainersPaired, NobodyStuck,
         NEW r \in Room, room[r].phase # "FREE", FreeTheRoom(r),
         \A q \in Player : state'[q] = "Exchange" =>
           state[q] = "Exchange" /\ q \notin Members(r)
  PROVE  NobodyStuck'
<1> SUFFICES ASSUME NEW q \in Player, state'[q] = "Exchange"
             PROVE  RoomOf(q)' # NoRoom /\ (room'[RoomOf(q)'].phase = "DOING" \/ SideOf(q)' = 0)
  BY DEF NobodyStuck
<1>1. q \notin Members(r) /\ container'[q] = container[q]
  BY DEF FreeTheRoom
<1>2. RoomOf(q) # NoRoom /\ (room[RoomOf(q)].phase = "DOING" \/ SideOf(q) = 0)
  BY DEF NobodyStuck
<1>3. RoomOf(q) \in Room \ {r}
  BY <1>1, <1>2, OpenRoom
<1>4. room'[RoomOf(q)] = room[RoomOf(q)]
  BY <1>3 DEF FreeTheRoom, TypeOK
<1> QED BY <1>1, <1>2, <1>4 DEF RoomOf, SideOf

LEMMA StuckTrade ==
  ASSUME ExchangeAssumption, TypeOK, ContainersPaired, NobodyStuck, NEW p \in Player, Trade(p)
  PROVE  NobodyStuck'
<1>1. ASSUME NEW q \in Player, ApplySyn(p, q) PROVE NobodyStuck'
  <2>1. PICK r \in Room :
          /\ room[r].phase = "FREE"
          /\ room' = [room EXCEPT ![r] = NewRoom(p, q)]
          /\ container' = [container EXCEPT ![p] = [room |-> r, side |-> 0, op |-> q],
                                            ![q] = [room |-> r, side |-> 1, op |-> p]]
    BY <1>1 DEF ApplySyn
  <2>2. /\ p # q /\ state[q] # "Exchange"
        /\ \A z \in Player \ {p} : state'[z] = state[z]
    BY <1>1 DEF ApplySyn, CanApplyExchange, StartExchange, TypeOK
  <2> SUFFICES ASSUME NEW z \in Player, state'[z] = "Exchange"
               PROVE  RoomOf(z)' # NoRoom /\ (room'[RoomOf(z)'].phase = "DOING" \/ SideOf(z)' = 0)
    BY DEF NobodyStuck
  <2>3. CASE z = p
    BY <2>1, <2>2, <2>3 DEF RoomOf, SideOf, TypeOK, ExchangeAssumption
  <2>4. CASE z # p
    <3>1. z # q /\ state[z] = "Exchange"
      BY <2>2, <2>4
    <3>2. container'[z] = container[z]
      BY <2>1, <2>4, <3>1 DEF TypeOK
    <3>3. RoomOf(z) # NoRoom /\ (room[RoomOf(z)].phase = "DOING" \/ SideOf(z) = 0)
      BY <3>1 DEF NobodyStuck
    <3>4. RoomOf(z) \in Room \ {r}
      BY <2>1, <3>3, OpenRoom
    <3>5. room'[RoomOf(z)] = room[RoomOf(z)]
      BY <2>1, <3>4 DEF TypeOK
    <3> QED BY <3>2, <3>3, <3>5 DEF RoomOf, SideOf
  <2> QED BY <2>3, <2>4
<1>2. CASE AcceptSyn(p)
  <2> DEFINE r == RoomOf(p)
  <2>1. r \in Room /\ r # NoRoom /\ UNCHANGED container
    BY <1>2, InRoomType DEF AcceptSyn, InRoom
  <2>2. /\ room'[r].phase = "DOING"
        /\ \A t \in Room \ {r} : room'[t] = room[t]
        /\ \A z \in Player \ {p} : state'[z] = state[z]
    BY <1>2, <2>1 DEF AcceptSyn, StartExchange, TypeOK, RoomType
  <2> SUFFICES ASSUME NEW z \in Player, state'[z] = "Exchange"
               PROVE  RoomOf(z)' # NoRoom /\ (room'[RoomOf(z)'].phase = "DOING" \/ SideOf(z)' = 0)
    BY DEF NobodyStuck
  <2>3. RoomOf(z)' = RoomOf(z) /\ SideOf(z)' = SideOf(z)
    BY <2>1 DEF RoomOf, SideOf
  <2> HIDE DEF r
  <2>4. CASE RoomOf(z) = r
    BY <2>1, <2>2, <2>3, <2>4
  <2>5. CASE RoomOf(z) # r
    <3>1. z # p
      BY <2>5 DEF r
    <3>2. RoomOf(z) # NoRoom /\ (room[RoomOf(z)].phase = "DOING" \/ SideOf(z) = 0)
      BY <2>2, <3>1 DEF NobodyStuck
    <3> QED BY <2>2, <2>3, <2>5, <3>2, OpenRoom
  <2> QED BY <2>4, <2>5
<1>3. ASSUME \/ AcceptTooFar(p) \/ Withdraw(p) \/ CancelSyn(p)
             \/ ConfirmExchange(p) \/ ConfirmRefused(p)
      PROVE  NobodyStuck'
  <2>1. /\ RoomOf(p) # NoRoom /\ FreeTheRoom(RoomOf(p))
        /\ state' = EndExchange(Members(RoomOf(p)))
    BY <1>3 DEF AcceptTooFar, Withdraw, CancelSyn, ConfirmExchange, ConfirmRefused, CanConfirm,
                InRoom, DestroyExchangeRoom, DoExchange
  <2>2. \A q \in Player : state'[q] = "Exchange" =>
          state[q] = "Exchange" /\ q \notin Members(RoomOf(p))
    BY <2>1 DEF EndExchange
  <2> QED BY <2>1, <2>2, OpenRoom, StuckFree
<1>4. ASSUME \/ \E s \in Slot : AddItemSyn(p, s)
             \/ \E m \in Money : InputMoneySyn(p, m)
             \/ LockSyn(p) \/ ConfirmFirst(p)
      PROVE  NobodyStuck'
  <2>1. UNCHANGED <<container, state>> /\ InRoom(p)
    BY <1>4 DEF AddItemSyn, InputMoneySyn, LockSyn, ConfirmFirst, CanConfirm
  <2>2. ASSUME NEW s \in Slot, AddItemSyn(p, s) PROVE \A r \in Room : room'[r].phase = room[r].phase
    BY <2>1, <2>2, InRoomType DEF AddItemSyn, TypeOK, RoomType
  <2>3. ASSUME NEW m \in Money, InputMoneySyn(p, m) PROVE \A r \in Room : room'[r].phase = room[r].phase
    BY <2>1, <2>3, InRoomType DEF InputMoneySyn, TypeOK, RoomType
  <2>4. ASSUME LockSyn(p) PROVE \A r \in Room : room'[r].phase = room[r].phase
    BY <2>1, <2>4, InRoomType DEF LockSyn, TypeOK, RoomType
  <2>5. ASSUME ConfirmFirst(p) PROVE \A r \in Room : room'[r].phase = room[r].phase
    BY <2>1, <2>5, InRoomType DEF ConfirmFirst, TypeOK, RoomType
  <2>6. \A r \in Room : room'[r].phase = room[r].phase
    BY <1>4, <2>2, <2>3, <2>4, <2>5
  <2> QED BY <2>1, <2>6, StuckSame
<1>5. ASSUME Die(p) \/ UserLogOut(p) PROVE NobodyStuck'
  <2>1. /\ LeaveTrade(p)
        /\ \A q \in Player : state'[q] = "Exchange" =>
             state[q] = "Exchange" /\ q # p /\ q # container[p].op
    BY <1>5 DEF Die, UserLogOut, EndExchange
  <2>2. CASE RoomOf(p) = NoRoom
    BY <2>1, <2>2, StuckSame DEF LeaveTrade
  <2>3. CASE RoomOf(p) # NoRoom
    <3>1. FreeTheRoom(RoomOf(p))
      BY <2>1, <2>3 DEF LeaveTrade, DestroyExchangeRoom
    <3> QED BY <2>1, <2>3, <3>1, LeaversPartner, OpenRoom, StuckFree
  <2> QED BY <2>2, <2>3
<1> QED BY <1>1, <1>2, <1>3, <1>4, <1>5 DEF Trade

LEMMA StuckOutside ==
  ASSUME TypeOK, ContainersPaired, NobodyStuck, NEW p \in Player, Outside(p)
  PROVE  NobodyStuck'
<1>1. UNCHANGED <<container, room>>
  BY DEF Outside, Login, DieByPet, Revive, StartOther, NpcSpeech, EndOther, MoveItem, Discard,
         Obtain, Earn, Spend
<1>2. \A q \in Player : state'[q] = "Exchange" => state[q] = "Exchange"
  <2>1. UNCHANGED state \/ state' = [state EXCEPT ![p] = "None"]
        \/ \E st \in {"Die", "Fishing", "Deal"} : state' = [state EXCEPT ![p] = st]
    BY DEF Outside, Login, DieByPet, Revive, StartOther, NpcSpeech, EndOther, MoveItem, Discard,
           Obtain, Earn, Spend
  <2> QED BY <2>1 DEF TypeOK
<1> QED BY <1>1, <1>2, StuckSame

\* Whatever the other player does - withdraws, dies, logs out, refuses - nobody
\* is left in the object state Exchange without a trade that can be ended.
THEOREM NobodyStaysStuck == Spec => []NobodyStuck
<1>1. Init => NobodyStuck
  BY DEF Init, NobodyStuck
<1>2. TypeOK /\ ContainersPaired /\ NobodyStuck /\ [Next]_vars => NobodyStuck'
  <2>1. ASSUME TypeOK, ContainersPaired, NobodyStuck, UNCHANGED vars PROVE NobodyStuck'
    BY <2>1, StuckSame DEF vars
  <2> QED BY <2>1, ExchangeAssumption, StuckTrade, StuckOutside DEF Next
<1> QED BY <1>1, <1>2, TypeCorrect, ContainersStayPaired, PTL DEF Spec

-----------------------------------------------------------------------------
(* The offers once a side has locked.  A locked room stays what it is until*)
(* it is closed: the two handlers that change an offer ask for the locks,  *)
(* and a room that is free has none.                                       *)

\* What a step does to the terms of one trade.
TermsKept(r) == room'[r].offer = room[r].offer /\ room'[r].bid = room[r].bid

LEMMA LockedTerms ==
  ASSUME TypeOK, ContainersPaired, [Next]_vars,
         NEW r \in Room, AnyLock(r), room'[r].phase # "FREE"
  PROVE  TermsKept(r)
<1>1. room[r].phase # "FREE"
  BY DEF ContainersPaired, AnyLock, FreeRoom
<1>2. CASE room' = room
  BY <1>2 DEF TermsKept
<1>3. ASSUME NEW p \in Player, NEW q \in Player, ApplySyn(p, q) PROVE TermsKept(r)
  BY <1>1, <1>3 DEF ApplySyn, TermsKept, TypeOK
<1>4. ASSUME NEW t \in Room, FreeTheRoom(t) PROVE TermsKept(r)
  BY <1>4 DEF FreeTheRoom, FreeRoom, TermsKept, TypeOK
<1>5. ASSUME NEW p \in Player,
             \/ AcceptTooFar(p) \/ Withdraw(p) \/ CancelSyn(p) \/ ConfirmExchange(p)
             \/ ConfirmRefused(p) \/ Die(p) \/ UserLogOut(p)
      PROVE  TermsKept(r)
  <2>1. CASE Die(p) \/ UserLogOut(p)
    BY <1>2, <1>4, <2>1, OpenRoom DEF Die, UserLogOut, LeaveTrade, DestroyExchangeRoom
  <2>2. CASE \/ AcceptTooFar(p) \/ Withdraw(p) \/ CancelSyn(p) \/ ConfirmExchange(p)
             \/ ConfirmRefused(p)
    <3>1. RoomOf(p) # NoRoom /\ FreeTheRoom(RoomOf(p))
      BY <2>2 DEF AcceptTooFar, Withdraw, CancelSyn, ConfirmExchange, ConfirmRefused, CanConfirm,
                  InRoom, DestroyExchangeRoom, DoExchange
    <3> QED BY <1>4, <3>1, OpenRoom
  <2> QED BY <1>5, <2>1, <2>2
<1>6. ASSUME NEW p \in Player, AcceptSyn(p) \/ LockSyn(p) \/ ConfirmFirst(p) PROVE TermsKept(r)
  <2>1. CASE AcceptSyn(p)
    BY <2>1, InRoomType DEF AcceptSyn, TermsKept, TypeOK, RoomType
  <2>2. CASE LockSyn(p)
    BY <2>2, InRoomType DEF LockSyn, TermsKept, TypeOK, RoomType
  <2>3. CASE ConfirmFirst(p)
    BY <2>3, InRoomType DEF ConfirmFirst, CanConfirm, TermsKept, TypeOK, RoomType
  <2> QED BY <1>6, <2>1, <2>2, <2>3
<1>7. ASSUME NEW p \in Player, NEW s \in Slot, AddItemSyn(p, s) PROVE TermsKept(r)
  BY <1>7, InRoomType DEF AddItemSyn, TermsKept, TypeOK, RoomType
<1>8. ASSUME NEW p \in Player, NEW m \in Money, InputMoneySyn(p, m) PROVE TermsKept(r)
  BY <1>8, InRoomType DEF InputMoneySyn, TermsKept, TypeOK, RoomType
<1>9. ASSUME NEW p \in Player, Outside(p) PROVE room' = room
  BY <1>9 DEF Outside, Login, DieByPet, Revive, StartOther, NpcSpeech, EndOther, MoveItem, Discard,
              Obtain, Earn, Spend
<1> QED BY <1>2, <1>3, <1>5, <1>6, <1>7, <1>8, <1>9 DEF Next, Trade, vars

\* What a player saw when he locked is what he gets if the trade is carried out:
\* neither side changes an offer or a sum after the first lock.
THEOREM LockedOffersStayFixed == Spec => LockedOffersFixed
<1>1. TypeOK /\ ContainersPaired /\ [Next]_vars =>
        [\A r \in Room : (\E i \in Side : room[r].lock[i]) /\ room'[r].phase # "FREE" =>
           room'[r].offer = room[r].offer /\ room'[r].bid = room[r].bid]_vars
  BY LockedTerms DEF AnyLock, TermsKept
<1> QED BY <1>1, TypeCorrect, ContainersStayPaired, PTL DEF Spec, LockedOffersFixed


-----------------------------------------------------------------------------
(* The items.  No item is ever in two cells: the cells a trade fills take  *)
(* different items of the other side, and those have left their own cells. *)

NoDuplicate ==
  \A p, q \in Player : \A s, t \in Slot :
    inv[p][s] = inv[q][t] /\ inv[p][s] # NoItem => p = q /\ s = t

\* A set of numbers that is not empty has a least one.
LEMMA Minimum ==
  ASSUME NEW T \in SUBSET Nat, T # {}
  PROVE  \E x \in T : \A y \in T : x <= y
<1> DEFINE R == OpToRel(<, Nat)
<1>1. IsWellFoundedOn(R, Nat)
  BY NatLessThanWellFounded
<1>2. \A x, y \in Nat : <<y, x>> \in R <=> y < x
  BY DEF OpToRel
<1> HIDE DEF R
<1>3. \E x \in T : \A y \in T : ~(<<y, x>> \in R)
  BY <1>1, WFMin
<1>4. PICK x \in T : \A y \in T : ~(<<y, x>> \in R)
  BY <1>3
<1>5. \A y \in T : ~(y < x)
  BY <1>2, <1>4
<1>6. \A y \in T : y \in Nat
  OBVIOUS
<1>7. \A y \in T : x <= y
  BY <1>5, <1>6
<1> QED BY <1>7

\* GetEmptyCell hands out as many cells as are asked for while there are some.
LEMMA LowestCellsCount ==
  ASSUME NEW N \in Nat, NEW S \in SUBSET (1..N), NEW n \in Nat, n <= Cardinality(S)
  PROVE  n <= Cardinality(LowestCells(S, n))
<1> DEFINE C == LowestCells(S, n)
<1>1. IsFiniteSet(S)
  <2>1. IsFiniteSet(1..N)
    BY FS_Interval
  <2> QED BY <2>1, FS_Subset
<1>2. C \in SUBSET S
  BY DEF LowestCells
<1>3. \A s \in S : s \in Nat
  OBVIOUS
<1>4. \A s \in S : Cardinality({t \in S : t <= s}) <= n => s \in C
  BY DEF LowestCells
<1> HIDE DEF C
<1>5. IsFiniteSet(C) /\ Cardinality(C) \in Nat
  BY <1>1, <1>2, FS_Subset, FS_CardinalityType
<1> SUFFICES ASSUME Cardinality(C) < n PROVE FALSE
  BY <1>1, <1>5, FS_CardinalityType DEF C
<1>6. S \ C # {}
  <2>1. C # S
    BY <1>5, <1>1, FS_CardinalityType
  <2> QED BY <1>2, <2>1
<1>7. S \ C \in SUBSET Nat
  BY <1>3
<1>8. PICK m \in S \ C : \A y \in S \ C : m <= y
  BY <1>6, <1>7, Minimum
<1>9. {t \in S : t <= m} \subseteq C \cup {m}
  <2> SUFFICES ASSUME NEW t \in S, t <= m, t \notin C PROVE t = m
    OBVIOUS
  <2>1. m <= t
    BY <1>8
  <2> QED BY <1>3, <2>1
<1>10. IsFiniteSet(C \cup {m}) /\ Cardinality(C \cup {m}) <= Cardinality(C) + 1
  <2>1. m \notin C
    OBVIOUS
  <2>2. IsFiniteSet(C \cup {m}) /\ Cardinality(C \cup {m}) = Cardinality(C) + 1
    BY <1>5, <2>1, FS_AddElement
  <2> QED BY <1>5, <2>2
<1>11. Cardinality({t \in S : t <= m}) <= Cardinality(C) + 1
  <2>1. /\ Cardinality({t \in S : t <= m}) \in Nat
        /\ Cardinality(C \cup {m}) \in Nat
        /\ Cardinality({t \in S : t <= m}) <= Cardinality(C \cup {m})
    BY <1>9, <1>10, FS_Subset, FS_CardinalityType
  <2> QED BY <1>5, <1>10, <2>1
<1>12. Cardinality({t \in S : t <= m}) <= n
  <2>1. Cardinality({t \in S : t <= m}) \in Nat
    BY <1>9, <1>10, FS_Subset, FS_CardinalityType
  <2> QED BY <1>5, <1>11, <2>1
<1> QED BY <1>4, <1>8, <1>12
\* DoExchange as seen from the two sides of its room: who gets what from where.
TradedBy(r, f) ==
  /\ \A i \in Side : /\ f[i] \in Placements(r, i)
                     /\ inv'[room[r].who[i]] = TradedInv(r, i, f[i])
                     /\ gold'[room[r].who[i]] = TradedGold(r, i)
  /\ \A q \in Player : q \notin Members(r) => inv'[q] = inv[q]

LEMMA Exchanged ==
  ASSUME TypeOK, ContainersPaired, NEW r \in Room, room[r].phase # "FREE", DoExchange(r)
  PROVE  \E f : TradedBy(r, f)
<1> DEFINE side(q) == CHOOSE i \in Side : room[r].who[i] = q
<1>1. PICK f0 \in Placements(r, 0), f1 \in Placements(r, 1) :
        LET f == [i \in Side |-> IF i = 0 THEN f0 ELSE f1]
        IN /\ inv' = [q \in Player |-> IF q \in Members(r)
                        THEN TradedInv(r, side(q), f[side(q)]) ELSE inv[q]]
           /\ gold' = [q \in Player |-> IF q \in Members(r)
                        THEN TradedGold(r, side(q)) ELSE gold[q]]
  BY DEF DoExchange
<1> DEFINE f == [i \in Side |-> IF i = 0 THEN f0 ELSE f1]
<1>2. \A i \in Side : f[i] \in Placements(r, i)
  BY DEF Side
<1>3. \A i \in Side : side(room[r].who[i]) = i
  <2>1. \A i, j \in Side : room[r].who[i] = room[r].who[j] => i = j
    BY Partners
  <2> QED BY <2>1
<1>4. \A i \in Side : room[r].who[i] \in Player /\ room[r].who[i] \in Members(r)
  BY Partners DEF Members
<1> HIDE DEF side
<1>5. \A q \in Player : /\ q \in Members(r) => /\ inv'[q] = TradedInv(r, side(q), f[side(q)])
                                               /\ gold'[q] = TradedGold(r, side(q))
                        /\ q \notin Members(r) => inv'[q] = inv[q]
  BY <1>1
<1> HIDE DEF f
<1>6. TradedBy(r, f)
  BY <1>2, <1>3, <1>4, <1>5 DEF TradedBy
<1> QED BY <1>6

\* What is in a cell after the exchange was offered by the other side, in the
\* one cell f names, or stayed where it was.
LEMMA CellAfter ==
  ASSUME NEW r \in Room, NEW f, TradedBy(r, f), OffersIntact(r), NEW i \in Side,
         NEW s \in Slot, inv'[room[r].who[i]][s] # NoItem
  PROVE  \/ /\ s \in DOMAIN f[i]
            /\ f[i][s] \in Offered(r, Other(i))
            /\ inv'[room[r].who[i]][s] = inv[room[r].who[Other(i)]][f[i][s]]
            /\ inv'[room[r].who[i]][s] = room[r].offer[Other(i)][f[i][s]]
         \/ /\ s \notin Offered(r, i)
            /\ inv'[room[r].who[i]][s] = inv[room[r].who[i]][s]
<1>1. inv'[room[r].who[i]] = TradedInv(r, i, f[i]) /\ f[i] \in Placements(r, i)
  BY DEF TradedBy
<1>2. Other(i) \in Side
  BY DEF Side, Other
<1>3. CASE s \in DOMAIN f[i]
  <2>1. f[i][s] \in Offered(r, Other(i))
    BY <1>1, <1>3 DEF Placements
  <2>2. inv[room[r].who[Other(i)]][f[i][s]] = room[r].offer[Other(i)][f[i][s]]
    BY <1>2, <2>1 DEF OffersIntact
  <2> QED BY <1>1, <1>3, <2>1, <2>2 DEF TradedInv
<1>4. CASE s \notin DOMAIN f[i]
  BY <1>1, <1>4 DEF TradedInv
<1> QED BY <1>3, <1>4

LEMMA DuplicateExchange ==
  ASSUME TypeOK, ContainersPaired, NoDuplicate,
         NEW r \in Room, room[r].phase # "FREE", DoExchange(r), OffersIntact(r)
  PROVE  NoDuplicate'
<1>1. PICK f : TradedBy(r, f)
  BY Exchanged
<1> DEFINE who(i) == room[r].who[i]
           Moved(i, s) == /\ s \in DOMAIN f[i]
                          /\ f[i][s] \in Offered(r, Other(i))
                          /\ inv'[who(i)][s] = inv[who(Other(i))][f[i][s]]
           Kept(i, s) == /\ s \notin Offered(r, i)
                         /\ inv'[who(i)][s] = inv[who(i)][s]
<1>2. /\ \A i \in Side : who(i) \in Player /\ Other(i) \in Side /\ Other(i) # i
      /\ \A i, j \in Side : who(i) = who(j) => i = j
      /\ \A i, j \in Side : Other(i) = Other(j) => i = j
      /\ \A i, j \in Side : j # i => j = Other(i)
  BY Partners DEF Side, Other
<1>3. \A i \in Side, s \in Slot : inv'[who(i)][s] # NoItem => Moved(i, s) \/ Kept(i, s)
  BY <1>1, CellAfter
<1>4. \A i \in Side : Offered(r, i) \subseteq Slot
  BY DEF Offered
<1>5. \A i \in Side : \A s, t \in DOMAIN f[i] : f[i][s] = f[i][t] => s = t
  BY <1>1 DEF TradedBy, Placements
<1>6. \A q \in Player : q \notin Members(r) => inv'[q] = inv[q]
  BY <1>1 DEF TradedBy
<1>7. \A q \in Player : q \in Members(r) => \E i \in Side : q = who(i)
  BY DEF Members
<1>8. \A i \in Side : who(i) \in Members(r)
  BY DEF Members
<1> HIDE DEF who
<1>8a. \A i, j \in Side : \A s, t \in Slot :
        inv[who(i)][s] = inv[who(j)][t] /\ inv[who(j)][t] # NoItem => i = j /\ s = t
  BY <1>2 DEF NoDuplicate
<1>9. ASSUME NEW i \in Side, NEW j \in Side, NEW s \in Slot, NEW t \in Slot,
             inv'[who(i)][s] = inv'[who(j)][t], inv'[who(i)][s] # NoItem
      PROVE  i = j /\ s = t
  <2>1. CASE Moved(i, s) /\ Moved(j, t)
    <3>1. f[i][s] \in Slot /\ f[j][t] \in Slot
      BY <1>2, <1>4, <2>1
    <3>2. inv[who(Other(i))][f[i][s]] = inv[who(Other(j))][f[j][t]]
          /\ inv[who(Other(i))][f[i][s]] # NoItem
      BY <1>9, <2>1
    <3>3. i = j /\ f[i][s] = f[j][t]
      BY <1>2, <1>8a, <3>1, <3>2
    <3> QED BY <1>5, <2>1, <3>3
  <2>2. CASE Moved(i, s) /\ Kept(j, t)
    <3>1. f[i][s] \in Slot
      BY <1>2, <1>4, <2>2
    <3>2. inv[who(Other(i))][f[i][s]] = inv[who(j)][t] /\ inv[who(j)][t] # NoItem
      BY <1>9, <2>2
    <3>3. Other(i) = j /\ f[i][s] = t
      BY <1>2, <1>8a, <3>1, <3>2
    <3> QED BY <2>2, <3>3
  <2>3. CASE Kept(i, s) /\ Moved(j, t)
    <3>1. f[j][t] \in Slot
      BY <1>2, <1>4, <2>3
    <3>2. inv[who(Other(j))][f[j][t]] = inv[who(i)][s] /\ inv[who(i)][s] # NoItem
      BY <1>9, <2>3
    <3>3. Other(j) = i /\ f[j][t] = s
      BY <1>2, <1>8a, <3>1, <3>2
    <3> QED BY <2>3, <3>3
  <2>4. CASE Kept(i, s) /\ Kept(j, t)
    <3>1. inv[who(i)][s] = inv[who(j)][t] /\ inv[who(j)][t] # NoItem
      BY <1>9, <2>4
    <3> QED BY <1>8a, <3>1
  <2> QED BY <1>3, <1>9, <2>1, <2>2, <2>3, <2>4
<1>10. ASSUME NEW i \in Side, NEW q \in Player \ Members(r), NEW s \in Slot, NEW t \in Slot,
              inv'[who(i)][s] # NoItem
       PROVE  inv'[who(i)][s] # inv[q][t]
  <2>1. CASE Moved(i, s)
    BY <1>2, <1>4, <1>8, <1>10, <2>1 DEF NoDuplicate
  <2>2. CASE Kept(i, s)
    BY <1>2, <1>8, <1>10, <2>2 DEF NoDuplicate
  <2> QED BY <1>3, <1>10, <2>1, <2>2
<1> HIDE DEF Moved, Kept
<1> SUFFICES ASSUME NEW p \in Player, NEW q \in Player, NEW s \in Slot, NEW t \in Slot,
                    inv'[p][s] = inv'[q][t], inv'[p][s] # NoItem
             PROVE  p = q /\ s = t
  BY DEF NoDuplicate
<1>11. CASE p \in Members(r) /\ q \in Members(r)
  BY <1>7, <1>9, <1>11
<1>12. CASE p \in Members(r) /\ q \notin Members(r)
  BY <1>6, <1>7, <1>10, <1>12
<1>13. CASE p \notin Members(r) /\ q \in Members(r)
  BY <1>6, <1>7, <1>10, <1>13
<1>14. CASE p \notin Members(r) /\ q \notin Members(r)
  BY <1>6, <1>14 DEF NoDuplicate
<1> QED BY <1>11, <1>12, <1>13, <1>14

\* A step other than an exchange lets an item only move inside its inventory,
\* vanish, or come from nobody.
ItemsStay ==
  \A q \in Player : \A s \in Slot : inv'[q][s] # NoItem =>
    \/ \E t \in Slot : inv[q][t] = inv'[q][s]
    \/ \A z \in Player : \A t \in Slot : inv[z][t] # inv'[q][s]

LEMMA OutsideItems ==
  ASSUME TypeOK, NoDuplicate, NEW p \in Player, Outside(p)
  PROVE  NoDuplicate' /\ ItemsStay
<1>1. CASE UNCHANGED inv
  BY <1>1 DEF NoDuplicate, ItemsStay
<1>2. ASSUME NEW s \in Slot, NEW t \in Slot, MoveItem(p, s, t) PROVE NoDuplicate' /\ ItemsStay
  <2>1. \A q \in Player : \A c \in Slot :
          inv'[q][c] = IF q = p /\ c = s THEN inv[p][t]
                       ELSE IF q = p /\ c = t THEN inv[p][s] ELSE inv[q][c]
    BY <1>2 DEF MoveItem, TypeOK, Offer
  <2>2. NoDuplicate'
    BY <2>1 DEF NoDuplicate
  <2>3. ItemsStay
    BY <2>1 DEF ItemsStay
  <2> QED BY <2>2, <2>3
<1>3. ASSUME NEW s \in Slot, Discard(p, s) PROVE NoDuplicate' /\ ItemsStay
  <2>1. \A q \in Player : \A c \in Slot :
          inv'[q][c] = IF q = p /\ c = s THEN NoItem ELSE inv[q][c]
    BY <1>3 DEF Discard, TypeOK, Offer
  <2> QED BY <2>1 DEF NoDuplicate, ItemsStay
<1>4. ASSUME NEW n \in Item, NEW s \in Slot, Obtain(p, n, s) PROVE NoDuplicate' /\ ItemsStay
  <2>1. \A q \in Player : \A c \in Slot :
          inv'[q][c] = IF q = p /\ c = s THEN n ELSE inv[q][c]
    BY <1>4 DEF Obtain, TypeOK, Offer
  <2>2. \A q \in Player : \A c \in Slot : inv[q][c] # n
    BY <1>4 DEF Obtain
  <2>3. NoDuplicate'
    BY <2>1, <2>2 DEF NoDuplicate
  <2>4. ItemsStay
    BY <2>1, <2>2 DEF ItemsStay
  <2> QED BY <2>3, <2>4
<1> QED BY <1>1, <1>2, <1>3, <1>4
     DEF Outside, Login, DieByPet, Revive, StartOther, NpcSpeech, EndOther, Earn, Spend

LEMMA TradeItems ==
  ASSUME NEW p \in Player, Trade(p)
  PROVE  ConfirmExchange(p) \/ UNCHANGED inv
BY DEF Trade, ApplySyn, AcceptSyn, AcceptTooFar, Withdraw, CancelSyn, AddItemSyn,
       InputMoneySyn, LockSyn, ConfirmFirst, ConfirmRefused, Die, UserLogOut

\* The room in which an exchange is carried out.
LEMMA ExchangeRoom ==
  ASSUME TypeOK, ContainersPaired, NEW p \in Player, ConfirmExchange(p)
  PROVE  /\ RoomOf(p) \in Room /\ room[RoomOf(p)].phase # "FREE"
         /\ DoExchange(RoomOf(p)) /\ CanExchange(RoomOf(p))
         /\ \A i \in Side : room[RoomOf(p)].lock[i]
         /\ \E i \in Side : room[RoomOf(p)].confirm[i]
<1>1. CanConfirm(p) /\ InRoom(p) /\ RoomOf(p) # NoRoom
  BY DEF ConfirmExchange, CanConfirm, InRoom
<1>2. RoomOf(p) \in Room /\ SideOf(p) \in Side /\ room[RoomOf(p)] \in RoomType
  BY <1>1, InRoomType
<1>3. Other(SideOf(p)) \in Side /\ Other(SideOf(p)) # SideOf(p)
  BY <1>2 DEF Side, Other
<1>4. room[RoomOf(p)].confirm[Other(SideOf(p))]
  BY <1>2, <1>3 DEF ConfirmExchange, Confirmed, RoomType
<1> QED BY <1>1, <1>2, <1>3, <1>4, OpenRoom DEF ConfirmExchange, CanConfirm

LEMMA NextItems ==
  ASSUME TypeOK, ContainersPaired, NoDuplicate, [Next]_vars
  PROVE  /\ NoDuplicate'
         /\ ItemsStay \/ \E p \in Player : ConfirmExchange(p)
<1>1. CASE UNCHANGED inv
  BY <1>1 DEF NoDuplicate, ItemsStay
<1>2. ASSUME NEW p \in Player, ConfirmExchange(p) PROVE NoDuplicate'
  BY <1>2, ExchangeRoom, DuplicateExchange DEF CanExchange
<1> QED BY <1>1, <1>2, TradeItems, OutsideItems DEF Next, vars

\* However trades, moves, deaths and log-outs interleave, an item never comes to
\* be in two cells, of one inventory or of two.
THEOREM ItemsAreUnique == Spec => []NoDuplicate
<1>1. Init => NoDuplicate
  BY DEF Init, NoDuplicate
<1>2. TypeOK /\ ContainersPaired /\ NoDuplicate /\ [Next]_vars => NoDuplicate'
  BY NextItems
<1> QED BY <1>1, <1>2, TypeCorrect, ContainersStayPaired, PTL DEF Spec

-----------------------------------------------------------------------------
(* Who gets which item, and what a trade as a whole does.                  *)

\* An item that comes to another player comes out of the exchange of the two.
LEMMA Passed ==
  ASSUME TypeOK, ContainersPaired, NoDuplicate, [Next]_vars,
         NEW p \in Player, NEW q \in Player, p # q,
         NEW s \in Slot, NEW t \in Slot, inv[p][s] = inv'[q][t], inv[p][s] # NoItem
  PROVE  \E z \in Player :
           /\ ConfirmExchange(z) /\ RoomOf(z) = RoomOf(p) /\ RoomOf(q) = RoomOf(p)
           /\ s \in Offered(RoomOf(p), SideOf(p))
           /\ room[RoomOf(p)].offer[SideOf(p)][s] = inv[p][s]
<1>1. \A c \in Slot : inv[q][c] # inv'[q][t]
  BY DEF NoDuplicate
<1>2. ~ItemsStay
  BY <1>1 DEF ItemsStay
<1>3. PICK z \in Player : ConfirmExchange(z)
  BY <1>2, NextItems
<1> DEFINE r == RoomOf(z)
<1>4. /\ r \in Room /\ room[r].phase # "FREE" /\ DoExchange(r) /\ OffersIntact(r)
  BY <1>3, ExchangeRoom DEF CanExchange
<1> HIDE DEF r
<1>5. PICK f : TradedBy(r, f)
  BY <1>4, Exchanged
<1>6. q \in Members(r)
  BY <1>5 DEF TradedBy, NoDuplicate
<1>7. PICK i \in Side : q = room[r].who[i]
  BY <1>6 DEF Members
<1>8. Other(i) \in Side
  BY DEF Side, Other
<1>9. /\ f[i][t] \in Offered(r, Other(i))
      /\ inv'[q][t] = inv[room[r].who[Other(i)]][f[i][t]]
      /\ inv'[q][t] = room[r].offer[Other(i)][f[i][t]]
  <2>1. inv'[q][t] # inv[q][t]
    BY <1>1
  <2> QED BY <1>4, <1>5, <1>7, <2>1, CellAfter
<1>10. f[i][t] \in Slot
  BY <1>9 DEF Offered
<1>11. room[r].who[Other(i)] \in Player
  BY <1>4, <1>8, Partners
<1>12. p = room[r].who[Other(i)] /\ s = f[i][t]
  <2>1. inv[p][s] = inv[room[r].who[Other(i)]][f[i][t]]
    BY <1>9
  <2> QED BY <1>10, <1>11, <2>1 DEF NoDuplicate
<1>13. RoomOf(p) = r /\ SideOf(p) = Other(i) /\ RoomOf(q) = r
  BY <1>4, <1>7, <1>8, <1>12, Partners
<1> QED BY <1>3, <1>9, <1>12, <1>13 DEF r

LEMMA Consent ==
  ASSUME TypeOK, ContainersPaired, NoDuplicate, [Next]_vars,
         NEW p \in Player, NEW q \in Player, p # q, NEW n \in Items(inv[p]) \cap Items(inv'[q])
  PROVE  /\ RoomOf(p) # NoRoom /\ RoomOf(q) = RoomOf(p)
         /\ room[RoomOf(p)].phase # "FREE"
         /\ \A i \in Side : room[RoomOf(p)].lock[i]
         /\ \E i \in Side : room[RoomOf(p)].confirm[i]
         /\ n \in Given(RoomOf(p), SideOf(p))
<1>1. PICK s \in Slot, t \in Slot :
        n = inv[p][s] /\ inv[p][s] = inv'[q][t] /\ inv[p][s] # NoItem
  BY DEF Items
<1>2. PICK z \in Player :
        /\ ConfirmExchange(z) /\ RoomOf(z) = RoomOf(p) /\ RoomOf(q) = RoomOf(p)
        /\ s \in Offered(RoomOf(p), SideOf(p))
        /\ room[RoomOf(p)].offer[SideOf(p)][s] = inv[p][s]
  BY <1>1, Passed
<1>3. RoomOf(p) # NoRoom
  BY <1>2 DEF ConfirmExchange, CanConfirm, InRoom
<1> QED BY <1>1, <1>2, <1>3, ExchangeRoom DEF Given

\* No item leaves a player for another without the locks of both and the
\* confirmation of the partner, nor unless it was offered.
THEOREM ItemsMoveOnlyByConsent == Spec => ItemsMoveByConsent
<1>1. TypeOK /\ ContainersPaired /\ NoDuplicate /\ [Next]_vars =>
        [\A p, q \in Player : p # q => \A n \in Items(inv[p]) \cap Items(inv'[q]) :
           LET r == RoomOf(p)
           IN /\ r # NoRoom /\ RoomOf(q) = r
              /\ room[r].phase # "FREE"
              /\ \A i \in Side : room[r].lock[i]
              /\ \E i \in Side : room[r].confirm[i]
              /\ n \in Given(r, SideOf(p))]_vars
  BY Consent
<1> QED BY <1>1, TypeCorrect, ContainersStayPaired, ItemsAreUnique, PTL
     DEF Spec, ItemsMoveByConsent

\* The space check of DoExchange suffices: every offered item is put in a cell.
LEMMA EverythingPlaced ==
  ASSUME ExchangeAssumption, NEW r \in Room, HasSpace(r), OffersIntact(r),
         NEW i \in Side, NEW g \in Placements(r, i)
  PROVE  \A c \in Offered(r, Other(i)) : \E s \in DOMAIN g : g[s] = c
<1> DEFINE sent  == Offered(r, Other(i))
           empty == EmptyCells(room[r].who[i])
           mine  == Offered(r, i)
           free  == FreedCells(r, i)
           cells == LowestCells(free, Cardinality(sent))
<1>1. sent \subseteq Slot /\ empty \subseteq Slot /\ mine \subseteq Slot /\ free = empty \cup mine
  BY DEF Offered, EmptyCells, FreedCells
<1>2. empty \cap mine = {}
  BY DEF OffersIntact, EmptyCells, Offered
<1>3. Cardinality(sent) - Cardinality(mine) <= Cardinality(empty)
  BY DEF HasSpace
<1>4. g \in [cells -> sent] /\ \A s, t \in cells : g[s] = g[t] => s = t
  BY DEF Placements
<1>5. cells \subseteq free
  BY DEF LowestCells
<1> HIDE DEF sent, empty, mine, free
<1>6. NSlots \in Nat /\ IsFiniteSet(Slot)
  <2>1. NSlots \in Nat
    BY DEF ExchangeAssumption
  <2> QED BY <2>1, FS_Interval DEF Slot
<1>7. /\ IsFiniteSet(sent) /\ IsFiniteSet(empty) /\ IsFiniteSet(mine) /\ IsFiniteSet(free)
      /\ Cardinality(sent) \in Nat /\ Cardinality(empty) \in Nat /\ Cardinality(mine) \in Nat
  BY <1>1, <1>6, FS_Subset, FS_CardinalityType
<1>8. Cardinality(sent) <= Cardinality(free)
  <2>1. Cardinality(free) = Cardinality(empty) + Cardinality(mine) - Cardinality(empty \cap mine)
    BY <1>1, <1>7, FS_Union
  <2>2. Cardinality(empty \cap mine) = 0
    BY <1>2, FS_EmptySet
  <2> QED BY <1>3, <1>7, <2>1, <2>2
<1>9. Cardinality(sent) <= Cardinality(cells)
  <2>1. free \in SUBSET (1..NSlots)
    BY <1>1 DEF Slot
  <2> QED BY <1>6, <1>7, <1>8, <2>1, LowestCellsCount
<1> HIDE DEF cells
<1>10. g \in Injection(cells, sent)
  BY <1>4 DEF Injection, IsInjective
<1>11. Cardinality(cells) = Cardinality(sent)
  <2>1. Cardinality(cells) <= Cardinality(sent) /\ IsFiniteSet(cells)
    BY <1>7, <1>10, FS_Injection
  <2>2. Cardinality(cells) \in Nat
    BY <2>1, FS_CardinalityType
  <2> QED BY <1>7, <1>9, <2>1, <2>2
<1>12. g \in Surjection(cells, sent)
  BY <1>7, <1>10, <1>11, FS_Injection
<1>13. \A c \in sent : \E s \in cells : g[s] = c
  BY <1>12 DEF Surjection
<1>14. DOMAIN g = cells
  BY <1>4
<1> QED BY <1>13, <1>14 DEF sent

LEMMA GoldExact ==
  ASSUME ExchangeAssumption, TypeOK, NEW r \in Room, HasMoney(r), NEW i \in Side,
         room[r].who[i] \in Player
  PROVE  TradedGold(r, i) = gold[room[r].who[i]] - room[r].bid[i] + room[r].bid[Other(i)]
<1> DEFINE mine == room[r].bid[i]
           theirs == room[r].bid[Other(i)]
           have == gold[room[r].who[i]]
<1>1. Other(i) \in Side /\ Other(Other(i)) = i
  BY DEF Side, Other
<1>2. mine \in Money /\ theirs \in Money /\ have \in Money
  BY <1>1 DEF TypeOK, RoomType
<1>3. /\ mine <= have
      /\ theirs # 0 => have + theirs <= MaxMoney
  BY <1>1 DEF HasMoney
<1>4. TradedGold(r, i) = IF mine > theirs THEN Subtraction(have, mine - theirs)
                                          ELSE Addition(have, theirs - mine)
  BY DEF TradedGold
<1> HIDE DEF mine, theirs, have
<1>5. TradedGold(r, i) = have - mine + theirs
  BY <1>2, <1>3, <1>4, ExchangeAssumption DEF Money, Addition, Subtraction, ExchangeAssumption
<1> QED BY <1>5 DEF mine, theirs, have

\* What side i holds after the exchange of room r.
LEMMA ExactSide ==
  ASSUME ExchangeAssumption, TypeOK, ContainersPaired, NoDuplicate,
         NEW r \in Room, room[r].phase # "FREE", DoExchange(r), CanExchange(r), NEW i \in Side
  PROVE  LET p == room[r].who[i]
         IN /\ Items(inv'[p]) = (Items(inv[p]) \ Given(r, i)) \cup Given(r, Other(i))
            /\ gold'[p] = gold[p] - room[r].bid[i] + room[r].bid[Other(i)]
<1> DEFINE p == room[r].who[i]
<1>1. PICK f : TradedBy(r, f)
  BY Exchanged
<1>2. p \in Player /\ HasSpace(r) /\ HasMoney(r) /\ OffersIntact(r)
  BY Partners DEF CanExchange
<1>3. gold'[p] = gold[p] - room[r].bid[i] + room[r].bid[Other(i)]
  BY <1>1, <1>2, GoldExact DEF TradedBy
<1>4. Other(i) \in Side
  BY DEF Side, Other
<1>5. f[i] \in Placements(r, i) /\ inv'[p] = TradedInv(r, i, f[i])
  BY <1>1 DEF TradedBy
<1>6. DOMAIN f[i] \subseteq FreedCells(r, i)
  BY <1>5 DEF Placements, LowestCells
<1>7. \A s \in Offered(r, i) : s \in Slot /\ inv[p][s] = room[r].offer[i][s]
  BY <1>2 DEF OffersIntact, Offered
<1>8. ASSUME NEW n \in Items(inv'[p])
      PROVE  n \in (Items(inv[p]) \ Given(r, i)) \cup Given(r, Other(i))
  <2>1. PICK s \in Slot : n = inv'[p][s] /\ n # NoItem
    BY <1>8 DEF Items
  <2>2. CASE f[i][s] \in Offered(r, Other(i)) /\ n = room[r].offer[Other(i)][f[i][s]]
    BY <2>2 DEF Given
  <2>3. CASE s \notin Offered(r, i) /\ n = inv[p][s]
    <3>1. n \in Items(inv[p])
      BY <2>1, <2>3 DEF Items
    <3>2. n \notin Given(r, i)
      BY <1>2, <1>7, <2>1, <2>3 DEF Given, NoDuplicate
    <3> QED BY <3>1, <3>2
  <2> QED BY <1>1, <1>2, <2>1, <2>2, <2>3, CellAfter
<1>9. ASSUME NEW n \in Items(inv[p]), n \notin Given(r, i)
      PROVE  n \in Items(inv'[p])
  <2>1. PICK s \in Slot : n = inv[p][s] /\ n # NoItem
    BY <1>9 DEF Items
  <2>2. s \notin Offered(r, i)
    BY <1>7, <1>9, <2>1 DEF Given
  <2>3. s \notin DOMAIN f[i]
    BY <1>6, <2>1, <2>2 DEF FreedCells, EmptyCells
  <2>4. inv'[p][s] = n
    BY <1>5, <2>1, <2>2, <2>3 DEF TradedInv
  <2> QED BY <2>1, <2>4 DEF Items
<1>10. ASSUME NEW n \in Given(r, Other(i)) PROVE n \in Items(inv'[p])
  <2>1. PICK c \in Offered(r, Other(i)) : n = room[r].offer[Other(i)][c] /\ n # NoItem
    BY <1>10 DEF Given, Offered
  <2>2. PICK s \in DOMAIN f[i] : f[i][s] = c
    BY <1>2, <1>5, <2>1, EverythingPlaced
  <2>3. s \in Slot
    BY <1>6, <1>7, <2>2 DEF FreedCells, EmptyCells
  <2>4. inv'[p][s] = n
    BY <1>5, <2>1, <2>2, <2>3 DEF TradedInv
  <2> QED BY <2>1, <2>3, <2>4 DEF Items
<1> HIDE DEF p
<1>11. Items(inv'[p]) = (Items(inv[p]) \ Given(r, i)) \cup Given(r, Other(i))
  BY <1>8, <1>9, <1>10
<1> QED BY <1>3, <1>11 DEF p

LEMMA Exact ==
  ASSUME ExchangeAssumption, TypeOK, ContainersPaired, OffersHeld, NoDuplicate, [Next]_vars,
         NEW r \in Room, NEW i \in Side, room[r].phase # "FREE",
         NEW n \in Given(r, i) \cap Items(inv'[room[r].who[Other(i)]]), NEW j \in Side
  PROVE  LET p == room[r].who[j]
         IN /\ Items(inv'[p]) = (Items(inv[p]) \ Given(r, j)) \cup Given(r, Other(j))
            /\ gold'[p] = gold[p] - room[r].bid[j] + room[r].bid[Other(j)]
<1> DEFINE p == room[r].who[i]
           q == room[r].who[Other(i)]
<1>1. Other(i) \in Side /\ Other(i) # i
  BY DEF Side, Other
<1>2. p \in Player /\ q \in Player /\ p # q /\ RoomOf(p) = r
  BY <1>1, Partners
<1>3. PICK s \in Slot : inv[p][s] = n /\ n # NoItem
  BY DEF Given, Offered, OffersHeld
<1>4. PICK t \in Slot : inv'[q][t] = n
  BY DEF Items
<1> HIDE DEF p, q
<1>5. PICK z \in Player : ConfirmExchange(z) /\ RoomOf(z) = r
  BY <1>2, <1>3, <1>4, Passed
<1>6. DoExchange(r) /\ CanExchange(r)
  BY <1>5, ExchangeRoom
<1> QED BY <1>6, ExactSide

\* All or nothing: if one offered item changes hands, every offered item does,
\* nothing else of the two is lost or made, and both sums are paid in full.
THEOREM TradesAreExact == Spec => TradeIsExact
<1>1. TypeOK /\ ContainersPaired /\ OffersFrozen /\ NoDuplicate /\ [Next]_vars =>
        [\A r \in Room :
           (\E i \in Side : room[r].phase # "FREE"
                            /\ Given(r, i) \cap Items(inv'[room[r].who[Other(i)]]) # {}) =>
             \A i \in Side :
               LET p == room[r].who[i]
               IN /\ Items(inv'[p]) = (Items(inv[p]) \ Given(r, i)) \cup Given(r, Other(i))
                  /\ gold'[p] = gold[p] - room[r].bid[i] + room[r].bid[Other(i)]]_vars
  <2> SUFFICES ASSUME TypeOK, ContainersPaired, OffersFrozen, NoDuplicate, [Next]_vars,
                      NEW r \in Room, NEW i \in Side, room[r].phase # "FREE",
                      Given(r, i) \cap Items(inv'[room[r].who[Other(i)]]) # {},
                      NEW j \in Side
               PROVE  LET p == room[r].who[j]
                      IN /\ Items(inv'[p]) = (Items(inv[p]) \ Given(r, j)) \cup Given(r, Other(j))
                         /\ gold'[p] = gold[p] - room[r].bid[j] + room[r].bid[Other(j)]
    OBVIOUS
  <2>1. PICK n : n \in Given(r, i) \cap Items(inv'[room[r].who[Other(i)]])
    OBVIOUS
  <2>2. OffersHeld
    BY DEF OffersFrozen
  <2> QED BY <2>1, <2>2, ExchangeAssumption, Exact
<1> QED BY <1>1, TypeCorrect, ContainersStayPaired, OffersStayFrozen, ItemsAreUnique, PTL
     DEF Spec, TradeIsExact
=============================================================================
