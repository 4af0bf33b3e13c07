---------------------------- MODULE StreetStall ----------------------------
(***************************************************************************)
(* The street stalls of a map server: cStreetStallManager with the         *)
(* handlers of the MP_STREETSTALL messages, cStreetStall (the articles and *)
(* the guests of one stall), and the parts of a player they change - the   *)
(* object state, the inventory cells with their locks and reservations,    *)
(* and the purse.                                                          *)
(*                                                                         *)
(* A stall sells articles of its owner's inventory (eSK_SELL), or buys for *)
(* its owner's money (eSK_BUY).  A map server handles one message to its   *)
(* end, so a handler is one action.  A client has one request under way:   *)
(* it is made from what the client has been shown, and handled at any time *)
(* later, whatever other players, deaths and the database have done        *)
(* meanwhile.  A part of a stack that is bought is a new item: its cell is *)
(* reserved (SS_PREINSERT) until the database has answered.                *)
(*                                                                         *)
(* A log-out is final, and an insertion does not fail.  The title of a     *)
(* stall, sealed items, exchanges and what else keeps a stall from being   *)
(* opened are left out.  A second OPEN is, too: it deletes the stall there *)
(* is, but a client with a stall does not send it.                         *)
(*                                                                         *)
(* An operator whose comment begins with "Faulty" is a variant of the one  *)
(* after it that no action uses.                                           *)
(***************************************************************************)
EXTENDS Integers, FiniteSets, FiniteSetsExt

CONSTANTS Player,
          Restless,    \* a bound: the players who move their items, and earn money elsewhere
          Opens,       \* a bound: the kinds of stall each player opens
          Kind,        \* wIconIdx
          NoKind,      \* wIconIdx = 0
          Stackable,   \* the kinds of which a cell holds several (IsDupItem)
          NSlots,      \* cells of an inventory
          NCells,      \* MAX_STREETSTALL_CELLNUM; a stall that buys uses fewer, and is never full
          Prices,      \* a bound: the prices each player asks
          MaxMoney,    \* MAX_INVENTORY_MONEY
          MaxVolume,   \* a bound: how many of a kind a stall wants to buy
          MaxWealth,   \* a bound: all money, with what players earn elsewhere
          Together,    \* a bound: the groups of players who are there together
          StartInv,    \* the items: dwDBIdx names one, and there is one in a cell that does not stack
          StartGold,
          NoPlayer

ASSUME StallAssumption ==
  /\ IsFiniteSet(Player) /\ Opens \in [Player -> SUBSET {"SELL", "BUY"}] /\ Stackable \subseteq Kind
  /\ NSlots \in Nat \ {0} /\ NCells \in Nat \ {0}
  /\ Prices \in [Player -> SUBSET (Nat \ {0})] /\ MaxMoney \in Nat /\ MaxVolume \in Nat
  /\ NoPlayer \notin Player /\ NoKind \notin Kind
  /\ \A g \in Together : g \subseteq Player
  /\ StartInv \in [Player -> [1..NSlots -> {[id |-> 0, kind |-> NoKind, n |-> 0]}
                                         \cup [id : Nat, kind : Kind, n : Nat \ {0}]]]
  /\ \A p, q \in Player : \A s, t \in 1..NSlots :
       LET x == StartInv[p][s]
           y == StartInv[q][t] IN
       x.kind # NoKind => /\ y.kind # NoKind /\ y.id = x.id => p = q /\ s = t
                          /\ x.kind \notin Stackable => x.n = 1
  /\ StartGold \in [Player -> 0..MaxMoney]

VARIABLES up,          \* the map server runs
          online,      \* g_pUserTable
          state,       \* the object state of each player
          guestStall,  \* m_pGuestStall, as the owner of that stall
          stall,       \* m_StallTable, by the owner
          inv,         \* the item in each inventory cell
          locked,      \* the cells with bLock
          reserved,    \* the cells with SS_PREINSERT
          inserts,     \* insertions the database has not answered
          gold,
          asked        \* the request of each player that is under way

stallVars == <<state, guestStall, stall>>
itemVars  == <<inv, locked, reserved, inserts>>
vars == <<up, online, state, guestStall, stall, inv, locked, reserved, inserts, gold, asked>>

Slot == 1..NSlots
Cell == 1..NCells
NoRequest == [type |-> "none"]

(* sITEMBASE: dwDBIdx, wIconIdx, Durability *)
ItemOf(i, k, n) == [id |-> i, kind |-> k, n |-> n]
NoItem == ItemOf(0, NoKind, 0)

(* sCELLINFO.  Of an article on sale slot is the cell of the inventory and n the
   number there; of one that is wanted n is wVolume, and it has no id and slot. *)
ArticleOf(x, s, p) == [id |-> x.id, kind |-> x.kind, slot |-> s, n |-> x.n, price |-> p, lock |-> FALSE]
Wanted(k, n, p) == ArticleOf(ItemOf(0, k, n), 0, p)
NoArticle == ArticleOf(NoItem, 0, 0)

(* FindStreetStall finds none. *)
NoStall == [kind |-> "NONE"]

(* CreateStreetStall *)
NewStall(k) == [kind |-> k, cells |-> [c \in Cell |-> NoArticle], guests |-> {}, total |-> 0]

Init ==
  /\ up = TRUE
  /\ online \in Together
  /\ state = [p \in Player |-> "None"]
  /\ guestStall = [p \in Player |-> NoPlayer]
  /\ stall = [p \in Player |-> NoStall]
  /\ inv = StartInv /\ gold = StartGold
  /\ locked = [p \in Player |-> {}] /\ reserved = [p \in Player |-> {}]
  /\ inserts = {}
  /\ asked = [p \in Player |-> NoRequest]

-----------------------------------------------------------------------------
(* Inventories, articles and sums of money *)

(* Faulty: a reserved cell has no item and no lock. *)
EmptyButReserved(p) == {s \in Slot \ locked[p] : inv[p][s] = NoItem}

(* IsEmpty, GetEmptyCell *)
EmptyCells(p) == {s \in Slot \ (locked[p] \cup reserved[p]) : inv[p][s] = NoItem}
EmptyCell(p)  == Min(EmptyCells(p))

KindAt(p, s) == inv[p][s].kind

(* The database numbers a new item as no other one. *)
FreshId == Min((1..NSlots * Cardinality(Player) + 1) \
                 {inv[x[1]][x[2]].id : x \in {y \in Player \X Slot : inv[y[1]][y[2]] # NoItem}})

HasStall(p, k) == stall[p] # NoStall /\ stall[p].kind = k
Filled(o) == {c \in Cell : stall[o] # NoStall /\ stall[o].cells[c] # NoArticle}
Article(o, c) == stall[o].cells[c]
Listed(o, i) == \E c \in Filled(o) : Article(o, c).id = i
CellOf(o, i) == CHOOSE c \in Filled(o) : Article(o, c).id = i

Worth(a)   == a.price * a.n
Value(cells) == MapThenSumSet(LAMBDA c : IF cells[c] = NoArticle THEN 0 ELSE Worth(cells[c]), Cell)

(* SetMoney, MONEY_ADDITION *)
AddMoney(m, n) == Min({MaxMoney, m + n})

(* Faulty: the articles after it stay where they are. *)
WithoutShift(cells, c) == [cells EXCEPT ![c] = NoArticle]

(* EmptyCell of a stall that sells: the articles after it move up. *)
Without(cells, c) ==
  [d \in Cell |-> IF d < c THEN cells[d] ELSE IF d < NCells THEN cells[d + 1] ELSE NoArticle]

(* EmptyCell with the item: it is off the stall, and its cell unlocked. *)
TakeOff(o, i) ==
  LET c == CellOf(o, i) IN
  /\ stall'  = [stall EXCEPT ![o].cells = Without(@, c)]
  /\ locked' = [locked EXCEPT ![o] = @ \ {Article(o, c).slot}]

(* EmptyCell with the position, of a stall that buys *)
Unwant(o, c) ==
  [stall[o] EXCEPT !.cells[c] = NoArticle, !.total = @ - Worth(Article(o, c))]

-----------------------------------------------------------------------------
(* What clients ask for *)

Asks(p, m) ==
  /\ asked' = [asked EXCEPT ![p] = m]
  /\ UNCHANGED <<up, online, stallVars, itemVars, gold>>

MayAsk(p) == up /\ p \in online /\ state[p] # "Die" /\ asked[p] = NoRequest

\* The client locks a listed item of its own.
Unlisted(p) == {s \in Slot : inv[p][s] # NoItem
                  /\ (HasStall(p, "SELL") => ~Listed(p, inv[p][s].id))}

Numbers(k, n) == IF k \in Stackable THEN 1..n ELSE {1}

(* OpenStreetStall *)
AskOpen(p) ==
  /\ MayAsk(p)
  /\ state[p] = "None" /\ stall[p] = NoStall /\ guestStall[p] = NoPlayer
  /\ \E k \in Opens[p] : Asks(p, [type |-> "OPEN", kind |-> k])

IsKeeper(p, k) == MayAsk(p) /\ guestStall[p] = NoPlayer /\ HasStall(p, k)

AskClose(p) ==
  /\ \E k \in {"SELL", "BUY"} : IsKeeper(p, k)
  /\ Asks(p, [type |-> "CLOSE"])

(* RegistItemEx of an item, and the change of its lock, with its price *)
AskOfArticle(p) ==
  /\ IsKeeper(p, "SELL")
  /\ \/ \E s \in Unlisted(p) : Asks(p, [type |-> "REGIST", slot |-> s, id |-> inv[p][s].id])
     \/ \E c \in Filled(p) : ~Article(p, c).lock /\ \E price \in Prices[p] :
          Asks(p, [type |-> "LOCK", cell |-> c, id |-> Article(p, c).id,
                   n |-> Article(p, c).n, price |-> price])
     \/ \E c \in Filled(p) : Article(p, c).lock
          /\ Asks(p, [type |-> "UNLOCK", cell |-> c, id |-> Article(p, c).id])
     \/ \E c \in Filled(p) : Asks(p, [type |-> "DELETE", id |-> Article(p, c).id])

(* RegistItemEx of what is wanted; one that is there is locked by UPDATE first. *)
AskOfWanted(p) ==
  /\ IsKeeper(p, "BUY")
  /\ \/ \E c \in Cell : (c \in Filled(p) => Article(p, c).lock)
          /\ \E k \in Kind : \E n \in Numbers(k, MaxVolume), price \in Prices[p] :
               Asks(p, [type |-> "REGISTBUY", cell |-> c, kind |-> k, n |-> n, price |-> price])
     \/ \E c \in Filled(p) : ~Article(p, c).lock /\ Asks(p, [type |-> "UPDATE", cell |-> c])
     \/ \E c \in Filled(p) : Article(p, c).lock /\ Asks(p, [type |-> "UPDATEEND"])
     \/ \E c \in Filled(p) : Asks(p, [type |-> "DELETEBUY", cell |-> c])

(* EnterStreetStall; a player whose own stall was opened after its death may do so, too. *)
AskGuestIn(p) ==
  /\ MayAsk(p) /\ state[p] = "None" /\ guestStall[p] = NoPlayer
  /\ \E o \in online \ {p} : stall[o] # NoStall /\ Asks(p, [type |-> "GUESTIN", owner |-> o])

AskGuestOut(p) ==
  /\ MayAsk(p) /\ guestStall[p] # NoPlayer
  /\ Asks(p, [type |-> "GUESTOUT", owner |-> guestStall[p]])

(* BuyItem, BuyItemDur: money and a cell for it are looked for by the client, too. *)
AskBuy(p) ==
  /\ MayAsk(p) /\ guestStall[p] # NoPlayer /\ EmptyCells(p) # {}
  /\ LET o == guestStall[p] IN
     /\ HasStall(o, "SELL")
     /\ \E c \in Filled(o) : LET a == Article(o, c) IN
          /\ a.lock
          /\ \E n \in Numbers(a.kind, a.n) :
               /\ gold[p] >= a.price * n
               /\ Asks(p, [type |-> "BUY", owner |-> o, cell |-> c, id |-> a.id,
                       kind |-> a.kind, n |-> n, price |-> a.price])

(* SellItem, SellItemDur *)
AskSell(p) ==
  /\ MayAsk(p) /\ guestStall[p] # NoPlayer
  /\ LET o == guestStall[p] IN
     /\ HasStall(o, "BUY")
     /\ \E c \in Filled(o), s \in Unlisted(p) \ locked[p] : LET a == Article(o, c) IN
          /\ ~a.lock /\ inv[p][s].kind = a.kind
          /\ \E n \in Numbers(a.kind, inv[p][s].n) :
               Asks(p, [type |-> "SELL", owner |-> o, cell |-> c, slot |-> s,
                        kind |-> a.kind, n |-> n, price |-> a.price])

AskMove(p) ==
  /\ MayAsk(p) /\ p \in Restless
  /\ \E s \in Unlisted(p), t \in Slot :
       /\ s # t /\ (inv[p][t] = NoItem \/ t \in Unlisted(p))
       /\ Asks(p, [type |-> "MOVE", slot |-> s, kind |-> KindAt(p, s), to |-> t, other |-> KindAt(p, t)])

-----------------------------------------------------------------------------
(* Opening and closing a stall *)

Handled(p, type) ==
  /\ up /\ p \in online /\ asked[p].type = type
  /\ asked' = [asked EXCEPT ![p] = NoRequest]
  /\ UNCHANGED <<up, online>>

(* StartObjectState: refused to the dead. *)
Start(p, s) == [state EXCEPT ![p] = IF @ = "Die" THEN @ ELSE s]

(* EndObjectState of several *)
EndOf(ps, s) == [p \in Player |-> IF p \in ps /\ state[p] = s THEN "None" ELSE state[p]]

(* MP_STREETSTALL_OPEN_SYN: no object state keeps it from being carried out. *)
Open(p) ==
  /\ Handled(p, "OPEN")
  /\ stall' = [stall EXCEPT ![p] = NewStall(asked[p].kind)]
  /\ state' = Start(p, "Owner")
  /\ UNCHANGED <<guestStall, itemVars, gold>>

(* EmptyCellAll *)
Unlock(o) ==
  locked' = [locked EXCEPT ![o] = @ \ IF HasStall(o, "SELL")
                                         THEN {Article(o, c).slot : c \in Filled(o)} ELSE {}]

(* Faulty: the guests are not told. *)
DeleteKeepingGuests(o) ==
  /\ Unlock(o)
  /\ stall' = [stall EXCEPT ![o] = NoStall]
  /\ UNCHANGED guestStall

(* DeleteStreetStall: EmptyCellAll, DeleteGuestAll *)
DeleteStreetStall(o) ==
  /\ Unlock(o)
  /\ stall' = [stall EXCEPT ![o] = NoStall]
  /\ guestStall' = [p \in Player |-> IF p \in stall[o].guests THEN NoPlayer ELSE guestStall[p]]

(* StreetStallMode(FALSE), SendMsgGuestAll with bChangeState *)
StateWithout(o) ==
  [p \in Player |-> IF p = o THEN EndOf({o}, "Owner")[p] ELSE EndOf(stall[o].guests, "Guest")[p]]

(* MP_STREETSTALL_CLOSE_SYN *)
Close(p) ==
  /\ Handled(p, "CLOSE") /\ stall[p] # NoStall
  /\ DeleteStreetStall(p)
  /\ state' = StateWithout(p)
  /\ UNCHANGED <<inv, reserved, inserts, gold>>

(* UserLogOut.  A guest leaves, and its own stall is not looked at.  Whether the
   stall is there is asked by its owner's id, which is read from what the owner
   left behind when that is not online. *)
UserLogOut(p) ==
  LET o == guestStall[p] IN
  \/ /\ o # NoPlayer
     /\ stall' = [stall EXCEPT ![o].guests = @ \ {p}]
     /\ guestStall' = [guestStall EXCEPT ![p] = NoPlayer]
     /\ UNCHANGED locked
  \/ /\ o # NoPlayer /\ o \notin online
     /\ UNCHANGED <<stall, guestStall, locked>>
  \/ /\ o = NoPlayer /\ stall[p] # NoStall
     /\ DeleteStreetStall(p)
  \/ /\ o = NoPlayer /\ stall[p] = NoStall
     /\ UNCHANGED <<stall, guestStall, locked>>

StateAfterLogOut(p) ==
  IF guestStall[p] = NoPlayer /\ stall[p] # NoStall THEN StateWithout(p) ELSE state

(* DoDie *)
Die(p) ==
  /\ up /\ p \in online /\ state[p] # "Die"
  /\ UserLogOut(p)
  /\ state' = [StateAfterLogOut(p) EXCEPT ![p] = "Die"]
  /\ UNCHANGED <<up, online, inv, reserved, inserts, gold, asked>>

(* DoDie by a pet whose owner has gone: it returns before UserLogOut, and the
   stall, or the visit, goes on. *)
DieByPet(p) ==
  /\ up /\ p \in online /\ state[p] # "Die"
  /\ state' = [state EXCEPT ![p] = "Die"]
  /\ UNCHANGED <<up, online, guestStall, stall, itemVars, gold, asked>>

Revive(p) ==
  /\ up /\ p \in online /\ state[p] = "Die"
  /\ state' = [state EXCEPT ![p] = "None"]
  /\ UNCHANGED <<up, online, guestStall, stall, itemVars, gold, asked>>

(* RemovePlayer; a request that comes later finds nobody. *)
LogOut(p) ==
  /\ up /\ p \in online
  /\ UserLogOut(p)
  /\ online' = online \ {p}
  /\ state' = [StateAfterLogOut(p) EXCEPT ![p] = "None"]
  /\ asked' = [asked EXCEPT ![p] = NoRequest]
  /\ UNCHANGED <<up, inv, reserved, inserts, gold>>

-----------------------------------------------------------------------------
(* The owner's articles *)

(* MP_STREETSTALL_FAKEREGISTITEM_SYN: the article is unlocked, and its item too. *)
CanRegist(p) ==
  LET m == asked[p] IN
  /\ guestStall[p] = NoPlayer /\ HasStall(p, "SELL")
  /\ Filled(p) # Cell
  /\ m.slot \notin locked[p] /\ inv[p][m.slot] # NoItem
  /\ ~Listed(p, inv[p][m.slot].id)

Regist(p) ==
  LET s == asked[p].slot IN
  /\ Handled(p, "REGIST") /\ CanRegist(p)
  /\ stall' = [stall EXCEPT ![p].cells[Min(Cell \ Filled(p))] = ArticleOf(inv[p][s], s, 0)]
  /\ UNCHANGED <<state, guestStall, itemVars, gold>>

IsAt(p, c, i) == c \in Filled(p) /\ Article(p, c).id = i

(* Everything on sale, and the money the owner has, must fit in its purse; the
   price the article had before counts, too. *)
CanLock(p) ==
  LET m == asked[p] IN
  /\ IsAt(p, m.cell, m.id)
  /\ m.price * m.n + gold[p] + Value(stall[p].cells) <= MaxMoney

(* SetMoney, ChangeCellState of MP_STREETSTALL_LOCKITEM_SYN *)
Lock(p) ==
  LET m == asked[p]
      a == Article(p, m.cell) IN
  /\ Handled(p, "LOCK") /\ CanLock(p)
  /\ stall' = [stall EXCEPT ![p].cells[m.cell] =
                 [a EXCEPT !.price = IF a.lock THEN @ ELSE m.price, !.lock = TRUE]]
  /\ locked' = [locked EXCEPT ![p] = @ \cup {a.slot}]
  /\ UNCHANGED <<state, guestStall, inv, reserved, inserts, gold>>

(* ITEMLOCKFAIL: the article is taken off the stall. *)
LockFails(p) ==
  /\ Handled(p, "LOCK") /\ ~CanLock(p)
  /\ Listed(p, asked[p].id)
  /\ TakeOff(p, asked[p].id)
  /\ UNCHANGED <<state, guestStall, inv, reserved, inserts, gold>>

(* MP_STREETSTALL_UNLOCKITEM_SYN: of a locked article the price stays. *)
Unlocked(p) ==
  LET m == asked[p] IN
  /\ Handled(p, "UNLOCK") /\ IsAt(p, m.cell, m.id)
  /\ stall' = [stall EXCEPT ![p].cells[m.cell].lock = FALSE]
  /\ locked' = [locked EXCEPT ![p] = @ \ {Article(p, m.cell).slot}]
  /\ UNCHANGED <<state, guestStall, inv, reserved, inserts, gold>>

(* MP_STREETSTALL_DELETEITEM_SYN of a stall that sells *)
Delete(p) ==
  /\ Handled(p, "DELETE")
  /\ Listed(p, asked[p].id)
  /\ TakeOff(p, asked[p].id)
  /\ UNCHANGED <<state, guestStall, inv, reserved, inserts, gold>>

(* The checks of MP_STREETSTALL_FAKEREGISTBUYITEM_SYN.  The total is that of the
   last registration, less what was emptied. *)
CanRegistBuy(p) ==
  LET m == asked[p]
      rest == stall[p].total
                - IF m.cell \in Filled(p) THEN Worth(Article(p, m.cell)) ELSE 0 IN
  /\ rest + m.n * m.price <= Min({MaxMoney, gold[p]})
  /\ EmptyCells(p) # {}

(* FillCell *)
RegistBuy(p) ==
  LET m == asked[p]
      cells == [stall[p].cells EXCEPT ![m.cell] = Wanted(m.kind, m.n, m.price)] IN
  /\ Handled(p, "REGISTBUY") /\ HasStall(p, "BUY") /\ CanRegistBuy(p)
  /\ stall' = [stall EXCEPT ![p].cells = cells, ![p].total = Value(cells)]
  /\ UNCHANGED <<state, guestStall, itemVars, gold>>

(* BUYITEMREGISTFAILEX: what was there before is unlocked. *)
RegistBuyFails(p) ==
  LET c == asked[p].cell IN
  /\ Handled(p, "REGISTBUY") /\ HasStall(p, "BUY") /\ ~CanRegistBuy(p)
  /\ stall' = IF c \in Filled(p) THEN [stall EXCEPT ![p].cells[c].lock = FALSE] ELSE stall
  /\ UNCHANGED <<state, guestStall, itemVars, gold>>

(* BUYITEMREGISTFAILEX without a stall reads bFill of no cell. *)
RegistBuyCrashes(p) ==
  /\ up /\ asked[p].type = "REGISTBUY" /\ stall[p] = NoStall
  /\ up' = FALSE
  /\ UNCHANGED <<online, stallVars, itemVars, gold, asked>>

(* MP_STREETSTALL_UPDATE_SYN *)
Update(p) ==
  LET c == asked[p].cell IN
  /\ Handled(p, "UPDATE")
  /\ c \in Filled(p) /\ ~Article(p, c).lock
  /\ stall' = [stall EXCEPT ![p].cells[c].lock = TRUE]
  /\ UNCHANGED <<state, guestStall, itemVars, gold>>

(* MP_STREETSTALL_UPDATEEND_SYN *)
UpdateEnd(p) ==
  /\ Handled(p, "UPDATEEND") /\ stall[p] # NoStall
  /\ stall' = [stall EXCEPT ![p].cells =
                 [c \in Cell |-> IF @[c] = NoArticle THEN NoArticle ELSE [@[c] EXCEPT !.lock = FALSE]]]
  /\ UNCHANGED <<state, guestStall, itemVars, gold>>

(* MP_STREETSTALL_DELETEITEM_SYN of a stall that buys *)
DeleteBuy(p) ==
  /\ Handled(p, "DELETEBUY") /\ asked[p].cell \in Filled(p)
  /\ stall' = [stall EXCEPT ![p] = Unwant(p, asked[p].cell)]
  /\ UNCHANGED <<state, guestStall, itemVars, gold>>

-----------------------------------------------------------------------------
(* Guests *)

(* MP_STREETSTALL_GUESTIN_SYN *)
CanGuestIn(p) ==
  LET o == asked[p].owner IN
  state[p] \notin {"Guest", "Owner"} /\ o \in online /\ stall[o] # NoStall

GuestIn(p) ==
  LET o == asked[p].owner IN
  /\ Handled(p, "GUESTIN") /\ CanGuestIn(p)
  /\ stall' = [q \in Player |-> IF stall[q] = NoStall THEN NoStall
                 ELSE [stall[q] EXCEPT !.guests = IF q = o THEN @ \cup {p}
                                                  ELSE IF q = guestStall[p] THEN @ \ {p} ELSE @]]
  /\ guestStall' = [guestStall EXCEPT ![p] = o]
  /\ state' = Start(p, "Guest")
  /\ UNCHANGED <<itemVars, gold>>

(* MP_STREETSTALL_GUESTOUT_SYN *)
CanGuestOut(p) ==
  asked[p].owner \in online /\ guestStall[p] = asked[p].owner /\ state[p] = "Guest"

GuestOut(p) ==
  LET o == asked[p].owner IN
  /\ Handled(p, "GUESTOUT") /\ CanGuestOut(p)
  /\ state' = EndOf({p}, "Guest")
  /\ stall' = [stall EXCEPT ![o].guests = @ \ {p}]
  /\ guestStall' = [guestStall EXCEPT ![p] = NoPlayer]
  /\ UNCHANGED <<itemVars, gold>>

-----------------------------------------------------------------------------
(* Trades *)

(* A whole item leaves its cell for the one that is empty. *)
MoveWhole(from, s, to) ==
  /\ inv' = [inv EXCEPT ![from][s] = NoItem, ![to][EmptyCell(to)] = inv[from][s]]
  /\ UNCHANGED <<reserved, inserts>>

(* A part of it is a new item, which the database is to insert: UpdateItemAbs,
   InsertItemAbs with SS_PREINSERT, SSItemInsert *)
MovePart(from, s, n, to) ==
  LET x == inv[from][s] IN
  /\ inv' = [inv EXCEPT ![from][s] = ItemOf(x.id, x.kind, x.n - n)]
  /\ reserved' = [reserved EXCEPT ![to] = @ \cup {EmptyCell(to)}]
  /\ inserts' = inserts \cup {[who |-> to, slot |-> EmptyCell(to), kind |-> x.kind, n |-> n]}

Pay(from, to, money) ==
  gold' = [gold EXCEPT ![from] = @ - money, ![to] = AddMoney(@, money)]

(* Faulty: the article is taken for the one the guest saw. *)
CanBuyAnything(p) ==
  LET m == asked[p]
      o == m.owner
      a == Article(o, m.cell) IN
  /\ o \in online /\ stall[p] = NoStall
  /\ guestStall[p] = o /\ stall[o] # NoStall
  /\ a # NoArticle /\ a.lock /\ m.n <= a.n
  /\ gold[p] >= a.price * m.n
  /\ inv[o][a.slot] = ItemOf(a.id, a.kind, a.n)
  /\ EmptyCells(p) # {}

(* The checks of MP_STREETSTALL_BUYITEM_SYN and CanBuyItem.  The owner's purse
   must have room for the price of one. *)
CanBuyItem(p) ==
  LET m == asked[p]
      o == m.owner
      a == Article(o, m.cell) IN
  /\ o \in online /\ stall[p] = NoStall
  /\ guestStall[p] = o /\ stall[o] # NoStall
  /\ a # NoArticle /\ a.price = m.price
  /\ a.lock /\ a.id = m.id /\ m.n <= a.n
  /\ gold[p] >= a.price * m.n
  /\ inv[o][a.slot] = ItemOf(a.id, a.kind, a.n)
  /\ EmptyCells(p) # {}
  /\ gold[o] + a.price <= MaxMoney

(* BuyItem, BuyDupItem of all there is *)
BuyWhole(p) ==
  LET m == asked[p]
      a == Article(m.owner, m.cell) IN
  /\ Handled(p, "BUY") /\ CanBuyItem(p) /\ m.n = a.n
  /\ MoveWhole(m.owner, a.slot, p)
  /\ TakeOff(m.owner, a.id)
  /\ Pay(p, m.owner, a.price * m.n)
  /\ UNCHANGED <<state, guestStall>>

(* Faulty: UpdateItemAbs has unlocked the cell. *)
KeepUnlocked(o, s) == locked' = [locked EXCEPT ![o] = @ \ {s}]

(* SetLock(TRUE) after UpdateItemAbs has unlocked the cell *)
KeepLocked(o, s) == locked' = [locked EXCEPT ![o] = @ \cup {s}]

(* BuyDupItem of a part *)
BuyPart(p) ==
  LET m == asked[p]
      a == Article(m.owner, m.cell) IN
  /\ Handled(p, "BUY") /\ CanBuyItem(p) /\ m.n < a.n
  /\ MovePart(m.owner, a.slot, m.n, p)
  /\ KeepLocked(m.owner, a.slot)
  /\ stall' = [stall EXCEPT ![m.owner].cells[m.cell].n = @ - m.n]
  /\ Pay(p, m.owner, a.price * m.n)
  /\ UNCHANGED <<state, guestStall>>

(* The checks of MP_STREETSTALL_SELLITEM_SYN and CanSellItem, with the number the
   guest asked for *)
CanSellItem(p) ==
  LET m == asked[p]
      o == m.owner
      a == Article(o, m.cell) IN
  /\ o \in online /\ stall[o] # NoStall /\ guestStall[p] = o
  /\ a # NoArticle /\ a.kind = m.kind /\ a.n >= 1 /\ ~a.lock
  /\ a.price = m.price
  /\ gold[o] >= a.price * m.n /\ gold[p] + a.price * m.n <= MaxMoney
  /\ inv[p][m.slot] # NoItem
  /\ EmptyCells(o) # {}

(* What is sold: no more than there is, and than is wanted *)
NumberSold(p) ==
  Min({asked[p].n, inv[p][asked[p].slot].n, Article(asked[p].owner, asked[p].cell).n})

(* SellItem, SellDupItem; the rest of an article that is wanted is unlocked. *)
Sell(p) ==
  LET m == asked[p]
      o == m.owner
      n == NumberSold(p) IN
  /\ Handled(p, "SELL") /\ CanSellItem(p)
  /\ stall' = [stall EXCEPT ![o] =
       IF n = Article(o, m.cell).n THEN Unwant(o, m.cell)
                                   ELSE [stall[o] EXCEPT !.cells[m.cell].n = @ - n]]
  /\ IF n = inv[p][m.slot].n THEN MoveWhole(p, m.slot, o) ELSE MovePart(p, m.slot, n, o)
  /\ locked' = [locked EXCEPT ![p] = @ \ {m.slot}]
  /\ Pay(o, p, m.price * n)
  /\ UNCHANGED <<state, guestStall>>

-----------------------------------------------------------------------------
(* Everything else *)

(* MoveItem: the cells hold the kinds the client names. *)
CanMove(p) ==
  LET m == asked[p] IN
  /\ {m.slot, m.to} \cap (locked[p] \cup reserved[p]) = {}
  /\ KindAt(p, m.slot) = m.kind /\ KindAt(p, m.to) = m.other

Move(p) ==
  LET m == asked[p] IN
  /\ Handled(p, "MOVE") /\ CanMove(p)
  /\ inv' = [inv EXCEPT ![p][m.slot] = inv[p][m.to], ![p][m.to] = inv[p][m.slot]]
  /\ UNCHANGED <<stallVars, locked, reserved, inserts, gold>>

(* A request that is answered with a NACK, or not at all *)
Refuse(p) ==
  /\ Handled(p, asked[p].type)
  /\ \/ asked[p].type = "REGIST" /\ ~CanRegist(p)
     \/ asked[p].type = "GUESTIN" /\ ~CanGuestIn(p)
     \/ asked[p].type = "GUESTOUT" /\ ~CanGuestOut(p)
     \/ asked[p].type = "BUY" /\ ~CanBuyItem(p)
     \/ asked[p].type = "SELL" /\ ~CanSellItem(p)
     \/ asked[p].type = "MOVE" /\ ~CanMove(p)
     \/ asked[p].type \in {"CLOSE", "UPDATEEND"} /\ stall[p] = NoStall
     \/ asked[p].type = "UNLOCK" /\ ~IsAt(p, asked[p].cell, asked[p].id)
     \/ asked[p].type \in {"UPDATE", "DELETEBUY"} /\ asked[p].cell \notin Filled(p)
     \/ asked[p].type \in {"LOCK", "DELETE"} /\ ~Listed(p, asked[p].id)
  /\ UNCHANGED <<stallVars, itemVars, gold>>

(* RSSItemInsert, CreateDupItem: for a player who has left only the database has it. *)
Inserted(r) ==
  /\ up /\ inserts' = inserts \ {r}
  /\ IF r.who \in online
       THEN /\ inv' = [inv EXCEPT ![r.who][r.slot] = ItemOf(FreshId, r.kind, r.n)]
            /\ reserved' = [reserved EXCEPT ![r.who] = @ \ {r.slot}]
            /\ locked' = [locked EXCEPT ![r.who] = @ \ {r.slot}]
       ELSE UNCHANGED <<inv, reserved, locked>>
  /\ UNCHANGED <<up, online, stallVars, gold, asked>>

(* Money from elsewhere: the party's share, a note, a vehicle's fee *)
Earn(p) ==
  /\ up /\ p \in online /\ p \in Restless
  /\ MapThenSumSet(LAMBDA q : gold[q], Player) < MaxWealth
  /\ gold' = [gold EXCEPT ![p] = AddMoney(@, 1)]
  /\ UNCHANGED <<up, online, stallVars, itemVars, asked>>

Ask(p) == \/ AskOpen(p) \/ AskClose(p) \/ AskOfArticle(p) \/ AskOfWanted(p)
          \/ AskGuestIn(p) \/ AskGuestOut(p) \/ AskBuy(p) \/ AskSell(p) \/ AskMove(p)

Handle(p) ==
  \/ Open(p) \/ Close(p)
  \/ Regist(p) \/ Lock(p) \/ LockFails(p) \/ Unlocked(p) \/ Delete(p)
  \/ RegistBuy(p) \/ RegistBuyFails(p) \/ RegistBuyCrashes(p)
  \/ Update(p) \/ UpdateEnd(p) \/ DeleteBuy(p)
  \/ GuestIn(p) \/ GuestOut(p)
  \/ BuyWhole(p) \/ BuyPart(p) \/ Sell(p)
  \/ Move(p) \/ Refuse(p)

Next == \/ \E p \in Player : Ask(p) \/ Handle(p) \/ Die(p) \/ DieByPet(p) \/ Revive(p) \/ LogOut(p) \/ Earn(p)
        \/ \E r \in inserts : Inserted(r)

Spec == Init /\ [][Next]_vars

-----------------------------------------------------------------------------
(* Properties *)

\* A guest is in the list of the stall it points to and in no other, that stall
\* exists, and nobody is left in the state of a guest or of an owner without a
\* stall.  This is about every handler that opens, closes, enters or leaves a
\* stall, and about deaths and log-outs between a request and its handling.  A
\* stall that outlived its owner's log-out is not held to it.
GuestsSound ==
  /\ \A p \in online : guestStall[p] # NoPlayer => stall[guestStall[p]] # NoStall
  /\ \A o \in online : stall[o] # NoStall =>
       stall[o].guests = {p \in online : guestStall[p] = o}
  /\ \A p \in online : /\ state[p] = "Guest" => guestStall[p] # NoPlayer
                       /\ state[p] = "Owner" => stall[p] # NoStall

\* What a guest can buy is there: a locked article is the item of its owner's
\* cell with its number, and that cell is locked, through partial sales, the
\* shift of the list and failed registrations.  No item is on offer twice, the
\* list has no hole, and no other cell is locked.
OffersBacked ==
  \A o \in online :
    LET sold == IF HasStall(o, "SELL") THEN {c \in Filled(o) : Article(o, c).lock} ELSE {} IN
    /\ locked[o] = {Article(o, c).slot : c \in sold}
    /\ \A c \in sold : LET a == Article(o, c) IN inv[o][a.slot] = ItemOf(a.id, a.kind, a.n)
    /\ HasStall(o, "SELL") =>
         /\ Filled(o) = 1..Cardinality(Filled(o))
         /\ \A c, d \in Filled(o) : Article(o, c).id = Article(o, d).id => c = d

\* Every insertion under way has a cell of its own, which nothing else takes
\* before the database answers.
ReservedHeld ==
  \A p \in online :
    LET mine == {r \in inserts : r.who = p} IN
    /\ reserved[p] = {r.slot : r \in mine} /\ Cardinality(reserved[p]) = Cardinality(mine)
    /\ \A s \in reserved[p] : inv[p][s] = NoItem

\* The number of pieces in the cells T, when n gives that of each
Pieces(T, n) == Cardinality(UNION {{t} \X (1..n[t]) : t \in T})

\* How many of a kind a player has, the insertions under way counted
Held(p, k) == Pieces({s \in Slot : KindAt(p, s) = k}, [s \in Slot |-> inv[p][s].n])
              + Pieces({r \in inserts : r.who = p /\ r.kind = k}, [r \in inserts |-> r.n])

\* n of a kind have gone for their price.  A purse that had room for the price of
\* one when several were bought may be full.
Exchanged(from, to, k, n, price) ==
  /\ \A p \in Player, l \in Kind :
       Held(p, l)' = Held(p, l) + IF l # k THEN 0 ELSE IF p = to THEN n ELSE IF p = from THEN -n ELSE 0
  /\ \/ gold' = [gold EXCEPT ![to] = @ - n * price, ![from] = @ + n * price]
     \/ n > 1 /\ gold' = [gold EXCEPT ![to] = @ - n * price, ![from] = MaxMoney]

\* Nobody gets or loses an item, or pays, but by a request to buy or to sell that
\* is carried out as its guest saw the article when it asked: the kind, the price
\* and the number, or fewer when it sells, and the very item where the kind does
\* not stack.  The owner may have changed, sold or withdrawn the article meanwhile.
TradeAsShown ==
  [][\A p \in online \cap online' :
       (gold'[p] < gold[p] \/ \E k \in Kind : Held(p, k)' # Held(p, k)) =>
       \E g \in Player : LET m == asked[g] IN
         /\ asked'[g] = NoRequest
         /\ \/ /\ m.type = "BUY"
               /\ Exchanged(m.owner, g, m.kind, m.n, m.price)
               /\ m.kind \in Stackable \/ \E s \in Slot : inv'[g][s] = ItemOf(m.id, m.kind, 1)
            \/ /\ m.type = "SELL"
               /\ \E n \in 1..m.n : Exchanged(g, m.owner, m.kind, n, m.price)]_vars
=============================================================================
