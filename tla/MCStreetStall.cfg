\* Two guests of one stall; a guest and an owner who has other things to do, too; two
\* owners.  Each group is alone on the map.
CONSTANTS
  sells1 = sells1
  sells2 = sells2
  sells3 = sells3
  buys1 = buys1
  buys2 = buys2
  guest1 = guest1
  guest2 = guest2
  guest3 = guest3
  potion = potion
  sword = sword
  Player = {sells1, sells2, sells3, buys1, buys2, guest1, guest2, guest3}
  Together = {{sells1, guest2, guest3}, {sells2, guest1}, {buys2, guest2}, {buys2, guest3}, {sells3, buys1}}
  Opens <- TheOpens
  Restless = {sells2, buys2}
  Kind = {potion, sword}
  Stackable = {potion}
  NSlots = 2
  NCells = 2
  Prices <- ThePrices
  MaxMoney = 2
  MaxVolume = 2
  MaxWealth = 9
  StartInv <- TheInv
  StartGold <- TheGold
  NoKind = NoKind
  NoPlayer = NoPlayer
SPECIFICATION Spec
INVARIANTS
  GuestsSound
  
  ReservedHeld
PROPERTIES
  TradeAsShown
\* The server may go down, and everybody may leave.
CHECK_DEADLOCK FALSE
