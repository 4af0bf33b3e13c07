\* Two players, two cells each.
CONSTANTS
  p1 = p1
  p2 = p2
  i1 = i1
  i2 = i2
  r1 = r1
  Player = {p1, p2}
  Item = {i1, i2}
  Room = {r1}
  NSlots = 2
  MaxItems = 2
  MaxMoney = 2
  NoItem = NoItem
  NoRoom = NoRoom
  NoPlayer = NoPlayer
SYMMETRY Symmetry
SPECIFICATION Spec
INVARIANTS
  RoomsSound
  OffersFrozen
  NobodyStuck
PROPERTIES
  LockedOffersFixed
  ItemsMoveByConsent
  TradeIsExact
