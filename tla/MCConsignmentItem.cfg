\* Three items, no money: what happens to the lock of a consigned item.
CONSTANTS
  p1 = p1
  p2 = p2
  i1 = i1
  i2 = i2
  i3 = i3
  r1 = r1
  Player = {p1, p2}
  Item = {i1, i2, i3}
  Room = {r1}
  NSlots = 2
  MaxItems = 1
  MaxMoney = 0
  NoItem = NoItem
  NoRoom = NoRoom
  NoPlayer = NoPlayer
SYMMETRY Symmetry
SPECIFICATION CSpec
INVARIANT ConsignedItemsGone
