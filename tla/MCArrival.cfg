SPECIFICATION Spec
CONSTANTS
  Map = {m1, m2}
  NoMap = NoMap
  NoPlayer = NoPlayer
  MaxSession = 2
  MaxQueue = 3
INVARIANTS OneHolder PlayersSound
PROPERTIES AnsweredAtLast LoggedOutAtLast
CHECK_DEADLOCK FALSE
