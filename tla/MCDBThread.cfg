\* Three queries at once, room for the rows of two.
CONSTANTS
  m1 = m1
  m2 = m2
  m3 = m3
  Message = {m1, m2, m3}
  NoMessage = NoMessage
  NumResults = 2
SPECIFICATION Spec
INVARIANTS
  BlocksSound
  NoLostWakeup
PROPERTIES
  ImplementsQueue
  CloseReturns
\* The system stops when the connection is closed.
CHECK_DEADLOCK FALSE
