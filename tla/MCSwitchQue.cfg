\* Two messages on one connection, or one on each; a queue holds one.
CONSTANTS
  c1 = c1
  c2 = c2
  Connection = {c1, c2}
  NoConnection = NoConnection
  NumWorkers = 2
  QueSize = 2
  MaxReceived <- Messages
  MaxBatch = 1
SPECIFICATION Spec
INVARIANTS
  FlowInOrder
  WritesSound
  BatchSound
PROPERTIES
  HandedOverWhole
  ReceivedIsHandled
  MainThreadEnds
\* The system stops when it has been taken down.
CHECK_DEADLOCK FALSE
