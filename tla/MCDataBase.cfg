\* Two threads and the login and log connections, one query at a time each: every
\* second query meets a full connection.
CONSTANTS
  hero = hero
  world = world
  log = log
  NoQuery = NoQuery
  Source <- MCSource
  Kind <- MCKind
  Index <- MCIndex
  NumThreads = 2
  Capacity = 1
  Limit <- MCLimit
SPECIFICATION Spec
INVARIANTS
  QueriesSound
  QueriesInOrder
  NothingLostAtRelease
PROPERTIES
  ConnectionsAreQueues
  EveryQueryHandled
\* The system stops when the server has released its connections.
CHECK_DEADLOCK FALSE
