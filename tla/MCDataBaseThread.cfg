\* The same instance: what the comment on the choice of the thread says.
CONSTANTS
  hero = hero
  world = world
  log = log
  NoQuery = NoQuery
  Source <- MCSource
  Kind <- MCKind
  Index <- MCIndex
  NumThreads = 2
  Capacity = 1
  Limit <- MCLimit
SPECIFICATION Spec
INVARIANT ThreadByArgument
\* The system stops when the server has released its connections.
CHECK_DEADLOCK FALSE
