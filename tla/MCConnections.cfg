\* Three sockets for two indices: an index and a CConnection are used again.
CONSTANTS
  MaxConnectionNum = 2
  Socket = {s1, s2, s3}
  NoSocket = NoSocket
  Worker = {w1, w2}
  MaxData = 1
  MaxPosts = 1
SPECIFICATION Spec
INVARIANTS
  ResourcesSound
  NeverDeaf
  MessagesReachTheirOwn
PROPERTIES
  BrokenIsClosed
\* The system stops when every socket has been used.
CHECK_DEADLOCK FALSE
