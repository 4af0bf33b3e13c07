\* Three messages of three or five bytes through a chain of four objects of three bytes.
CONSTANTS
  BlockSize = 3
  MemObjNum = 4
  MaxTransfer = 3
  MaxWsabuf = 2
  MsgLength = {1, 3}
  MaxMsgs = 3
  MayBlock = FALSE
SPECIFICATION ChainSpec
INVARIANTS
  ChainSound
PROPERTIES
  IsPipe
\* The system stops when every message has been sent.
CHECK_DEADLOCK FALSE
