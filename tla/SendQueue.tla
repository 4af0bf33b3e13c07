----------------------------- MODULE SendQueue -----------------------------
(***************************************************************************)
(* The sending side of a connection of 4DyuchiNET: CConnection::Send puts  *)
(* a message into a chain of memory blocks (CWriteMemoryHandle) and, where *)
(* no send is under way, hands the first of them to WSASend.  The worker   *)
(* that takes the completion drops what was sent and hands over the rest.  *)
(*                                                                         *)
(* Both run under m_csSend from their first look at the chain to their     *)
(* last, so each is one action.  A byte is the number of its message and   *)
(* its place in it.  SendPipe is what all this is for.                     *)
(*                                                                         *)
(* The names of its specification and of its connection's end are its own, *)
(* so that a module can have it beside Connections.                        *)
(*                                                                         *)
(* An operator whose comment begins with "Faulty" is a variant of the one  *)
(* after it that no action uses.                                           *)
(***************************************************************************)
EXTENDS Integers, Sequences, FiniteSets

CONSTANTS BlockSize,    \* MEMORY_BLOCK_SIZE
          MemObjNum,    \* m_dwMemObjNum
          MaxTransfer,  \* m_iMaxTransferSize
          MaxWsabuf,    \* MAX_WSABUF_NUM_IN_SEND_FUNC
          MsgLength,    \* the lengths of the messages
          MaxMsgs,      \* a bound: the messages sent
          MayBlock      \* WSASend may fail with WSAEWOULDBLOCK

\* A transfer that begins with one byte of an object fits into the array of WSABUFs: a
\* block has 64 bytes, the array 1200 entries, and a transfer at most 65535 bytes
\* (net_define.h, conetwork.cpp).
Sizes ==
  /\ {BlockSize, MemObjNum, MaxTransfer, MaxWsabuf} \subseteq Nat \ {0}
  /\ MaxTransfer <= (MaxWsabuf - 1) * BlockSize + 1
  /\ MsgLength \subseteq Nat \ {0} /\ MaxMsgs \in Nat
  /\ MayBlock \in BOOLEAN

ASSUME SendQueueAssumption == Sizes

VARIABLES
  mh,        \* m_mhWrite: the chain from head to tail, the place of m_pMemObjWrite
             \* in it, m_dwReservedBytes and m_dwUsageBytes
  ioType,    \* m_dwIoType
  inFlight,  \* what WSASend was given and has not sent
  done,      \* the bytes of a completion no worker has dealt with yet
  wsabufs,   \* how many entries of wsabuf the last SendBuffer filled
  accepted, sent, lineBroken  \* as in SendPipe

chainVars == <<mh, ioType, inFlight, done, wsabufs, accepted, sent, lineBroken>>

Least(a, b) == IF a <= b THEN a ELSE b
Block == 1..MemObjNum

\* A memory object: what was written to it, and m_bReadPosition.
FreshBlock == [buf |-> <<>>, read |-> 0]
Unread(b)  == SubSeq(b.buf, b.read + 1, Len(b.buf))
Room(b)    == BlockSize - Len(b.buf)                  \* m_bReservedBytes
\* What the first n objects of a chain still hold.
Contents(chain) ==
  LET upTo[n \in 0..MemObjNum] == IF n = 0 THEN <<>> ELSE upTo[n - 1] \o Unread(chain[n])
  IN  upTo
Content(chain, n) == Contents(chain)[n]

\* InitializeMemory
EmptyHandle ==
  [chain |-> [j \in Block |-> FreshBlock], write |-> 1,
   reserved |-> BlockSize * MemObjNum, usage |-> 0]

ChainInit ==
  /\ mh = EmptyHandle
  /\ ioType = "wait" /\ inFlight = <<>> /\ done = 0 /\ wsabufs = 0
  /\ accepted = 0 /\ sent = <<>> /\ lineBroken = FALSE

Header(m)    == <<<<m, 1>>, <<m, 2>>>>
Body(m, len) == [k \in 1..len |-> <<m, k + 2>>]

-----------------------------------------------------------------------------
(* CWriteMemoryHandle.                                                     *)

\* Push: fill the object that was written last, then those after it.
PushBytes(h, bytes) ==
  LET len     == Len(bytes)
      first   == Room(h.chain[h.write])
      \* where the part for object j begins, and how long it is
      skip(j) == IF j = h.write THEN 0 ELSE first + (j - h.write - 1) * BlockSize
      part(j) == IF j < h.write THEN <<>>
                 ELSE SubSeq(bytes, skip(j) + 1, Least(len, skip(j) + Room(h.chain[j])))
      last    == {j \in h.write..MemObjNum : j = h.write \/ skip(j) < len}
  IN  IF len > h.reserved THEN h
      ELSE [chain    |-> [j \in Block |-> [h.chain[j] EXCEPT !.buf = @ \o part(j)]],
            write    |-> h.write + Cardinality(last) - 1,
            reserved |-> h.reserved - len,
            usage    |-> h.usage + len]

\* What OnWrite does but for m_pMemObjWrite: objects sent as a whole become the
\* last of the chain, and are empty; of the next one m_bReadPosition moves on.
Dropped(h, n) ==
  LET used  == Cardinality({j \in Block : Unread(h.chain[j]) # <<>>
                                          /\ Len(Content(h.chain, j)) <= n})
      rest  == n - Len(Content(h.chain, used))
      kept(j) == IF j <= MemObjNum - used THEN h.chain[j + used] ELSE FreshBlock
      \* what was ever written to the objects that are empty now
      freed == Len(Content([j \in Block |-> [h.chain[j] EXCEPT !.read = 0]], used))
  IN  [chain    |-> [[j \in Block |-> kept(j)] EXCEPT ![1].read = @ + rest],
       write    |-> h.write - used,
       reserved |-> h.reserved + freed,
       usage    |-> h.usage - n]

\* Faulty: only what was sent of an object is counted as free.
OnWriteCountsSent(h, n) ==
  LET d == Dropped(h, n)
  IN  [d EXCEPT !.write = IF d.usage = 0 THEN 1 ELSE @, !.reserved = h.reserved + n]

OnWrite(h, n) ==
  LET d == Dropped(h, n)
  IN  [d EXCEPT !.write = IF d.usage = 0 THEN 1 ELSE @]

-----------------------------------------------------------------------------
(* COverlappedSend.                                                        *)

\* The objects SendBuffer hands to WSASend: as many as it takes for what is used,
\* but no more than the maximum.
ObjectsFor(h) ==
  LET total == Least(h.usage, MaxTransfer)
  IN  CHOOSE n \in Block : /\ Len(Content(h.chain, n)) >= total
                           /\ \A k \in 1..(n - 1) : Len(Content(h.chain, k)) < total


\* SendBuffer on the chain h.  A send that fails leaves IO_TYPE_WRITE; a broken
\* connection is then on its way to be closed.
SendBuffer(h) ==
  /\ ioType' = "write"
  /\ wsabufs' = ObjectsFor(h)
  /\ \/ ~lineBroken /\ inFlight' = Content(h.chain, ObjectsFor(h))
     \/ (lineBroken \/ MayBlock) /\ inFlight' = <<>>

-----------------------------------------------------------------------------
(* The threads and the network.                                            *)

Fits(len) == mh.reserved > len + 2

\* Faulty: it sends whether or not a send is under way.
SendAtOnce(len) ==
  LET m == accepted + 1
      h == PushBytes(PushBytes(mh, Header(m)), Body(m, len))
  IN  /\ accepted < MaxMsgs /\ Fits(len)
      /\ accepted' = m /\ mh' = h
      /\ SendBuffer(h)
      /\ UNCHANGED <<done, sent, lineBroken>>

\* CConnection::Send by the main thread, where the message fits; else it returns
\* FALSE and has done nothing.
Send(len) ==
  LET m == accepted + 1
      h == PushBytes(PushBytes(mh, Header(m)), Body(m, len))
  IN  /\ accepted < MaxMsgs /\ Fits(len)
      /\ accepted' = m /\ mh' = h
      /\ IF ioType = "wait" THEN SendBuffer(h) ELSE UNCHANGED <<ioType, inFlight, wsabufs>>
      /\ UNCHANGED <<done, sent, lineBroken>>

\* The network sends some of it and says so.
Complete(n) ==
  /\ ~lineBroken /\ n \in 1..Len(inFlight)
  /\ sent' = sent \o SubSeq(inFlight, 1, n)
  /\ done' = n /\ inFlight' = <<>>
  /\ UNCHANGED <<mh, ioType, wsabufs, accepted, lineBroken>>

Break ==
  /\ ~lineBroken /\ lineBroken' = TRUE
  /\ UNCHANGED <<mh, ioType, inFlight, done, wsabufs, accepted, sent>>

\* Faulty: what is left waits for the next message.
WorkerWaits ==
  /\ done > 0
  /\ mh' = OnWrite(mh, done) /\ done' = 0
  /\ ioType' = "wait"
  /\ UNCHANGED <<inFlight, wsabufs, accepted, sent, lineBroken>>

\* The IO_TYPE_WRITE branch of ServerWorkerThread.
WorkerWrite ==
  LET h == OnWrite(mh, done)
  IN  /\ done > 0
      /\ mh' = h /\ done' = 0
      /\ IF h.usage > 0
           THEN SendBuffer(h)
           ELSE ioType' = "wait" /\ UNCHANGED <<inFlight, wsabufs>>
      /\ UNCHANGED <<accepted, sent, lineBroken>>

ChainNext ==
  \/ \E len \in MsgLength : Send(len)
  \/ \E n \in 1..Len(inFlight) : Complete(n)
  \/ WorkerWrite \/ Break

\* The network and the workers go on as long as the connection is not broken.
ChainFairness == WF_chainVars(\E n \in 1..Len(inFlight) : Complete(n)) /\ WF_chainVars(WorkerWrite)
ChainSpec == ChainInit /\ [][ChainNext]_chainVars /\ ChainFairness

-----------------------------------------------------------------------------
(* Properties.                                                             *)

ChainTypeOK ==
  /\ mh.chain \in [Block -> [buf : Seq((1..MaxMsgs) \X Nat), read : 0..BlockSize]]
  /\ \A j \in Block : mh.chain[j].read <= Len(mh.chain[j].buf) /\ Room(mh.chain[j]) >= 0
  /\ mh.write \in Block
  /\ ioType \in {"wait", "write"} /\ done \in Nat /\ wsabufs \in Nat /\ lineBroken \in BOOLEAN

\* The two counters of the handle agree with the chain: as many bytes are free as the
\* object m_pMemObjWrite and the empty ones after it can take, as many used as the chain
\* holds, so that PushBytes never runs off the end of the chain (write_memory_handle.cpp).
CountersAgree ==
  /\ mh.usage = Len(Content(mh.chain, MemObjNum))
  /\ \A j \in Block : j > mh.write => mh.chain[j] = FreshBlock
  /\ mh.reserved = Room(mh.chain[mh.write]) + (MemObjNum - mh.write) * BlockSize

\* What WSASend reads from stays as it is until the send is complete and its worker
\* has dropped it: one send at most is under way, and it is of the first bytes.
InFlightUntouched ==
  /\ inFlight = SubSeq(Content(mh.chain, MemObjNum), 1, Len(inFlight))
  /\ inFlight # <<>> => done = 0
  /\ done > 0 => SubSeq(sent, Len(sent) - done + 1, Len(sent))
                 = SubSeq(Content(mh.chain, MemObjNum), 1, done)

\* SendBuffer fills no more entries of wsabuf than there are: a partly sent first
\* object costs one more than the maximum transfer would need.
WsabufFits == wsabufs <= MaxWsabuf

\* The state of the chain: types, counters, the array of WSABUFs, and what is being sent.
ChainSound == ChainTypeOK /\ CountersAgree /\ WsabufFits /\ InFlightUntouched

\* What has been pushed and not sent.
Pending == SubSeq(Content(mh.chain, MemObjNum), done + 1, mh.usage)
Pipe == INSTANCE SendPipe WITH pending <- Pending, broken <- lineBroken

\* The connection is the pipe: the messages leave whole, in order, once, and as
\* long as it is not broken something leaves while anything waits.
IsPipe == Pipe!Spec
=============================================================================
