---------------------------- MODULE Connections ----------------------------
(***************************************************************************)
(* The connections of one CNetwork of 4DyuchiNET: how an accepted socket   *)
(* gets an index and a CConnection, how its reads go round between the     *)
(* completion port, the worker threads and the main thread, and how it is  *)
(* closed and its index and CConnection used again.                        *)
(*                                                                         *)
(* Everything on the way of a read (a completion, the packet a worker      *)
(* holds, a message in a queue) names its connection by the index alone.   *)
(* In the model it also carries the socket it came from, which the code    *)
(* has no means to ask.  A worker's work on a packet is two actions before *)
(* and after PushMsg, since the main thread runs meanwhile.  The two       *)
(* queues, the switch thread and full queues are in SwitchQue: here they   *)
(* are one queue the main thread takes as a whole.  The sending side is in *)
(* SendQueue, and left out here but for the DISCONNECT of a failing send.  *)
(*                                                                         *)
(* An operator whose comment begins with "Faulty" is a variant of the one  *)
(* after it that no action uses.                                           *)
(***************************************************************************)
EXTENDS Integers, Sequences, FiniteSets, SequencesExt

CONSTANTS MaxConnectionNum,  \* m_dwMaxConnectionNum
          Socket,            \* a bound: the sockets that come, each used once
          NoSocket,          \* INVALID_SOCKET
          Worker,            \* the worker threads
          MaxData,           \* a bound: the reads that bring data
          MaxPosts           \* a bound: the PostDisconnectEvents of the main thread

ASSUME ConnectionsAssumption ==
  /\ MaxConnectionNum \in Nat \ {0}
  /\ NoSocket \notin Socket
  /\ MaxData \in Nat /\ MaxPosts \in Nat

Index == 1..MaxConnectionNum
Con   == 1..MaxConnectionNum   \* the CConnections made so far, by number
None  == 0                     \* no index, no CConnection

VARIABLES
  sock,        \* the life of each socket, see SocketState
  broken,      \* the sockets whose peer or network has gone
  reads,       \* how many reads of a socket are pending
  data,        \* how many reads have brought data
  failed,      \* ghost: the sockets of which a read failed in a way no worker looks at
  preConnect,  \* m_pPreConnectProcessHead: accepted or connected, not yet given to the network
  freeIndex,   \* m_IC, the list from m_pBaseDesc to m_pTailDesc
  list,        \* m_pConnectionList[i].pConnection; status says the same
  con,         \* the CConnections: index, socket, and the index of their handle
  recycled,    \* m_pRecycledConnectionHead ... Tail
  made,        \* how many CConnections there are
  port,        \* the completion port
  wPc, job,    \* the worker threads and what each works on
  que,         \* the writable queue of messages
  main, batch, \* the main thread and what it still has to handle of its queue
  posts        \* how often the main thread posted a DISCONNECT

ioVars   == <<sock, broken, reads, data, failed>>
netVars  == <<preConnect, freeIndex, list, con, recycled, made>>
portVars == <<port, wPc, job, que>>
mainVars == <<main, batch, posts>>
vars == <<ioVars, netVars, portVars, mainVars>>

SocketState == {"future", "waiting", "refused", "open", "closed", "dropped"}
\* What is under way: "data" and "gone" are reads that finished, with bytes or with
\* none or ERROR_NETNAME_DELETED, "error" one that failed with another error, "post" is
\* a DISCONNECT somebody posted.  socket is where it came from.
Packet == [kind : {"data", "gone", "error", "post"}, index : Index, con : Con \cup {None},
           socket : Socket]
NoPacket == [kind |-> "none", index |-> None, con |-> None, socket |-> NoSocket]
FreshCon == [index |-> None, socket |-> NoSocket]

Init ==
  /\ sock = [s \in Socket |-> "future"] /\ broken = {}
  /\ reads = [s \in Socket |-> 0] /\ data = 0 /\ failed = {}
  /\ preConnect = <<>>
  /\ freeIndex = [i \in Index |-> i]
  /\ list = [i \in Index |-> None]
  /\ con = [o \in Con |-> FreshCon] /\ recycled = <<>> /\ made = 0
  /\ port = <<>> /\ que = <<>>
  /\ wPc = [w \in Worker |-> "idle"] /\ job = [w \in Worker |-> NoPacket]
  /\ main = "wait" /\ batch = <<>> /\ posts = 0

-----------------------------------------------------------------------------
(* The network and the accept thread.                                      *)

\* The name the next socket gets; they are alike, so one order of them is enough.
NextSocket == CHOOSE s \in Socket : sock[s] = "future"

\* InsertPreConnect; the pool is locked while the main thread goes through it.
InsertPreConnect(s, state) ==
  /\ sock[s] = "future" /\ s = NextSocket /\ main # "preConnect"
  /\ sock' = [sock EXCEPT ![s] = state]
  /\ preConnect' = Append(preConnect, s)
  /\ UNCHANGED <<broken, reads, data, failed, freeIndex, list, con, recycled, made>>
  /\ UNCHANGED <<portVars, mainVars>>

\* AcceptThread, or ConnectThread when its connect succeeds.
Accept(s) == InsertPreConnect(s, "waiting")

\* ConnectThread when its connect fails: the item has INVALID_SOCKET.
ConnectFails(s) == InsertPreConnect(s, "refused")

\* The CConnection a socket belongs to, and its index.
ConOf(s)   == CHOOSE o \in Con : con[o].socket = s
KeyOf(s)   == con[ConOf(s)].index
\* A finished read of s, as the port returns it: its key is the handle of s.
Finished(s, kind) == [kind |-> kind, index |-> KeyOf(s), con |-> ConOf(s), socket |-> s]

DataArrives(s) ==
  /\ sock[s] = "open" /\ s \notin broken /\ reads[s] > 0 /\ data < MaxData
  /\ reads' = [reads EXCEPT ![s] = @ - 1]
  /\ data' = data + 1
  /\ port' = Append(port, Finished(s, "data"))
  /\ UNCHANGED <<sock, broken, failed, netVars, wPc, job, que, mainVars>>

PeerGoes(s) ==
  /\ sock[s] = "open" /\ s \notin broken
  /\ broken' = broken \cup {s}
  /\ UNCHANGED <<sock, reads, data, failed, netVars, portVars, mainVars>>

\* The read of a broken connection finishes: with 0 bytes or ERROR_NETNAME_DELETED,
\* or with another error, a time-out for one.
ReadEnds(s) ==
  /\ sock[s] = "open" /\ s \in broken /\ reads[s] > 0
  /\ reads' = [reads EXCEPT ![s] = @ - 1]
  /\ \/ port' = Append(port, Finished(s, "gone")) /\ UNCHANGED failed
     \/ port' = Append(port, Finished(s, "error")) /\ failed' = failed \cup {s}
  /\ UNCHANGED <<sock, broken, data, netVars, wPc, job, que, mainVars>>

-----------------------------------------------------------------------------
(* A worker: ServerWorkerThread.                                           *)

\* GetQueuedCompletionStatus returns.
Dequeue(w) ==
  /\ wPc[w] = "idle" /\ port # <<>> /\ Head(port).kind # "error"
  /\ job' = [job EXCEPT ![w] = Head(port)]
  /\ wPc' = [wPc EXCEPT ![w] = "push"]
  /\ port' = Tail(port)
  /\ UNCHANGED <<ioVars, netVars, que, mainVars>>

\* It fails with another error than ERROR_NETNAME_DELETED: goto seg_lp, where the
\* worker waits for the next packet.
Ignore(w) ==
  /\ wPc[w] = "idle" /\ port # <<>> /\ Head(port).kind = "error"
  /\ port' = Tail(port)
  /\ UNCHANGED <<ioVars, netVars, wPc, job, que, mainVars>>

\* Faulty: a read of 0 bytes is ignored.
PushDataOnly(w) ==
  /\ wPc[w] = "push"
  /\ IF job[w].kind = "data"
       THEN que' = Append(que, job[w]) /\ wPc' = [wPc EXCEPT ![w] = "read"] /\ UNCHANGED job
       ELSE /\ wPc' = [wPc EXCEPT ![w] = "idle"] /\ job' = [job EXCEPT ![w] = NoPacket]
            /\ UNCHANGED que
  /\ UNCHANGED <<ioVars, netVars, port, mainVars>>

\* PushMsg: a read of 0 bytes becomes a DISCONNECT.
Push(w) ==
  /\ wPc[w] = "push"
  /\ que' = Append(que, job[w])
  /\ IF job[w].kind = "data"
       THEN wPc' = [wPc EXCEPT ![w] = "read"] /\ UNCHANGED job
       ELSE wPc' = [wPc EXCEPT ![w] = "idle"] /\ job' = [job EXCEPT ![w] = NoPacket]
  /\ UNCHANGED <<ioVars, netVars, port, mainVars>>

\* PostDisconnectEvent(m_dwHandle) for the connection o.
Posted(o, s) == [kind |-> "post", index |-> con[o].index, con |-> None, socket |-> s]

\* WSARecv on the socket o has now.  It fails where that is INVALID_SOCKET, since
\* the connection was closed meanwhile, and may fail where it is broken.
PrepareRead(o, from) ==
  LET s == con[o].socket
  IN  \/ /\ s # NoSocket
         /\ reads' = [reads EXCEPT ![s] = @ + 1] /\ UNCHANGED port
      \/ /\ s \in broken \cup {NoSocket}
         /\ port' = Append(port, Posted(o, IF s = NoSocket THEN from ELSE s))
         /\ UNCHANGED reads

\* Faulty: no read after one that brought data.
ReadOnce(w) ==
  /\ wPc[w] = "read"
  /\ wPc' = [wPc EXCEPT ![w] = "idle"] /\ job' = [job EXCEPT ![w] = NoPacket]
  /\ UNCHANGED <<ioVars, netVars, port, que, mainVars>>

\* The worker reads again, with the overlapped structure of its packet.
ReadAgain(w) ==
  /\ wPc[w] = "read"
  /\ PrepareRead(job[w].con, job[w].socket)
  /\ wPc' = [wPc EXCEPT ![w] = "idle"] /\ job' = [job EXCEPT ![w] = NoPacket]
  /\ UNCHANGED <<sock, broken, data, failed, netVars, que, mainVars>>

-----------------------------------------------------------------------------
(* The main thread: ProcessMsgThread.                                      *)

\* The pre-connect event: ProcessPreConnect takes m_csPreConnect.
BeginPreConnect ==
  /\ main = "wait" /\ preConnect # <<>>
  /\ main' = "preConnect"
  /\ UNCHANGED <<ioVars, netVars, portVars, batch, posts>>

EndPreConnect ==
  /\ main = "preConnect" /\ preConnect = <<>>
  /\ main' = "wait"
  /\ UNCHANGED <<ioVars, netVars, portVars, batch, posts>>

\* ICAllocIndex and ICFreeIndex: from the front, to the end.
AllocIndex == freeIndex' = Tail(freeIndex)
\* Faulty: a freed index is the next to be used.
FreeIndexInFront(i) == freeIndex' = <<i>> \o freeIndex
FreeIndex(i) == freeIndex' = Append(freeIndex, i)

\* The CConnection that waits longest, or a new one.
NextCon == IF recycled = <<>> THEN made + 1 ELSE Head(recycled)

\* AllocConnection
AllocConnection ==
  IF recycled = <<>> THEN made' = made + 1 /\ UNCHANGED recycled
                     ELSE recycled' = Tail(recycled) /\ UNCHANGED made

\* AddConnection, OnAccept or SuccessConnect, which are the caller's, and the first read.
AddConnection(s) ==
  LET i == Head(freeIndex)
      o == NextCon
  IN  /\ sock[s] = "waiting" /\ freeIndex # <<>>
      /\ AllocIndex /\ AllocConnection
      /\ con' = [con EXCEPT ![o] = [index |-> i, socket |-> s]]
      /\ list' = [list EXCEPT ![i] = o]
      /\ sock' = [sock EXCEPT ![s] = "open"]
      /\ reads' = [reads EXCEPT ![s] = @ + 1]

\* AddConnection without a free index: NULL, for which ProcessPreConnect has no
\* else.  The socket stays as it is and nobody knows it any more.
NoIndexLeft(s) ==
  /\ sock[s] = "waiting" /\ freeIndex = <<>>
  /\ sock' = [sock EXCEPT ![s] = "dropped"]
  /\ UNCHANGED <<freeIndex, recycled, made, con, list, reads>>

\* An item with INVALID_SOCKET: FailConnect, which is the caller's.
FailConnect(s) ==
  /\ sock[s] = "refused"
  /\ UNCHANGED <<sock, freeIndex, recycled, made, con, list, reads>>

PreConnect ==
  /\ main = "preConnect" /\ preConnect # <<>>
  /\ \/ AddConnection(Head(preConnect))
     \/ NoIndexLeft(Head(preConnect))
     \/ FailConnect(Head(preConnect))
  /\ preConnect' = Tail(preConnect)
  /\ UNCHANGED <<broken, data, failed, portVars, mainVars>>

\* CompulsiveDisconnect, which the handlers call, or SendBuffer on a connection
\* that fails: a DISCONNECT for what has the index now.
PostDisconnect(i) ==
  /\ list[i] # None /\ posts < MaxPosts
  /\ port' = Append(port, Posted(list[i], con[list[i]].socket))
  /\ posts' = posts + 1
  /\ UNCHANGED <<ioVars, netVars, wPc, job, que, main, batch>>

\* The switch thread has handed over what was received.
BeginBatch ==
  /\ main = "wait" /\ que # <<>>
  /\ main' = "batch" /\ batch' = que /\ que' = <<>>
  /\ UNCHANGED <<ioVars, netVars, port, wPc, job, posts>>

EndBatch ==
  /\ main = "batch" /\ batch = <<>>
  /\ main' = "wait"
  /\ UNCHANGED <<ioVars, netVars, portVars, batch, posts>>

\* Faulty: the index is not given back.
CloseAndKeepIndex(i) ==
  LET o == list[i]
      s == con[o].socket
  IN  /\ list' = [list EXCEPT ![i] = None]
      /\ con' = [con EXCEPT ![o].socket = NoSocket]
      /\ recycled' = Append(recycled, o)
      /\ sock' = [sock EXCEPT ![s] = "closed"]
      /\ reads' = [reads EXCEPT ![s] = 0]
      /\ UNCHANGED <<broken, data, failed, preConnect, made, freeIndex>>

\* OnDisconnect and CloseConnection.  closesocket ends the pending reads with
\* ERROR_OPERATION_ABORTED, which the workers ignore; the CConnection keeps its
\* handle until it is used again.
CloseConnection(i) ==
  LET o == list[i]
      s == con[o].socket
  IN  /\ list' = [list EXCEPT ![i] = None]
      /\ FreeIndex(i)
      /\ con' = [con EXCEPT ![o].socket = NoSocket]
      /\ recycled' = Append(recycled, o)
      /\ sock' = [sock EXCEPT ![s] = "closed"]
      /\ reads' = [reads EXCEPT ![s] = 0]
      /\ UNCHANGED <<broken, data, failed, preConnect, made>>

\* A message is handled: nothing is done for an index without a connection.
Handle ==
  /\ main = "batch" /\ batch # <<>>
  /\ LET m == Head(batch)
     IN  IF list[m.index] # None /\ m.kind # "data"
           THEN CloseConnection(m.index)
           ELSE UNCHANGED <<ioVars, netVars>>
  /\ batch' = Tail(batch)
  /\ UNCHANGED <<portVars, main, posts>>

-----------------------------------------------------------------------------
NetworkStep == \E s \in Socket : Accept(s) \/ ConnectFails(s) \/ DataArrives(s) \/ PeerGoes(s) \/ ReadEnds(s)
WorkerStep(w) == Dequeue(w) \/ Ignore(w) \/ Push(w) \/ ReadAgain(w)
MainStep ==
  \/ BeginPreConnect \/ PreConnect \/ EndPreConnect
  \/ BeginBatch \/ Handle \/ EndBatch
Next ==
  \/ NetworkStep \/ MainStep
  \/ \E w \in Worker : WorkerStep(w)
  \/ \E i \in Index : PostDisconnect(i)

\* Threads that can run do; a read of a broken connection ends at last.
Fairness ==
  /\ \A w \in Worker : WF_vars(WorkerStep(w))
  /\ WF_vars(MainStep)
  /\ \A s \in Socket : WF_vars(ReadEnds(s))

SafeSpec == Init /\ [][Next]_vars
Spec == SafeSpec /\ Fairness

-----------------------------------------------------------------------------
(* Properties.                                                             *)

Used == {i \in Index : list[i] # None}

TypeOK ==
  /\ sock \in [Socket -> SocketState] /\ broken \subseteq Socket
  /\ reads \in [Socket -> Nat] /\ data \in 0..MaxData /\ failed \subseteq Socket
  /\ preConnect \in Seq(Socket) /\ freeIndex \in Seq(Index)
  /\ list \in [Index -> Con \cup {None}]
  /\ con \in [Con -> [index : Index \cup {None}, socket : Socket \cup {NoSocket}]]
  /\ recycled \in Seq(Con) /\ made \in 0..MaxConnectionNum
  /\ port \in Seq(Packet) /\ que \in Seq(Packet) /\ batch \in Seq(Packet)
  /\ wPc \in [Worker -> {"idle", "push", "read"}]
  /\ job \in [Worker -> Packet \cup {NoPacket}]
  /\ main \in {"wait", "preConnect", "batch"} /\ posts \in Nat

\* Every index is free or has a connection, once: none is lost and none is given
\* to two, whatever DISCONNECTs arrive twice or late (create_index.cpp, network.cpp).
IndicesAccounted ==
  /\ IsInjective(freeIndex)
  /\ ToSet(freeIndex) = Index \ Used

\* Every CConnection made is in the list or waits to be used again, once.
ConsAccounted ==
  /\ IsInjective(recycled)
  /\ \A i, j \in Used : list[i] = list[j] => i = j
  /\ ToSet(recycled) \cap {list[i] : i \in Used} = {}
  /\ ToSet(recycled) \cup {list[i] : i \in Used} = 1..made

\* What the "int 3" of CloseConnection asserts: the connection in the list under an
\* index has that index, and the open sockets are exactly theirs, each one's own.
OwnIndex ==
  /\ \A i \in Used : con[list[i]].index = i
  /\ \A i, j \in Used : con[list[i]].socket = con[list[j]].socket => i = j
  /\ {con[list[i]].socket : i \in Used} = {s \in Socket : sock[s] = "open"}

\* Indices, CConnections and sockets together, with the types.
ResourcesSound == TypeOK /\ IndicesAccounted /\ ConsAccounted /\ OwnIndex

\* What is under way about socket s in the port, at the workers and in the queues.
UnderWay == ToSet(port) \cup {job[w] : w \in Worker} \cup ToSet(que) \cup ToSet(batch)
Reading(s) ==
  \/ reads[s] > 0
  \/ \E p \in ToSet(port) : p.socket = s /\ p.kind = "data"
  \/ \E w \in Worker : job[w].socket = s /\ job[w].kind = "data"
Leaving(s) == \E p \in UnderWay : p.socket = s /\ p.kind \in {"gone", "post"}

\* An open connection is heard as long as none of its reads fails with an error the
\* workers do not look at: a read is pending, or one has brought data and a worker will
\* read again, or its DISCONNECT is on its way.  Every other branch of the workers that
\* takes a packet ends in PrepareRead or a DISCONNECT, also when the CConnection has been
\* closed and used again meanwhile.
NeverDeaf == \A s \in Socket : sock[s] = "open" => Reading(s) \/ Leaving(s) \/ s \in failed

\* The message the main thread handles next was sent by, or is about, the
\* connection that has its index now.
ForItsOwn(m) == list[m.index] # None => con[list[m.index]].socket = m.socket
Next1 == IF main = "batch" /\ batch # <<>> THEN {Head(batch)} ELSE {}

\* As long as no more connections have been made than there are indices, no message
\* and no DISCONNECT reaches a connection it is not from, although CConnections are
\* recycled: an index that was freed is used after all the others (ICFreeIndex appends).
Opened == {s \in Socket : sock[s] \in {"open", "closed"}}
MessagesReachTheirOwn ==
  Cardinality(Opened) <= MaxConnectionNum => \A m \in Next1 : ForItsOwn(m)

\* A connection whose peer has gone is closed at last, and its index is free again, if
\* its read did not fail with an error the workers do not look at.
BrokenIsClosed ==
  \A s \in Socket : (s \in broken /\ sock[s] = "open") ~> (sock[s] = "closed" \/ s \in failed)
=============================================================================
