-------------------------- MODULE ConnectionsProofs --------------------------
(* What the bookkeeping of connections guarantees for any number of indices, *)
(* sockets and worker threads; and, at the end, what the sending side of one *)
(* (SendQueue) does, for messages, blocks and chains of any size.            *)
EXTENDS Connections, SendQueue, SequenceTheorems, FiniteSetTheorems, WellFoundedInduction, TLAPS

(***************************************************************************)
(* Lists without repetition.                                               *)
(***************************************************************************)

LEMMA AppendToList ==
  ASSUME NEW T, NEW q \in Seq(T), NEW e \in T
  PROVE  /\ Append(q, e) \in Seq(T)
         /\ ToSet(Append(q, e)) = ToSet(q) \cup {e}
         /\ IsInjective(q) /\ e \notin ToSet(q) => IsInjective(Append(q, e))
<1>1. Len(q) \in Nat /\ DOMAIN q = 1..Len(q)
  BY LenProperties
<1>2. /\ Append(q, e) \in Seq(T) /\ Len(Append(q, e)) = Len(q) + 1
      /\ \A i \in 1..Len(q) : Append(q, e)[i] = q[i]
      /\ Append(q, e)[Len(q) + 1] = e
  BY AppendProperties, <1>1
<1>3. DOMAIN Append(q, e) = 1..(Len(q) + 1)
  BY <1>2, LenProperties
<1>4. ToSet(Append(q, e)) = ToSet(q) \cup {e}
  BY <1>1, <1>2, <1>3 DEF ToSet
<1>5. IsInjective(q) /\ e \notin ToSet(q) => IsInjective(Append(q, e))
  BY <1>1, <1>2, <1>3 DEF ToSet, IsInjective
<1> QED BY <1>2, <1>4, <1>5

LEMMA ElementsOfList ==
  ASSUME NEW T, NEW q \in Seq(T)
  PROVE  ToSet(q) \subseteq T
BY LenProperties, ElementOfSeq DEF ToSet

LEMMA TailOfList ==
  ASSUME NEW T, NEW q \in Seq(T), q # <<>>
  PROVE  /\ Head(q) \in T /\ Tail(q) \in Seq(T)
         /\ ToSet(q) = {Head(q)} \cup ToSet(Tail(q))
         /\ IsInjective(q) => IsInjective(Tail(q)) /\ Head(q) \notin ToSet(Tail(q))
<1>1. Len(q) \in Nat \ {0} /\ DOMAIN q = 1..Len(q) /\ Head(q) = q[1]
  BY LenProperties, EmptySeq
<1>2. /\ Head(q) \in T /\ Tail(q) \in Seq(T) /\ Len(Tail(q)) = Len(q) - 1
      /\ \A i \in 1..(Len(q) - 1) : Tail(q)[i] = q[i + 1]
  BY HeadTailProperties
<1>3. DOMAIN Tail(q) = 1..(Len(q) - 1)
  BY <1>2, LenProperties
<1>4. ToSet(q) = {Head(q)} \cup ToSet(Tail(q))
  <2>1. ToSet(q) \subseteq {Head(q)} \cup ToSet(Tail(q))
    <3> SUFFICES ASSUME NEW i \in 1..Len(q), i # 1 PROVE q[i] \in ToSet(Tail(q))
      BY <1>1 DEF ToSet
    <3>1. i - 1 \in 1..(Len(q) - 1) /\ Tail(q)[i - 1] = q[i]
      BY <1>1, <1>2
    <3> QED BY <3>1, <1>1, <1>3 DEF ToSet
  <2>2. {Head(q)} \cup ToSet(Tail(q)) \subseteq ToSet(q)
    BY <1>1, <1>2, <1>3 DEF ToSet
  <2> QED BY <2>1, <2>2
<1>5. IsInjective(q) => IsInjective(Tail(q)) /\ Head(q) \notin ToSet(Tail(q))
  BY <1>1, <1>2, <1>3 DEF ToSet, IsInjective
<1> QED BY <1>2, <1>4, <1>5

(***************************************************************************)
(* The inductive invariant.  Beside the resources it says what is known of *)
(* sockets that wait, of CConnections that have no socket, and of whatever *)
(* is under way.                                                           *)
(***************************************************************************)

\* Whoever is in m_pPreConnectProcessHead is there once.
PreConnectSound ==
  /\ IsInjective(preConnect)
  /\ \A s \in ToSet(preConnect) : sock[s] \in {"waiting", "refused"}

\* A CConnection has had an index since it was made, and no socket while it waits.
ConsSound ==
  \A o \in Con : /\ o \in 1..made => con[o].index \in Index
                 /\ o \notin 1..made => con[o] = FreshCon
                 /\ o \in ToSet(recycled) => con[o].socket = NoSocket

WorkersSound ==
  \A w \in Worker : /\ wPc[w] = "idle" => job[w] = NoPacket
                    /\ wPc[w] # "idle" => job[w] \in Packet
                    /\ wPc[w] = "read" => job[w].kind = "data"

\* What is under way comes from a connection that is open, and then it names it by
\* its index, or that has been closed.
PacketSound(p) ==
  /\ sock[p.socket] \in {"open", "closed"}
  /\ p.kind = "data" => p.con \in 1..made
  /\ sock[p.socket] = "open" =>
       /\ list[p.index] # None
       /\ con[list[p.index]].socket = p.socket
       /\ p.kind = "data" => p.con = list[p.index]
Jobs == {job[w] : w \in {v \in Worker : wPc[v] # "idle"}}
Packets == ToSet(port) \cup Jobs \cup ToSet(que) \cup ToSet(batch)
PacketsSound == \A p \in Packets : PacketSound(p)

Net == IndicesAccounted /\ ConsAccounted /\ OwnIndex /\ ConsSound
Sound == TypeOK /\ Net /\ PreConnectSound /\ WorkersSound /\ PacketsSound

\* As long as indices are not used again: those never used are in front and above
\* all others, and nothing under way from a closed connection has an index in use.
NoneReused ==
  /\ Len(freeIndex) >= MaxConnectionNum - Cardinality(Opened)
  /\ \A j \in 1..(MaxConnectionNum - Cardinality(Opened)) : freeIndex[j] = Cardinality(Opened) + j
  /\ \A o \in 1..made : con[o].index <= Cardinality(Opened)
  /\ \A o \in ToSet(recycled) : list[con[o].index] = None
  /\ \A p \in Packets : /\ p.index <= Cardinality(Opened)
                        /\ sock[p.socket] = "closed" => list[p.index] = None
FirstUse == IsFiniteSet(Opened) /\ (Cardinality(Opened) <= MaxConnectionNum => NoneReused)

(***************************************************************************)
(* Facts about the state.                                                  *)
(***************************************************************************)

\* An open socket has one CConnection, which is in the list under its own index.
LEMMA OpenSocket ==
  ASSUME TypeOK, Net, NEW s \in Socket, sock[s] = "open"
  PROVE  /\ ConOf(s) \in 1..made /\ con[ConOf(s)].socket = s
         /\ KeyOf(s) \in Index /\ list[KeyOf(s)] = ConOf(s) /\ ConOf(s) # None
<1>1. PICK i \in Used : con[list[i]].socket = s
  BY DEF Net, OwnIndex
<1>2. list[i] \in Con
  BY <1>1 DEF Used, TypeOK, None
<1>3. ConOf(s) \in Con /\ con[ConOf(s)].socket = s
  BY <1>1, <1>2 DEF ConOf
<1>4. s # NoSocket
  BY ConnectionsAssumption
<1>5. ConOf(s) \in 1..made
  BY <1>3, <1>4 DEF Net, ConsSound, FreshCon
<1>6. ConOf(s) \notin ToSet(recycled)
  BY <1>3, <1>4 DEF Net, ConsSound
<1>7. PICK j \in Used : list[j] = ConOf(s)
  BY <1>5, <1>6 DEF Net, ConsAccounted
<1>8. con[list[j]].index = j /\ j \in Index
  BY <1>7 DEF Net, OwnIndex, Used
<1> QED BY <1>3, <1>5, <1>7, <1>8 DEF KeyOf, None, Con

\* The connection that has an index has a socket, which is open.
LEMMA UsedIndex ==
  ASSUME TypeOK, Net, NEW i \in Index, list[i] # None
  PROVE  /\ list[i] \in 1..made /\ list[i] \in Con /\ con[list[i]].index = i
         /\ con[list[i]].socket \in Socket /\ sock[con[list[i]].socket] = "open"
<1>1. i \in Used /\ list[i] \in Con
  BY DEF Used, TypeOK
<1> QED BY <1>1 DEF Net, OwnIndex, ConsAccounted

\* While an index is free a CConnection is left or may be made.
LEMMA ConIsLeft ==
  ASSUME TypeOK, Net, freeIndex # <<>>, recycled = <<>>
  PROVE  made + 1 \in Con
<1> DEFINE f == [i \in Used |-> list[i]]
           e == Head(freeIndex)
<1>1. made \in Nat /\ MaxConnectionNum \in Nat \ {0}
  BY ConnectionsAssumption DEF TypeOK
<1>2. ToSet(recycled) = {}
  BY DEF ToSet
<1>3. {list[i] : i \in Used} = 1..made
  BY <1>2 DEF Net, ConsAccounted
<1>4. f \in Surjection(Used, 1..made)
  <2>1. f \in [Used -> 1..made]
    BY <1>3
  <2>2. \A t \in 1..made : \E i \in Used : f[i] = t
    BY <1>3
  <2> QED BY <2>1, <2>2 DEF Surjection
<1>5. e \in Index /\ e \in ToSet(freeIndex)
  BY TailOfList DEF TypeOK
<1>6. Used \subseteq Index \ {e}
  BY <1>5 DEF Net, IndicesAccounted, Used
<1>7. IsFiniteSet(Index) /\ Cardinality(Index) = MaxConnectionNum
  BY <1>1, FS_Interval DEF Index
<1>8. IsFiniteSet(Index \ {e}) /\ Cardinality(Index \ {e}) = MaxConnectionNum - 1
  BY <1>5, <1>7, FS_RemoveElement
<1>9. IsFiniteSet(Used) /\ Cardinality(Used) <= MaxConnectionNum - 1
  BY <1>6, <1>8, FS_Subset
<1>10. Cardinality(1..made) <= Cardinality(Used)
  BY <1>4, <1>9, FS_Surjection
<1>11. Cardinality(1..made) = made
  BY <1>1, FS_Interval
<1>12. Cardinality(Used) \in Nat
  BY <1>9, FS_CardinalityType
<1> QED BY <1>1, <1>9, <1>10, <1>11, <1>12 DEF Con

(***************************************************************************)
(* Steps that leave the connections as they are.                           *)
(***************************************************************************)

\* A packet may be new about a connection that is open, or be the DISCONNECT of a read
\* that failed because its connection has been closed.
NewPacket(p) ==
  /\ p \in Packet /\ PacketSound(p)
  /\ sock[p.socket] = "open" \/ \E o \in ToSet(recycled) : con[o].index = p.index
OldOrNew == \A p \in Packets' : p \in Packets \/ NewPacket(p)
Quiet == UNCHANGED <<sock, netVars>> /\ OldOrNew

LEMMA QuietSound ==
  ASSUME Sound, Quiet, TypeOK', WorkersSound'
  PROVE  Sound'
<1>1. Net'
  BY DEF Sound, Net, Quiet, IndicesAccounted, ConsAccounted, OwnIndex, ConsSound, Used, netVars
<1>2. PreConnectSound'
  BY DEF Sound, PreConnectSound, Quiet, netVars
<1>3. PacketsSound'
  <2> SUFFICES ASSUME NEW p \in Packets' PROVE PacketSound(p)'
    BY DEF PacketsSound
  <2>1. PacketSound(p)
    BY DEF Sound, PacketsSound, Quiet, OldOrNew, NewPacket
  <2> QED BY <2>1 DEF PacketSound, Quiet, netVars
<1> QED BY <1>1, <1>2, <1>3 DEF Sound

LEMMA QuietFirstUse ==
  ASSUME Sound, Quiet, FirstUse
  PROVE  FirstUse'
<1>1. Opened' = Opened
  BY DEF Opened, Quiet
<1>2. IsFiniteSet(Opened)'
  BY <1>1 DEF FirstUse
<1> SUFFICES ASSUME (Cardinality(Opened) <= MaxConnectionNum)' PROVE NoneReused'
  BY <1>2 DEF FirstUse
<1>3. NoneReused
  BY <1>1 DEF FirstUse
<1>4. ASSUME NEW p \in Packets'
      PROVE  p.index <= Cardinality(Opened) /\ (sock[p.socket] = "closed" => list[p.index] = None)
  <2>1. CASE p \in Packets
    BY <2>1, <1>3 DEF NoneReused
  <2>2. CASE NewPacket(p) /\ sock[p.socket] = "open"
    <3>1. p.index \in Index /\ list[p.index] # None
      BY <2>2 DEF NewPacket, PacketSound, Packet
    <3>2. list[p.index] \in 1..made /\ con[list[p.index]].index = p.index
      BY <3>1, UsedIndex DEF Sound
    <3> QED BY <3>2, <2>2, <1>3 DEF NoneReused
  <2>3. CASE NewPacket(p) /\ \E o \in ToSet(recycled) : con[o].index = p.index
    <3>1. PICK o \in ToSet(recycled) : con[o].index = p.index
      BY <2>3
    <3>2. o \in 1..made
      BY <3>1 DEF Sound, Net, ConsAccounted
    <3> QED BY <3>1, <3>2, <1>3 DEF NoneReused
  <2> QED BY <2>1, <2>2, <2>3 DEF Quiet, OldOrNew, NewPacket
<1> QED BY <1>1, <1>3, <1>4 DEF NoneReused, Quiet, netVars

\* The bookkeeping of the workers when w takes, gives away or keeps its packet.
LEMMA JobsOf ==
  ASSUME TypeOK, NEW w \in Worker, NEW p, NEW q \in {"idle", "push", "read"},
         job' = [job EXCEPT ![w] = p], wPc' = [wPc EXCEPT ![w] = q]
  PROVE  /\ q = "idle" => Jobs' \subseteq Jobs
         /\ Jobs' \subseteq Jobs \cup {p}
BY DEF TypeOK, Jobs

LEMMA JobsSame ==
  ASSUME UNCHANGED <<wPc, job>>
  PROVE  Jobs' = Jobs
BY DEF Jobs

\* What a read of an open socket brings is a new packet.
LEMMA FinishedIsNew ==
  ASSUME Sound, NEW s \in Socket, sock[s] = "open", NEW k \in {"data", "gone", "error"}
  PROVE  NewPacket(Finished(s, k))
<1>1. /\ ConOf(s) \in 1..made /\ con[ConOf(s)].socket = s
      /\ KeyOf(s) \in Index /\ list[KeyOf(s)] = ConOf(s) /\ ConOf(s) # None
  BY OpenSocket DEF Sound
<1>2. ConOf(s) \in Con
  BY <1>1 DEF Sound, TypeOK, Con
<1> QED BY <1>1, <1>2 DEF NewPacket, PacketSound, Finished, Packet

\* So is a DISCONNECT that is posted for the connection of an index.
LEMMA PostedIsNew ==
  ASSUME Sound, NEW i \in Index, list[i] # None
  PROVE  NewPacket(Posted(list[i], con[list[i]].socket))
<1>1. /\ list[i] \in 1..made /\ list[i] \in Con /\ con[list[i]].index = i
      /\ con[list[i]].socket \in Socket /\ sock[con[list[i]].socket] = "open"
  BY UsedIndex DEF Sound
<1> QED BY <1>1 DEF NewPacket, PacketSound, Posted, Packet

LEMMA ReadQuiet ==
  ASSUME Sound, NEW s \in Socket, DataArrives(s) \/ PeerGoes(s) \/ ReadEnds(s)
  PROVE  TypeOK' /\ WorkersSound' /\ Quiet
<1>1. UNCHANGED <<sock, netVars, wPc, job, que, mainVars>>
  BY DEF DataArrives, PeerGoes, ReadEnds, netVars, portVars
<1>2. WorkersSound' /\ Jobs' = Jobs
  BY <1>1, JobsSame DEF Sound, WorkersSound
<1>3. \/ UNCHANGED port
      \/ \E k \in {"data", "gone", "error"} : sock[s] = "open" /\ port' = Append(port, Finished(s, k))
  BY DEF DataArrives, PeerGoes, ReadEnds, portVars
<1>4. port' \in Seq(Packet) /\ \A p \in ToSet(port') : p \in ToSet(port) \/ NewPacket(p)
  <2>1. port \in Seq(Packet)
    BY DEF Sound, TypeOK
  <2>2. CASE UNCHANGED port
    BY <2>1, <2>2
  <2>3. CASE \E k \in {"data", "gone", "error"} : sock[s] = "open" /\ port' = Append(port, Finished(s, k))
    <3>1. PICK k \in {"data", "gone", "error"} : sock[s] = "open" /\ port' = Append(port, Finished(s, k))
      BY <2>3
    <3>2. NewPacket(Finished(s, k))
      BY <3>1, FinishedIsNew
    <3>3. Finished(s, k) \in Packet
      BY <3>2 DEF NewPacket
    <3> QED BY <2>1, <3>1, <3>2, <3>3, AppendToList
  <2> QED BY <1>3, <2>2, <2>3
<1>5. Quiet
  BY <1>1, <1>2, <1>4 DEF Quiet, OldOrNew, Packets, mainVars
<1>6. broken' \subseteq Socket /\ failed' \subseteq Socket /\ reads' \in [Socket -> Nat] /\ data' \in 0..MaxData
  <2>1. /\ broken \subseteq Socket /\ failed \subseteq Socket
        /\ reads \in [Socket -> Nat] /\ data \in 0..MaxData /\ MaxData \in Nat
    BY ConnectionsAssumption DEF Sound, TypeOK
  <2>2. CASE DataArrives(s)
    BY <2>1, <2>2 DEF DataArrives
  <2>3. CASE PeerGoes(s)
    BY <2>1, <2>3 DEF PeerGoes
  <2>4. CASE ReadEnds(s)
    BY <2>1, <2>4 DEF ReadEnds
  <2> QED BY <2>2, <2>3, <2>4
<1>7. TypeOK'
  BY <1>1, <1>4, <1>6 DEF Sound, TypeOK, netVars, mainVars
<1> QED BY <1>2, <1>5, <1>7

LEMMA DequeueQuiet ==
  ASSUME Sound, NEW w \in Worker, Dequeue(w)
  PROVE  TypeOK' /\ WorkersSound' /\ Quiet
<1>1. /\ UNCHANGED <<sock, broken, reads, data, failed, netVars, que, mainVars>>
      /\ job' = [job EXCEPT ![w] = Head(port)] /\ wPc' = [wPc EXCEPT ![w] = "push"]
      /\ port # <<>> /\ port' = Tail(port)
  BY DEF Dequeue, ioVars
<1>2. /\ Head(port) \in Packet /\ port' \in Seq(Packet)
      /\ ToSet(port) = {Head(port)} \cup ToSet(port')
  BY <1>1, TailOfList DEF Sound, TypeOK
<1>3. Jobs' \subseteq Jobs \cup {Head(port)}
  BY <1>1, JobsOf DEF Sound
<1>4. WorkersSound'
  BY <1>1, <1>2 DEF Sound, WorkersSound, TypeOK
<1>5. Quiet
  BY <1>1, <1>2, <1>3 DEF Quiet, OldOrNew, Packets, mainVars
<1>6. job' \in [Worker -> Packet \cup {NoPacket}] /\ wPc' \in [Worker -> {"idle", "push", "read"}]
  BY <1>1, <1>2 DEF Sound, TypeOK
<1>7. TypeOK'
  BY <1>1, <1>2, <1>6 DEF Sound, TypeOK, netVars, mainVars
<1> QED BY <1>4, <1>5, <1>7

LEMMA IgnoreQuiet ==
  ASSUME Sound, NEW w \in Worker, Ignore(w)
  PROVE  TypeOK' /\ WorkersSound' /\ Quiet
<1>1. UNCHANGED <<ioVars, netVars, wPc, job, que, mainVars>> /\ port # <<>> /\ port' = Tail(port)
  BY DEF Ignore
<1>2. port' \in Seq(Packet) /\ ToSet(port') \subseteq ToSet(port)
  BY <1>1, TailOfList DEF Sound, TypeOK
<1>3. WorkersSound' /\ Jobs' = Jobs
  BY <1>1, JobsSame DEF Sound, WorkersSound
<1>4. Quiet
  BY <1>1, <1>2, <1>3 DEF Quiet, OldOrNew, Packets, ioVars, mainVars
<1>5. TypeOK'
  BY <1>1, <1>2 DEF Sound, TypeOK, ioVars, netVars, mainVars
<1> QED BY <1>3, <1>4, <1>5

LEMMA PushQuiet ==
  ASSUME Sound, NEW w \in Worker, Push(w)
  PROVE  TypeOK' /\ WorkersSound' /\ Quiet
<1>1. /\ UNCHANGED <<sock, broken, reads, data, failed, netVars, port, mainVars>>
      /\ que' = Append(que, job[w]) /\ wPc[w] = "push"
      /\ \/ job[w].kind = "data" /\ wPc' = [wPc EXCEPT ![w] = "read"] /\ UNCHANGED job
         \/ wPc' = [wPc EXCEPT ![w] = "idle"] /\ job' = [job EXCEPT ![w] = NoPacket]
  BY DEF Push, ioVars
<1>2. job[w] \in Packet /\ job[w] \in Jobs
  BY <1>1 DEF Sound, WorkersSound, Jobs
<1>3. que' \in Seq(Packet) /\ ToSet(que') = ToSet(que) \cup {job[w]}
  BY <1>1, <1>2, AppendToList DEF Sound, TypeOK
<1>4. Jobs' \subseteq Jobs
  BY <1>1, <1>2 DEF Sound, TypeOK, Jobs
<1>5. WorkersSound'
  BY <1>1, <1>2 DEF Sound, WorkersSound, TypeOK
<1>6. Quiet
  BY <1>1, <1>2, <1>3, <1>4 DEF Quiet, OldOrNew, Packets, mainVars
<1>7. job' \in [Worker -> Packet \cup {NoPacket}] /\ wPc' \in [Worker -> {"idle", "push", "read"}]
  BY <1>1 DEF Sound, TypeOK
<1>8. TypeOK'
  BY <1>1, <1>3, <1>7 DEF Sound, TypeOK, netVars, mainVars
<1> QED BY <1>5, <1>6, <1>8

\* What a worker posts when it cannot read again.
LEMMA FailedReadIsNew ==
  ASSUME Sound, NEW w \in Worker, wPc[w] = "read", NEW s, s = con[job[w].con].socket
  PROVE  /\ s \in Socket \cup {NoSocket}
         /\ NewPacket(Posted(job[w].con, IF s = NoSocket THEN job[w].socket ELSE s))
<1> DEFINE o == job[w].con
           from == job[w].socket
<1>1. job[w] \in Packet /\ PacketSound(job[w]) /\ job[w].kind = "data"
  BY DEF Sound, WorkersSound, PacketsSound, Packets, Jobs
<1>2. o \in 1..made /\ o \in Con /\ from \in Socket
  <2>1. o \in 1..made /\ from \in Socket
    BY <1>1 DEF PacketSound, Packet
  <2>2. made \in 0..MaxConnectionNum /\ MaxConnectionNum \in Nat
    BY ConnectionsAssumption DEF Sound, TypeOK
  <2> QED BY <2>1, <2>2 DEF Con
<1>3. con[o].index \in Index /\ s \in Socket \cup {NoSocket}
  BY <1>2 DEF Sound, Net, ConsSound, TypeOK
<1>4. CASE o \in ToSet(recycled)
  <2>1. s = NoSocket
    BY <1>2, <1>4 DEF Sound, Net, ConsSound
  <2>2. sock[from] = "closed"
    BY <1>1, <2>1, ConnectionsAssumption, <1>2 DEF PacketSound
  <2> QED BY <1>2, <1>3, <1>4, <2>1, <2>2 DEF NewPacket, PacketSound, Posted, Packet
<1>5. CASE o \notin ToSet(recycled)
  <2>1. PICK i \in Used : list[i] = o
    BY <1>2, <1>5 DEF Sound, Net, ConsAccounted
  <2>2. i \in Index /\ list[i] # None
    BY <2>1 DEF Used
  <2>3. NewPacket(Posted(o, s)) /\ s \in Socket
    BY <2>1, <2>2, PostedIsNew, UsedIndex DEF Sound
  <2> QED BY <2>3, ConnectionsAssumption
<1> QED BY <1>3, <1>4, <1>5

LEMMA ReadAgainQuiet ==
  ASSUME Sound, NEW w \in Worker, ReadAgain(w)
  PROVE  TypeOK' /\ WorkersSound' /\ Quiet
<1> DEFINE s == con[job[w].con].socket
           p == Posted(job[w].con, IF s = NoSocket THEN job[w].socket ELSE s)
<1>1. /\ UNCHANGED <<sock, broken, data, failed, netVars, que, mainVars>> /\ wPc[w] = "read"
      /\ wPc' = [wPc EXCEPT ![w] = "idle"] /\ job' = [job EXCEPT ![w] = NoPacket]
      /\ \/ s # NoSocket /\ reads' = [reads EXCEPT ![s] = @ + 1] /\ UNCHANGED port
         \/ port' = Append(port, p) /\ UNCHANGED reads
  BY DEF ReadAgain, PrepareRead
<1>2. s \in Socket \cup {NoSocket} /\ NewPacket(p)
  BY <1>1, FailedReadIsNew
<1>3. p \in Packet
  BY <1>2 DEF NewPacket
<1>4. port' \in Seq(Packet) /\ ToSet(port') \subseteq ToSet(port) \cup {p}
  <2>1. port \in Seq(Packet)
    BY DEF Sound, TypeOK
  <2>2. Append(port, p) \in Seq(Packet) /\ ToSet(Append(port, p)) = ToSet(port) \cup {p}
    BY <2>1, <1>3, AppendToList
  <2> HIDE DEF p
  <2> QED BY <1>1, <2>1, <2>2
<1>5. reads' \in [Socket -> Nat]
  BY <1>1, <1>2 DEF Sound, TypeOK
<1>6. Jobs' \subseteq Jobs
  BY <1>1, JobsOf DEF Sound
<1>7. WorkersSound'
  BY <1>1 DEF Sound, WorkersSound, TypeOK
<1>8. Quiet
  BY <1>1, <1>2, <1>4, <1>6 DEF Quiet, OldOrNew, Packets, mainVars
<1>9. job' \in [Worker -> Packet \cup {NoPacket}] /\ wPc' \in [Worker -> {"idle", "push", "read"}]
  BY <1>1 DEF Sound, TypeOK
<1>10. TypeOK'
  BY <1>1, <1>4, <1>5, <1>9 DEF Sound, TypeOK, netVars, mainVars
<1> QED BY <1>7, <1>8, <1>10

LEMMA PostQuiet ==
  ASSUME Sound, NEW i \in Index, PostDisconnect(i)
  PROVE  TypeOK' /\ WorkersSound' /\ Quiet
<1> DEFINE p == Posted(list[i], con[list[i]].socket)
<1>1. /\ UNCHANGED <<sock, broken, reads, data, failed, netVars, wPc, job, que, main, batch>>
      /\ list[i] # None /\ port' = Append(port, p) /\ posts' = posts + 1
  BY DEF PostDisconnect, ioVars
<1>2. NewPacket(p)
  BY <1>1, PostedIsNew
<1>3. port \in Seq(Packet) /\ p \in Packet
  BY <1>2 DEF NewPacket, Sound, TypeOK
<1>4. port' \in Seq(Packet) /\ ToSet(port') = ToSet(port) \cup {p}
  BY <1>1, <1>3, AppendToList
<1>5. WorkersSound' /\ Jobs' = Jobs
  BY <1>1, JobsSame DEF Sound, WorkersSound
<1>6. Quiet
  BY <1>1, <1>2, <1>4, <1>5 DEF Quiet, OldOrNew, Packets
<1>7. TypeOK'
  BY <1>1, <1>4 DEF Sound, TypeOK, netVars
<1> QED BY <1>5, <1>6, <1>7

\* The main thread turns to the accepted sockets or to a batch, or back.
LEMMA TurnQuiet ==
  ASSUME Sound, BeginPreConnect \/ EndPreConnect \/ BeginBatch \/ EndBatch
  PROVE  TypeOK' /\ WorkersSound' /\ Quiet
<1>1. UNCHANGED <<sock, broken, reads, data, failed, netVars, port, wPc, job, posts>>
  BY DEF BeginPreConnect, EndPreConnect, BeginBatch, EndBatch, ioVars, portVars
<1>2. \/ UNCHANGED <<que, batch>>
      \/ batch' = que /\ que' = <<>>
  BY DEF BeginPreConnect, EndPreConnect, BeginBatch, EndBatch, portVars
<1>3. que' \in Seq(Packet) /\ batch' \in Seq(Packet) /\ main' \in {"wait", "preConnect", "batch"}
  <2>1. que \in Seq(Packet) /\ batch \in Seq(Packet)
    BY DEF Sound, TypeOK
  <2>2. que' \in Seq(Packet) /\ batch' \in Seq(Packet)
    BY <1>2, <2>1, EmptySeq
  <2>3. main' \in {"wait", "preConnect", "batch"}
    BY DEF BeginPreConnect, EndPreConnect, BeginBatch, EndBatch
  <2> QED BY <2>2, <2>3
<1>4. ToSet(que') \cup ToSet(batch') \subseteq ToSet(que) \cup ToSet(batch)
  BY <1>2 DEF ToSet
<1>5. WorkersSound' /\ Jobs' = Jobs
  BY <1>1, JobsSame DEF Sound, WorkersSound
<1>6. Quiet
  BY <1>1, <1>4, <1>5 DEF Quiet, OldOrNew, Packets
<1>7. TypeOK'
  BY <1>1, <1>3 DEF Sound, TypeOK, netVars
<1> QED BY <1>5, <1>6, <1>7

\* A message that closes nothing.
LEMMA DropQuiet ==
  ASSUME Sound, batch # <<>>, batch' = Tail(batch),
         UNCHANGED <<ioVars, netVars, portVars, main, posts>>
  PROVE  TypeOK' /\ WorkersSound' /\ Quiet
<1>1. batch' \in Seq(Packet) /\ ToSet(batch') \subseteq ToSet(batch)
  BY TailOfList DEF Sound, TypeOK
<1>2. WorkersSound' /\ Jobs' = Jobs
  BY JobsSame DEF Sound, WorkersSound, portVars
<1>3. Quiet
  BY <1>1, <1>2 DEF Quiet, OldOrNew, Packets, ioVars, portVars
<1>4. TypeOK'
  BY <1>1 DEF Sound, TypeOK, ioVars, netVars, portVars
<1> QED BY <1>2, <1>3, <1>4

LEMMA StutterQuiet ==
  ASSUME Sound, UNCHANGED vars
  PROVE  TypeOK' /\ WorkersSound' /\ Quiet
<1>1. WorkersSound' /\ Jobs' = Jobs
  BY JobsSame DEF Sound, WorkersSound, vars, portVars
<1>2. Quiet
  BY <1>1 DEF Quiet, OldOrNew, Packets, vars, ioVars, portVars, mainVars
<1>3. TypeOK'
  BY DEF Sound, TypeOK, vars, ioVars, netVars, portVars, mainVars
<1> QED BY <1>1, <1>2, <1>3

(***************************************************************************)
(* Steps that change the connections.                                      *)
(***************************************************************************)

\* What is under way stays as sound as it was when nothing of it is about a socket
\* whose connection changes.
LEMMA SamePackets ==
  ASSUME UNCHANGED <<port, wPc, job, que>>, ToSet(batch') \subseteq ToSet(batch)
  PROVE  Packets' \subseteq Packets
BY JobsSame DEF Packets

LEMMA PacketsTyped ==
  ASSUME Sound, NEW p \in Packets
  PROVE  PacketSound(p) /\ p \in Packet
<1>1. p \in ToSet(port) \cup ToSet(que) \cup ToSet(batch) => p \in Packet
  BY ElementsOfList DEF Sound, TypeOK
<1>2. p \in Jobs => p \in Packet
  BY DEF Jobs, Sound, WorkersSound
<1> QED BY <1>1, <1>2 DEF Packets, Sound, PacketsSound

LEMMA InsertSound ==
  ASSUME Sound, NEW s \in Socket, NEW new \in {"waiting", "refused"}, InsertPreConnect(s, new)
  PROVE  Sound'
<1>1. /\ UNCHANGED <<broken, reads, data, failed, freeIndex, list, con, recycled, made, portVars, mainVars>>
      /\ sock[s] = "future" /\ sock' = [sock EXCEPT ![s] = new]
      /\ preConnect' = Append(preConnect, s)
  BY DEF InsertPreConnect
<1>2. \A t \in Socket : sock'[t] = IF t = s THEN new ELSE sock[t]
  BY <1>1 DEF Sound, TypeOK
<1>3. s \notin ToSet(preConnect)
  BY <1>1 DEF Sound, PreConnectSound
<1>4. /\ preConnect' \in Seq(Socket) /\ IsInjective(preConnect')
      /\ ToSet(preConnect') = ToSet(preConnect) \cup {s}
  BY <1>1, <1>3, AppendToList DEF Sound, TypeOK, PreConnectSound
<1>5. sock' \in [Socket -> SocketState]
  BY <1>1 DEF Sound, TypeOK, SocketState
<1>6. TypeOK'
  BY <1>1, <1>4, <1>5 DEF Sound, TypeOK, portVars, mainVars
<1>7. PreConnectSound'
  <2>1. ToSet(preConnect) \subseteq Socket
    BY ElementsOfList DEF Sound, TypeOK
  <2> QED BY <1>2, <1>4, <2>1 DEF Sound, PreConnectSound
<1>8. {t \in Socket : sock'[t] = "open"} = {t \in Socket : sock[t] = "open"}
  BY <1>1, <1>2
<1>9. Net'
  BY <1>1, <1>8 DEF Sound, Net, IndicesAccounted, ConsAccounted, OwnIndex, ConsSound, Used
<1>10. WorkersSound'
  BY <1>1 DEF Sound, WorkersSound, portVars
<1>11. PacketsSound'
  <2> SUFFICES ASSUME NEW p \in Packets PROVE PacketSound(p)'
    BY <1>1, SamePackets DEF PacketsSound, portVars, mainVars
  <2>1. PacketSound(p)
    BY DEF Sound, PacketsSound
  <2>2. sock[p.socket] # "future"
    BY <2>1 DEF PacketSound
  <2>3. sock'[p.socket] = sock[p.socket]
    BY <1>1, <2>2 DEF Sound, TypeOK
  <2> QED BY <1>1, <2>1, <2>3 DEF PacketSound
<1> QED BY <1>6, <1>7, <1>9, <1>10, <1>11 DEF Sound

LEMMA DroppedSound ==
  ASSUME Sound, PreConnect, NoIndexLeft(Head(preConnect)) \/ FailConnect(Head(preConnect))
  PROVE  Sound'
<1> DEFINE s == Head(preConnect)
<1>1. /\ UNCHANGED <<broken, reads, data, failed, freeIndex, list, con, recycled, made, portVars, mainVars>>
      /\ sock' = [sock EXCEPT ![s] = "dropped"] \/ sock' = sock
      /\ preConnect # <<>> /\ preConnect' = Tail(preConnect)
  BY DEF PreConnect, NoIndexLeft, FailConnect
<1>2. /\ s \in Socket /\ preConnect' \in Seq(Socket) /\ IsInjective(preConnect')
      /\ ToSet(preConnect) = {s} \cup ToSet(preConnect') /\ s \notin ToSet(preConnect')
  BY <1>1, TailOfList DEF Sound, TypeOK, PreConnectSound
<1> HIDE DEF s
<1>3. sock[s] \in {"waiting", "refused"}
  BY <1>2 DEF Sound, PreConnectSound
<1>4. \A t \in Socket : sock'[t] = sock[t] \/ (t = s /\ sock'[t] = "dropped")
  BY <1>1 DEF Sound, TypeOK
<1>5. sock' \in [Socket -> SocketState]
  BY <1>1 DEF Sound, TypeOK, SocketState
<1>6. TypeOK'
  BY <1>1, <1>2, <1>5 DEF Sound, TypeOK, portVars, mainVars
<1>7. PreConnectSound'
  <2>1. ToSet(preConnect') \subseteq Socket
    BY <1>2, ElementsOfList
  <2> QED BY <1>2, <1>4, <2>1 DEF Sound, PreConnectSound
<1>8. {t \in Socket : sock'[t] = "open"} = {t \in Socket : sock[t] = "open"}
  BY <1>3, <1>4
<1>9. Net'
  BY <1>1, <1>8 DEF Sound, Net, IndicesAccounted, ConsAccounted, OwnIndex, ConsSound, Used
<1>10. WorkersSound'
  BY <1>1 DEF Sound, WorkersSound, portVars
<1>11. PacketsSound'
  <2> SUFFICES ASSUME NEW p \in Packets PROVE PacketSound(p)'
    BY <1>1, SamePackets DEF PacketsSound, portVars, mainVars
  <2>1. PacketSound(p) /\ p \in Packet
    BY PacketsTyped
  <2>2. p.socket \in Socket /\ sock[p.socket] \in {"open", "closed"}
    BY <2>1 DEF PacketSound, Packet
  <2>3. sock'[p.socket] = sock[p.socket]
    BY <1>3, <1>4, <2>2
  <2> QED BY <1>1, <2>1, <2>3 DEF PacketSound
<1> QED BY <1>6, <1>7, <1>9, <1>10, <1>11 DEF Sound

\* The CConnection that a new connection gets has no other.
LEMMA NextConIsFree ==
  ASSUME TypeOK, Net, freeIndex # <<>>, AllocConnection
  PROVE  /\ NextCon \in Con /\ NextCon \in 1..made' /\ NextCon \notin ToSet(recycled')
         /\ \A i \in Used : list[i] # NextCon
         /\ made' \in 0..MaxConnectionNum /\ 1..made' = 1..made \cup {NextCon}
         /\ recycled' \in Seq(Con) /\ IsInjective(recycled')
         /\ ToSet(recycled') = ToSet(recycled) \ {NextCon}
<1>1. /\ made \in 0..MaxConnectionNum /\ MaxConnectionNum \in Nat /\ recycled \in Seq(Con)
      /\ IsInjective(recycled)
  BY ConnectionsAssumption DEF TypeOK, Net, ConsAccounted
<1>2. /\ ToSet(recycled) \cup {list[i] : i \in Used} = 1..made
      /\ ToSet(recycled) \cap {list[i] : i \in Used} = {}
  BY DEF Net, ConsAccounted
<1>3. CASE recycled = <<>>
  <2>1. NextCon = made + 1 /\ made' = made + 1 /\ recycled' = recycled
    BY <1>3 DEF NextCon, AllocConnection
  <2>2. made + 1 \in Con
    BY <1>3, ConIsLeft
  <2>3. made + 1 \notin 1..made /\ 1..(made + 1) = 1..made \cup {made + 1}
    BY <1>1
  <2>4. made + 1 \in 1..(made + 1) /\ made + 1 \in 0..MaxConnectionNum
    BY <1>1, <2>2 DEF Con
  <2> QED BY <1>1, <1>2, <2>1, <2>2, <2>3, <2>4
<1>4. CASE recycled # <<>>
  <2>1. NextCon = Head(recycled) /\ made' = made /\ recycled' = Tail(recycled)
    BY <1>4 DEF NextCon, AllocConnection
  <2>2. /\ Head(recycled) \in Con /\ Tail(recycled) \in Seq(Con) /\ IsInjective(Tail(recycled))
        /\ ToSet(recycled) = {Head(recycled)} \cup ToSet(Tail(recycled))
        /\ Head(recycled) \notin ToSet(Tail(recycled))
    BY <1>1, <1>4, TailOfList
  <2> QED BY <1>1, <1>2, <2>1, <2>2
<1> QED BY <1>3, <1>4

\* What AddConnection does, in terms of the sets behind the lists.
Added(s, i, o) ==
  /\ s \in Socket /\ sock[s] = "waiting" /\ s \notin ToSet(preConnect')
  /\ i \in Index /\ list[i] = None
  /\ o \in Con /\ o \in 1..made' /\ o \notin ToSet(recycled') /\ \A j \in Used : list[j] # o
  /\ con' = [con EXCEPT ![o] = [index |-> i, socket |-> s]]
  /\ list' = [list EXCEPT ![i] = o]
  /\ sock' = [sock EXCEPT ![s] = "open"]
  /\ reads' = [reads EXCEPT ![s] = @ + 1]
  /\ 1..made' = 1..made \cup {o} /\ ToSet(recycled') = ToSet(recycled) \ {o}
  /\ ToSet(freeIndex) = {i} \cup ToSet(freeIndex') /\ i \notin ToSet(freeIndex')

LEMMA AddTypes ==
  ASSUME Sound, PreConnect, AddConnection(Head(preConnect))
  PROVE  /\ Added(Head(preConnect), Head(freeIndex), NextCon)
         /\ preConnect' \in Seq(Socket) /\ IsInjective(preConnect')
         /\ ToSet(preConnect') \subseteq ToSet(preConnect)
         /\ freeIndex' \in Seq(Index) /\ IsInjective(freeIndex')
         /\ recycled' \in Seq(Con) /\ IsInjective(recycled') /\ made' \in 0..MaxConnectionNum
         /\ UNCHANGED <<broken, data, failed, portVars, mainVars>>
<1> DEFINE s == Head(preConnect)
           i == Head(freeIndex)
           o == NextCon
<1>1. /\ UNCHANGED <<broken, data, failed, portVars, mainVars>>
      /\ preConnect # <<>> /\ preConnect' = Tail(preConnect)
      /\ freeIndex # <<>> /\ freeIndex' = Tail(freeIndex) /\ AllocConnection
      /\ con' = [con EXCEPT ![o] = [index |-> i, socket |-> s]]
      /\ list' = [list EXCEPT ![i] = o]
      /\ sock' = [sock EXCEPT ![s] = "open"]
      /\ reads' = [reads EXCEPT ![s] = @ + 1]
  BY DEF PreConnect, AddConnection, AllocIndex
<1>2. /\ s \in Socket /\ preConnect' \in Seq(Socket) /\ IsInjective(preConnect')
      /\ ToSet(preConnect) = {s} \cup ToSet(preConnect') /\ s \notin ToSet(preConnect')
  BY <1>1, TailOfList DEF Sound, TypeOK, PreConnectSound
<1>3. /\ i \in Index /\ freeIndex' \in Seq(Index) /\ IsInjective(freeIndex')
      /\ ToSet(freeIndex) = {i} \cup ToSet(freeIndex') /\ i \notin ToSet(freeIndex')
  BY <1>1, TailOfList DEF Sound, TypeOK, Net, IndicesAccounted
<1>4. /\ o \in Con /\ o \in 1..made' /\ o \notin ToSet(recycled')
      /\ \A j \in Used : list[j] # o
      /\ made' \in 0..MaxConnectionNum /\ 1..made' = 1..made \cup {o}
      /\ recycled' \in Seq(Con) /\ IsInjective(recycled')
      /\ ToSet(recycled') = ToSet(recycled) \ {o}
  BY <1>1, NextConIsFree DEF Sound
<1>5. sock[s] = "waiting"
  BY DEF AddConnection
<1>6. list[i] = None
  BY <1>3 DEF Sound, Net, IndicesAccounted, Used
<1> HIDE DEF s, i, o
<1>7. Added(s, i, o)
  BY <1>1, <1>2, <1>3, <1>4, <1>5, <1>6 DEF Added
<1> QED BY <1>1, <1>2, <1>3, <1>4, <1>7 DEF s, i, o

LEMMA AddedValues ==
  ASSUME Sound, NEW s, NEW i, NEW o, Added(s, i, o)
  PROVE  /\ \A t \in Socket : sock'[t] = IF t = s THEN "open" ELSE sock[t]
         /\ \A j \in Index : list'[j] = IF j = i THEN o ELSE list[j]
         /\ \A q \in Con : con'[q] = IF q = o THEN [index |-> i, socket |-> s] ELSE con[q]
         /\ Used' = Used \cup {i} /\ i \notin Used
BY DEF Added, Sound, TypeOK, Used, None, Con

LEMMA AddNet ==
  ASSUME Sound, NEW s, NEW i, NEW o, Added(s, i, o),
         IsInjective(freeIndex'), IsInjective(recycled')
  PROVE  Net'
<1>1. /\ \A t \in Socket : sock'[t] = IF t = s THEN "open" ELSE sock[t]
      /\ \A j \in Index : list'[j] = IF j = i THEN o ELSE list[j]
      /\ \A q \in Con : con'[q] = IF q = o THEN [index |-> i, socket |-> s] ELSE con[q]
      /\ Used' = Used \cup {i} /\ i \notin Used
  BY AddedValues
<1>2. Used \subseteq Index /\ i \in Index /\ \A j \in Used : list[j] \in Con /\ list[j] # o
  BY DEF Used, Added, Sound, TypeOK
<1>3. /\ \A j \in Used : list'[j] = list[j] /\ con'[list'[j]] = con[list[j]]
      /\ list'[i] = o /\ con'[o] = [index |-> i, socket |-> s]
  BY <1>1, <1>2 DEF Added
<1>4. IndicesAccounted'
  BY <1>1, <1>2 DEF IndicesAccounted, Added, Sound, Net
<1>5. {list'[j] : j \in Used'} = {list[j] : j \in Used} \cup {o}
  BY <1>1, <1>3
<1>6. ConsAccounted'
  <2>1. \A j, k \in Used' : list'[j] = list'[k] => j = k
    BY <1>1, <1>2, <1>3 DEF Sound, Net, ConsAccounted
  <2>2. o \in 1..made' /\ 1..made' = 1..made \cup {o} /\ ToSet(recycled') = ToSet(recycled) \ {o}
    BY DEF Added
  <2>3. ToSet(recycled') \cap {list'[j] : j \in Used'} = {}
    BY <1>5, <2>2 DEF Sound, Net, ConsAccounted
  <2>4. ToSet(recycled') \cup {list'[j] : j \in Used'} = 1..made'
    BY <1>5, <2>2 DEF Sound, Net, ConsAccounted
  <2> QED BY <2>1, <2>3, <2>4 DEF ConsAccounted
<1>7. \A j \in Used : con[list[j]].socket # s
  BY DEF Sound, Net, OwnIndex, Added
<1>8. OwnIndex'
  <2>1. \A j \in Used' : con'[list'[j]].index = j
    BY <1>1, <1>3 DEF Sound, Net, OwnIndex
  <2>2. \A j, k \in Used' : con'[list'[j]].socket = con'[list'[k]].socket => j = k
    BY <1>1, <1>3, <1>7 DEF Sound, Net, OwnIndex
  <2>3. {con'[list'[j]].socket : j \in Used'} = {con[list[j]].socket : j \in Used} \cup {s}
    BY <1>1, <1>3
  <2>4. {t \in Socket : sock'[t] = "open"} = {t \in Socket : sock[t] = "open"} \cup {s}
    BY <1>1 DEF Added
  <2> QED BY <2>1, <2>2, <2>3, <2>4 DEF OwnIndex, Sound, Net
<1>9. ConsSound'
  BY <1>1 DEF ConsSound, Sound, Net, Added
<1> QED BY <1>4, <1>6, <1>8, <1>9 DEF Net

LEMMA AddSound ==
  ASSUME Sound, PreConnect, AddConnection(Head(preConnect))
  PROVE  Sound'
<1> DEFINE s == Head(preConnect)
           i == Head(freeIndex)
           o == NextCon
<1>1. /\ Added(s, i, o)
      /\ preConnect' \in Seq(Socket) /\ IsInjective(preConnect')
      /\ ToSet(preConnect') \subseteq ToSet(preConnect)
      /\ freeIndex' \in Seq(Index) /\ IsInjective(freeIndex')
      /\ recycled' \in Seq(Con) /\ IsInjective(recycled') /\ made' \in 0..MaxConnectionNum
      /\ UNCHANGED <<broken, data, failed, portVars, mainVars>>
  BY AddTypes
<1> HIDE DEF s, i, o
<1>2. /\ \A t \in Socket : sock'[t] = IF t = s THEN "open" ELSE sock[t]
      /\ \A j \in Index : list'[j] = IF j = i THEN o ELSE list[j]
      /\ \A q \in Con : con'[q] = IF q = o THEN [index |-> i, socket |-> s] ELSE con[q]
  BY <1>1, AddedValues
<1>3. Net'
  BY <1>1, AddNet
<1>4. /\ sock' \in [Socket -> SocketState] /\ reads' \in [Socket -> Nat]
      /\ list' \in [Index -> Con \cup {None}]
      /\ con' \in [Con -> [index : Index \cup {None}, socket : Socket \cup {NoSocket}]]
  BY <1>1, SMTT(30) DEF Added, Sound, TypeOK, SocketState
<1>5. TypeOK'
  BY <1>1, <1>4 DEF Sound, TypeOK, portVars, mainVars
<1>6. PreConnectSound'
  <2>1. ToSet(preConnect') \subseteq Socket
    BY <1>1, ElementsOfList
  <2> QED BY <1>1, <1>2, <2>1 DEF Sound, PreConnectSound, Added
<1>7. WorkersSound'
  BY <1>1 DEF Sound, WorkersSound, portVars
<1>8. PacketsSound'
  <2> SUFFICES ASSUME NEW p \in Packets PROVE PacketSound(p)'
    BY <1>1, SamePackets DEF PacketsSound, portVars, mainVars
  <2>1. PacketSound(p) /\ p \in Packet
    BY PacketsTyped
  <2>2. p.socket \in Socket /\ p.index \in Index /\ p.con \in Con \cup {None}
    BY <2>1 DEF Packet
  <2>3. p.socket # s /\ sock'[p.socket] = sock[p.socket]
    BY <1>1, <1>2, <2>1, <2>2 DEF PacketSound, Added
  <2>4. p.kind = "data" => p.con \in 1..made'
    BY <1>1, <2>1 DEF PacketSound, Added
  <2>5. ASSUME sock[p.socket] = "open"
        PROVE  /\ list'[p.index] = list[p.index] /\ list[p.index] # None
               /\ con'[list[p.index]] = con[list[p.index]]
    <3>1. p.index \in Used /\ list[p.index] \in Con
      BY <2>1, <2>2, <2>5 DEF PacketSound, Used, Sound, TypeOK
    <3>2. p.index # i /\ list[p.index] # o
      BY <1>1, <3>1 DEF Added, Used
    <3> QED BY <1>2, <2>2, <3>1, <3>2 DEF Used
  <2> QED BY <2>1, <2>3, <2>4, <2>5 DEF PacketSound
<1> QED BY <1>3, <1>5, <1>6, <1>7, <1>8 DEF Sound

LEMMA ClosedValues ==
  ASSUME Sound, NEW i \in Index, list[i] # None, CloseConnection(i)
  PROVE  LET o == list[i]  s == con[o].socket
         IN  /\ \A t \in Socket : sock'[t] = IF t = s THEN "closed" ELSE sock[t]
             /\ \A j \in Index : list'[j] = IF j = i THEN None ELSE list[j]
             /\ \A q \in Con : con'[q] = IF q = o THEN [con[q] EXCEPT !.socket = NoSocket] ELSE con[q]
             /\ Used' = Used \ {i} /\ i \in Used
             /\ freeIndex' \in Seq(Index) /\ IsInjective(freeIndex')
             /\ ToSet(freeIndex') = ToSet(freeIndex) \cup {i}
             /\ recycled' \in Seq(Con) /\ IsInjective(recycled')
             /\ ToSet(recycled') = ToSet(recycled) \cup {o}
             /\ UNCHANGED <<broken, data, failed, preConnect, made>>
<1> DEFINE o == list[i]
           s == con[o].socket
<1>1. /\ list' = [list EXCEPT ![i] = None] /\ freeIndex' = Append(freeIndex, i)
      /\ con' = [con EXCEPT ![o].socket = NoSocket] /\ recycled' = Append(recycled, o)
      /\ sock' = [sock EXCEPT ![s] = "closed"]
      /\ UNCHANGED <<broken, data, failed, preConnect, made>>
  BY DEF CloseConnection, FreeIndex
<1>2. o \in Con /\ i \in Used
  BY UsedIndex DEF Sound, Used
<1>3. i \notin ToSet(freeIndex) /\ o \notin ToSet(recycled)
  BY <1>2 DEF Sound, Net, IndicesAccounted, ConsAccounted
<1>4. /\ freeIndex \in Seq(Index) /\ IsInjective(freeIndex)
      /\ recycled \in Seq(Con) /\ IsInjective(recycled)
  BY DEF Sound, TypeOK, Net, IndicesAccounted, ConsAccounted
<1> HIDE DEF o, s
<1>5. /\ freeIndex' \in Seq(Index) /\ IsInjective(freeIndex')
      /\ ToSet(freeIndex') = ToSet(freeIndex) \cup {i}
      /\ recycled' \in Seq(Con) /\ IsInjective(recycled')
      /\ ToSet(recycled') = ToSet(recycled) \cup {o}
  BY <1>1, <1>2, <1>3, <1>4, AppendToList
<1>6. /\ \A t \in Socket : sock'[t] = IF t = s THEN "closed" ELSE sock[t]
      /\ \A j \in Index : list'[j] = IF j = i THEN None ELSE list[j]
      /\ \A q \in Con : con'[q] = IF q = o THEN [con[q] EXCEPT !.socket = NoSocket] ELSE con[q]
  BY <1>1, <1>2 DEF Sound, TypeOK
<1>7. Used' = Used \ {i}
  BY <1>6 DEF Used
<1> QED BY <1>1, <1>2, <1>5, <1>6, <1>7 DEF o, s

LEMMA CloseNet ==
  ASSUME Sound, NEW i \in Index, list[i] # None, CloseConnection(i)
  PROVE  Net'
<1> DEFINE o == list[i]
           s == con[o].socket
<1>1. /\ \A t \in Socket : sock'[t] = IF t = s THEN "closed" ELSE sock[t]
      /\ \A j \in Index : list'[j] = IF j = i THEN None ELSE list[j]
      /\ \A q \in Con : con'[q] = IF q = o THEN [con[q] EXCEPT !.socket = NoSocket] ELSE con[q]
      /\ Used' = Used \ {i} /\ i \in Used
      /\ IsInjective(freeIndex') /\ ToSet(freeIndex') = ToSet(freeIndex) \cup {i}
      /\ IsInjective(recycled') /\ ToSet(recycled') = ToSet(recycled) \cup {o}
      /\ made' = made
  BY ClosedValues
<1>2. o \in 1..made /\ o \in Con /\ con[o].index = i /\ s \in Socket /\ sock[s] = "open"
  BY UsedIndex DEF Sound
<1>3. Used \subseteq Index /\ \A j \in Used : list[j] \in Con
  BY DEF Used, Sound, TypeOK
<1>4. \A j \in Used : j # i => list[j] # o /\ con[list[j]].socket # s
  BY <1>1 DEF Sound, Net, ConsAccounted, OwnIndex
<1> HIDE DEF o, s
<1>5. \A j \in Used' : list'[j] = list[j] /\ con'[list[j]] = con[list[j]]
  BY <1>1, <1>3, <1>4
<1>6. IndicesAccounted'
  BY <1>1, <1>3 DEF IndicesAccounted, Sound, Net
<1>7. ConsAccounted'
  <2>1. {list'[j] : j \in Used'} = {list[j] : j \in Used} \ {o}
    BY <1>1, <1>4, <1>5 DEF o
  <2>2. o \in {list[j] : j \in Used}
    BY <1>1 DEF o
  <2>3. ToSet(recycled') \cap {list'[j] : j \in Used'} = {}
    BY <1>1, <2>1 DEF Sound, Net, ConsAccounted
  <2>4. ToSet(recycled') \cup {list'[j] : j \in Used'} = 1..made'
    BY <1>1, <2>1, <2>2 DEF Sound, Net, ConsAccounted
  <2>5. \A j, k \in Used' : list'[j] = list'[k] => j = k
    BY <1>1, <1>5 DEF Sound, Net, ConsAccounted
  <2> QED BY <1>1, <2>3, <2>4, <2>5 DEF ConsAccounted
<1>8. OwnIndex'
  <2>1. {con'[list'[j]].socket : j \in Used'} = {con[list[j]].socket : j \in Used} \ {s}
    BY <1>1, <1>4, <1>5 DEF o, s
  <2>2. {t \in Socket : sock'[t] = "open"} = {t \in Socket : sock[t] = "open"} \ {s}
    BY <1>1, <1>2
  <2>3. \A j \in Used' : con'[list'[j]].index = j
    BY <1>1, <1>5 DEF Sound, Net, OwnIndex
  <2>4. \A j, k \in Used' : con'[list'[j]].socket = con'[list'[k]].socket => j = k
    BY <1>1, <1>5 DEF Sound, Net, OwnIndex
  <2> QED BY <2>1, <2>2, <2>3, <2>4 DEF OwnIndex, Sound, Net
<1>9. ConsSound'
  <2>1. con[o] \in [index : Index \cup {None}, socket : Socket \cup {NoSocket}]
    BY <1>2 DEF Sound, TypeOK
  <2>2. con'[o].index = con[o].index /\ con'[o].socket = NoSocket
    BY <1>1, <1>2, <2>1
  <2> QED BY <1>1, <1>2, <2>2 DEF ConsSound, Sound, Net
<1> QED BY <1>6, <1>7, <1>8, <1>9 DEF Net

LEMMA CloseSound ==
  ASSUME Sound, NEW i \in Index, list[i] # None, CloseConnection(i),
         batch # <<>>, batch' = Tail(batch), UNCHANGED <<portVars, main, posts>>
  PROVE  Sound'
<1> DEFINE o == list[i]
           s == con[o].socket
<1>1. /\ \A t \in Socket : sock'[t] = IF t = s THEN "closed" ELSE sock[t]
      /\ \A j \in Index : list'[j] = IF j = i THEN None ELSE list[j]
      /\ \A q \in Con : con'[q] = IF q = o THEN [con[q] EXCEPT !.socket = NoSocket] ELSE con[q]
      /\ freeIndex' \in Seq(Index) /\ recycled' \in Seq(Con)
      /\ UNCHANGED <<broken, data, failed, preConnect, made>>
  BY ClosedValues
<1>2. Net'
  BY CloseNet
<1>3. o \in Con /\ s \in Socket /\ sock[s] = "open"
  BY UsedIndex DEF Sound
<1>4. /\ sock' \in [Socket -> SocketState] /\ reads' \in [Socket -> Nat]
      /\ list' \in [Index -> Con \cup {None}]
  BY <1>3 DEF CloseConnection, Sound, TypeOK, SocketState, None
<1>5. con' \in [Con -> [index : Index \cup {None}, socket : Socket \cup {NoSocket}]]
  BY <1>3, ZenonT(60) DEF CloseConnection, Sound, TypeOK
<1>6. batch' \in Seq(Packet) /\ ToSet(batch') \subseteq ToSet(batch)
  BY TailOfList DEF Sound, TypeOK
<1>7. TypeOK'
  BY <1>1, <1>4, <1>5, <1>6 DEF Sound, TypeOK, portVars
<1>8. PreConnectSound'
  <2>1. ToSet(preConnect) \subseteq Socket
    BY ElementsOfList DEF Sound, TypeOK
  <2> QED BY <1>1, <1>3, <2>1 DEF Sound, PreConnectSound
<1>9. WorkersSound'
  BY DEF Sound, WorkersSound, portVars
<1>10. PacketsSound'
  <2> SUFFICES ASSUME NEW p \in Packets PROVE PacketSound(p)'
    BY <1>6, SamePackets DEF PacketsSound, portVars
  <2>1. PacketSound(p) /\ p \in Packet
    BY PacketsTyped
  <2>2. p.socket \in Socket /\ p.index \in Index
    BY <2>1 DEF Packet
  <2>3. CASE p.socket = s
    BY <1>1, <2>1, <2>2, <2>3 DEF PacketSound
  <2>4. CASE p.socket # s
    <3>1. sock'[p.socket] = sock[p.socket]
      BY <1>1, <2>2, <2>4
    <3>2. ASSUME sock[p.socket] = "open"
          PROVE  list'[p.index] = list[p.index] /\ con'[list[p.index]] = con[list[p.index]]
      <4>1. list[p.index] # None /\ con[list[p.index]].socket = p.socket
        BY <2>1, <3>2 DEF PacketSound
      <4>2. p.index # i /\ list[p.index] # o /\ list[p.index] \in Con
        BY <2>2, <2>4, <4>1, UsedIndex DEF Sound
      <4> QED BY <1>1, <2>2, <4>2
    <3> QED BY <1>1, <2>1, <3>1, <3>2 DEF PacketSound
  <2> QED BY <2>3, <2>4
<1> QED BY <1>2, <1>7, <1>8, <1>9, <1>10 DEF Sound

LEMMA InitSound == Init => Sound
<1> SUFFICES ASSUME Init PROVE Sound
  OBVIOUS
<1> USE DEF Init
<1>1. MaxConnectionNum \in Nat \ {0} /\ MaxData \in Nat /\ ToSet(<<>>) = {} /\ IsInjective(<<>>)
  BY ConnectionsAssumption DEF ToSet, IsInjective
<1>2. freeIndex \in Seq(Index) /\ ToSet(freeIndex) = Index /\ IsInjective(freeIndex)
  BY <1>1 DEF Index, ToSet, IsInjective
<1>3. Used = {}
  BY DEF Used
<1>4. \A T : <<>> \in Seq(T)
  BY EmptySeq
<1>5. TypeOK
  BY <1>1, <1>2, <1>4 DEF TypeOK, SocketState, FreshCon
<1>6. Net
  BY <1>1, <1>2, <1>3 DEF Net, IndicesAccounted, ConsAccounted, OwnIndex, ConsSound
<1>7. PreConnectSound /\ WorkersSound /\ PacketsSound
  BY <1>1 DEF PreConnectSound, WorkersSound, PacketsSound, Packets, Jobs
<1> QED BY <1>5, <1>6, <1>7 DEF Sound

\* A step is quiet or changes the connections in one of four ways.
LEMMA StepKinds ==
  ASSUME Sound, [Next]_vars
  PROVE  \/ TypeOK' /\ WorkersSound' /\ Quiet
         \/ \E s \in Socket, new \in {"waiting", "refused"} : InsertPreConnect(s, new)
         \/ PreConnect /\ (NoIndexLeft(Head(preConnect)) \/ FailConnect(Head(preConnect)))
         \/ PreConnect /\ AddConnection(Head(preConnect))
         \/ \E i \in Index : /\ list[i] # None /\ CloseConnection(i)
                             /\ batch # <<>> /\ batch' = Tail(batch)
                             /\ UNCHANGED <<portVars, main, posts>>
<1>1. CASE UNCHANGED vars
  BY <1>1, StutterQuiet
<1>2. ASSUME NEW s \in Socket, DataArrives(s) \/ PeerGoes(s) \/ ReadEnds(s)
      PROVE  TypeOK' /\ WorkersSound' /\ Quiet
  BY <1>2, ReadQuiet
<1>3. ASSUME NEW w \in Worker, WorkerStep(w)
      PROVE  TypeOK' /\ WorkersSound' /\ Quiet
  BY <1>3, DequeueQuiet, IgnoreQuiet, PushQuiet, ReadAgainQuiet DEF WorkerStep
<1>4. ASSUME NEW i \in Index, PostDisconnect(i)
      PROVE  TypeOK' /\ WorkersSound' /\ Quiet
  BY <1>4, PostQuiet
<1>5. CASE BeginPreConnect \/ EndPreConnect \/ BeginBatch \/ EndBatch
  BY <1>5, TurnQuiet
<1>6. CASE Handle
  <2>1. /\ batch # <<>> /\ batch' = Tail(batch) /\ UNCHANGED <<portVars, main, posts>>
        /\ \/ list[Head(batch).index] # None /\ CloseConnection(Head(batch).index)
           \/ UNCHANGED <<ioVars, netVars>>
    BY <1>6 DEF Handle
  <2>2. Head(batch).index \in Index
    <3>1. batch \in Seq(Packet)
      BY DEF Sound, TypeOK
    <3>2. Head(batch) \in Packet
      BY <2>1, <3>1, TailOfList
    <3> QED BY <3>2 DEF Packet
  <2>3. CASE UNCHANGED <<ioVars, netVars>>
    BY <2>1, <2>3, DropQuiet
  <2> QED BY <2>1, <2>2, <2>3
<1>7. CASE PreConnect
  BY <1>7 DEF PreConnect
<1>8. ASSUME NEW s \in Socket, Accept(s) \/ ConnectFails(s)
      PROVE  \E new \in {"waiting", "refused"} : InsertPreConnect(s, new)
  BY <1>8 DEF Accept, ConnectFails
<1> QED BY <1>1, <1>2, <1>3, <1>4, <1>5, <1>6, <1>7, <1>8 DEF Next, NetworkStep, MainStep

LEMMA StepSound == Sound /\ [Next]_vars => Sound'
BY StepKinds, QuietSound, InsertSound, DroppedSound, AddSound, CloseSound

LEMMA AlwaysSound == SafeSpec => []Sound
BY InitSound, StepSound, PTL DEF SafeSpec

(***************************************************************************)
(* Indices that are used for the first time.                               *)
(***************************************************************************)

LEMMA SameFirstUse ==
  ASSUME FirstUse, Opened' = Opened, UNCHANGED <<freeIndex, list, con, recycled, made>>,
         Packets' \subseteq Packets, \A p \in Packets : sock'[p.socket] = sock[p.socket]
  PROVE  FirstUse'
BY DEF FirstUse, NoneReused

LEMMA WaitingFirstUse ==
  ASSUME Sound, FirstUse,
         \/ \E s \in Socket, new \in {"waiting", "refused"} : InsertPreConnect(s, new)
         \/ PreConnect /\ (NoIndexLeft(Head(preConnect)) \/ FailConnect(Head(preConnect)))
  PROVE  FirstUse'
<1>1. PICK s \in Socket, new \in {"waiting", "refused", "dropped"} :
        /\ sock[s] \in {"future", "waiting", "refused"} /\ sock' = [sock EXCEPT ![s] = new]
        /\ UNCHANGED <<freeIndex, list, con, recycled, made, portVars, mainVars>>
  <2>1. CASE \E s \in Socket, new \in {"waiting", "refused"} : InsertPreConnect(s, new)
    BY <2>1 DEF InsertPreConnect
  <2>2. CASE PreConnect /\ (NoIndexLeft(Head(preConnect)) \/ FailConnect(Head(preConnect)))
    <3> DEFINE h == Head(preConnect)
    <3>1. /\ preConnect # <<>>
          /\ sock' = [sock EXCEPT ![h] = "dropped"] \/ (sock[h] = "refused" /\ sock' = sock)
          /\ UNCHANGED <<freeIndex, list, con, recycled, made, portVars, mainVars>>
      BY <2>2 DEF PreConnect, NoIndexLeft, FailConnect
    <3>2. h \in Socket /\ sock[h] \in {"waiting", "refused"}
      BY <3>1, TailOfList DEF Sound, TypeOK, PreConnectSound
    <3> HIDE DEF h
    <3>3. sock' = sock => sock' = [sock EXCEPT ![h] = sock[h]]
      BY DEF Sound, TypeOK
    <3> QED BY <3>1, <3>2, <3>3
  <2> QED BY <2>1, <2>2
<1>2. \A t \in Socket : sock'[t] = IF t = s THEN new ELSE sock[t]
  BY <1>1 DEF Sound, TypeOK
<1>3. Opened' = Opened
  BY <1>1, <1>2 DEF Opened
<1>4. Packets' \subseteq Packets
  BY <1>1, SamePackets DEF portVars, mainVars
<1>5. \A p \in Packets : sock'[p.socket] = sock[p.socket]
  BY <1>1, <1>2, PacketsTyped DEF PacketSound, Packet
<1> QED BY <1>1, <1>3, <1>4, <1>5, SameFirstUse

LEMMA AddFirstUse ==
  ASSUME Sound, FirstUse, PreConnect, AddConnection(Head(preConnect))
  PROVE  FirstUse'
<1> DEFINE s == Head(preConnect)
           i == Head(freeIndex)
           o == NextCon
           k == Cardinality(Opened)
<1>1. Added(s, i, o) /\ UNCHANGED <<portVars, mainVars>>
  BY AddTypes
<1>2. freeIndex # <<>> /\ freeIndex' = Tail(freeIndex) /\ i = freeIndex[1]
  BY DEF AddConnection, AllocIndex
<1> HIDE DEF s, i, o
<1>3. /\ \A t \in Socket : sock'[t] = IF t = s THEN "open" ELSE sock[t]
      /\ \A j \in Index : list'[j] = IF j = i THEN o ELSE list[j]
      /\ \A q \in Con : con'[q] = IF q = o THEN [index |-> i, socket |-> s] ELSE con[q]
  BY <1>1, AddedValues
<1>4. Opened' = Opened \cup {s} /\ s \notin Opened
  BY <1>1, <1>3 DEF Opened, Added
<1>5. IsFiniteSet(Opened) /\ k \in Nat /\ IsFiniteSet(Opened') /\ Cardinality(Opened') = k + 1
  BY <1>4, FS_AddElement, FS_CardinalityType DEF FirstUse
<1> HIDE DEF k
<1> SUFFICES ASSUME (Cardinality(Opened) <= MaxConnectionNum)' PROVE NoneReused'
  BY <1>5 DEF FirstUse
<1>6. MaxConnectionNum \in Nat /\ k + 1 <= MaxConnectionNum
  BY <1>5, ConnectionsAssumption
<1>7. NoneReused
  BY <1>5, <1>6 DEF FirstUse, k
<1>8. /\ Len(freeIndex) >= MaxConnectionNum - k
      /\ \A j \in 1..(MaxConnectionNum - k) : freeIndex[j] = k + j
      /\ \A q \in 1..made : con[q].index <= k
      /\ \A q \in ToSet(recycled) : list[con[q].index] = None
      /\ \A p \in Packets : p.index <= k /\ (sock[p.socket] = "closed" => list[p.index] = None)
  BY <1>7 DEF NoneReused, k
<1>9. i = k + 1
  BY <1>2, <1>5, <1>6, <1>8
<1>10. /\ Len(freeIndex') = Len(freeIndex) - 1 /\ Len(freeIndex) \in Nat
       /\ \A j \in 1..(Len(freeIndex) - 1) : freeIndex'[j] = freeIndex[j + 1]
  <2>1. freeIndex \in Seq(Index)
    BY DEF Sound, TypeOK
  <2> QED BY <1>2, <2>1, HeadTailProperties, LenProperties
<1>11. /\ Len(freeIndex') >= MaxConnectionNum - (k + 1)
       /\ \A j \in 1..(MaxConnectionNum - (k + 1)) : freeIndex'[j] = (k + 1) + j
  <2>1. Len(freeIndex') >= MaxConnectionNum - (k + 1)
    BY <1>5, <1>6, <1>8, <1>10
  <2>2. ASSUME NEW j \in 1..(MaxConnectionNum - (k + 1))
        PROVE  freeIndex'[j] = (k + 1) + j
    <3>1. j \in 1..(Len(freeIndex) - 1) /\ j + 1 \in 1..(MaxConnectionNum - k)
      BY <1>5, <1>6, <1>8, <1>10
    <3>2. freeIndex'[j] = freeIndex[j + 1] /\ freeIndex[j + 1] = k + (j + 1)
      BY <3>1, <1>8, <1>10
    <3> QED BY <3>2, <1>5
  <2> QED BY <2>1, <2>2
<1>12. made \in 0..MaxConnectionNum /\ \A q \in 1..made : q \in Con /\ con[q].index \in Index
  <2>1. made \in 0..MaxConnectionNum
    BY DEF Sound, TypeOK
  <2>2. \A q \in 1..made : q \in Con
    BY <2>1, <1>6 DEF Con
  <2> QED BY <2>1, <2>2 DEF Sound, Net, ConsSound
<1>13. \A q \in 1..made' : con'[q].index <= k + 1
  <2> SUFFICES ASSUME NEW q \in 1..made' PROVE con'[q].index <= k + 1
    OBVIOUS
  <2>1. CASE q = o
    BY <1>1, <1>3, <1>5, <1>9, <2>1 DEF Added
  <2>2. CASE q # o
    <3>1. q \in 1..made
      BY <1>1, <2>2 DEF Added
    <3>2. con'[q].index = con[q].index /\ con[q].index \in Int
      BY <1>3, <1>12, <2>2, <3>1 DEF Index
    <3> QED BY <1>5, <1>8, <3>1, <3>2
  <2> QED BY <2>1, <2>2
<1>14. \A q \in ToSet(recycled') : list'[con'[q].index] = None
  <2> SUFFICES ASSUME NEW q \in ToSet(recycled') PROVE list'[con'[q].index] = None
    OBVIOUS
  <2>1. q \in ToSet(recycled) /\ q # o
    BY <1>1 DEF Added
  <2>2. q \in 1..made
    BY <2>1 DEF Sound, Net, ConsAccounted
  <2>3. con'[q] = con[q] /\ con[q].index \in Index /\ con[q].index <= k
    BY <1>3, <1>8, <1>12, <2>1, <2>2
  <2>4. con[q].index # i
    BY <1>5, <1>9, <2>3 DEF Index
  <2> QED BY <1>3, <1>8, <2>1, <2>3, <2>4
<1>15. \A p \in Packets' : p.index <= k + 1 /\ (sock'[p.socket] = "closed" => list'[p.index] = None)
  <2> SUFFICES ASSUME NEW p \in Packets
               PROVE  p.index <= k + 1 /\ (sock'[p.socket] = "closed" => list'[p.index] = None)
    BY <1>1, SamePackets DEF portVars, mainVars
  <2>1. p.socket \in Socket /\ p.index \in Index /\ p.index <= k
    BY <1>8, PacketsTyped DEF Packet
  <2>2. p.index <= k + 1 /\ p.index # i
    BY <1>5, <1>9, <2>1 DEF Index
  <2> QED BY <1>1, <1>3, <1>8, <2>1, <2>2 DEF Added
<1> QED BY <1>5, <1>11, <1>13, <1>14, <1>15 DEF NoneReused

LEMMA CloseFirstUse ==
  ASSUME Sound, FirstUse, NEW i \in Index, list[i] # None, CloseConnection(i),
         batch # <<>>, batch' = Tail(batch), UNCHANGED <<portVars, main, posts>>
  PROVE  FirstUse'
<1> DEFINE o == list[i]
           s == con[o].socket
           k == Cardinality(Opened)
<1>1. /\ \A t \in Socket : sock'[t] = IF t = s THEN "closed" ELSE sock[t]
      /\ \A j \in Index : list'[j] = IF j = i THEN None ELSE list[j]
      /\ \A q \in Con : con'[q] = IF q = o THEN [con[q] EXCEPT !.socket = NoSocket] ELSE con[q]
      /\ ToSet(recycled') = ToSet(recycled) \cup {o} /\ made' = made
      /\ freeIndex' = Append(freeIndex, i)
  BY ClosedValues DEF CloseConnection, FreeIndex
<1>2. o \in 1..made /\ o \in Con /\ con[o].index = i /\ s \in Socket /\ sock[s] = "open"
  BY UsedIndex DEF Sound
<1>3. Opened' = Opened
  BY <1>1, <1>2 DEF Opened
<1>4. \A q \in Con : con'[q].index = con[q].index
  BY <1>1 DEF Sound, TypeOK
<1> HIDE DEF o, s
<1>5. IsFiniteSet(Opened) /\ k \in Nat
  BY FS_CardinalityType DEF FirstUse
<1> SUFFICES ASSUME (Cardinality(Opened) <= MaxConnectionNum)' PROVE NoneReused'
  BY <1>3, <1>5 DEF FirstUse
<1>6. NoneReused /\ MaxConnectionNum \in Nat
  BY <1>3, ConnectionsAssumption DEF FirstUse
<1> HIDE DEF k
<1>7. /\ Len(freeIndex) >= MaxConnectionNum - k
      /\ \A j \in 1..(MaxConnectionNum - k) : freeIndex[j] = k + j
      /\ \A q \in 1..made : con[q].index <= k
      /\ \A q \in ToSet(recycled) : list[con[q].index] = None
      /\ \A p \in Packets : p.index <= k /\ (sock[p.socket] = "closed" => list[p.index] = None)
  BY <1>6 DEF NoneReused, k
<1>8. /\ Len(freeIndex') = Len(freeIndex) + 1 /\ Len(freeIndex) \in Nat
      /\ \A j \in 1..Len(freeIndex) : freeIndex'[j] = freeIndex[j]
  <2>1. freeIndex \in Seq(Index)
    BY DEF Sound, TypeOK
  <2> QED BY <1>1, <2>1, AppendProperties, LenProperties
<1>9. /\ Len(freeIndex') >= MaxConnectionNum - k
      /\ \A j \in 1..(MaxConnectionNum - k) : freeIndex'[j] = k + j
  BY <1>5, <1>6, <1>7, <1>8
<1>10. \A q \in 1..made : q \in Con
  BY <1>6 DEF Sound, TypeOK, Con
<1>11. \A q \in 1..made' : con'[q].index <= k
  BY <1>1, <1>4, <1>7, <1>10
<1>12. \A q \in ToSet(recycled') : list'[con'[q].index] = None
  <2> SUFFICES ASSUME NEW q \in ToSet(recycled') PROVE list'[con'[q].index] = None
    OBVIOUS
  <2>1. CASE q = o
    BY <1>1, <1>2, <1>4, <2>1
  <2>2. CASE q \in ToSet(recycled)
    <3>1. q \in Con /\ q \in 1..made
      BY <2>2, <1>10 DEF Sound, Net, ConsAccounted
    <3>2. con[q].index \in Index /\ list[con[q].index] = None
      BY <3>1, <2>2, <1>7 DEF Sound, Net, ConsSound
    <3> QED BY <1>1, <1>4, <3>1, <3>2
  <2> QED BY <1>1, <2>1, <2>2
<1>13. Packets' \subseteq Packets
  <2>1. ToSet(batch') \subseteq ToSet(batch)
    BY TailOfList DEF Sound, TypeOK
  <2> QED BY <2>1, SamePackets DEF portVars
<1>14. \A p \in Packets' : p.index <= k /\ (sock'[p.socket] = "closed" => list'[p.index] = None)
  <2> SUFFICES ASSUME NEW p \in Packets
               PROVE  p.index <= k /\ (sock'[p.socket] = "closed" => list'[p.index] = None)
    BY <1>13
  <2>1. PacketSound(p) /\ p.socket \in Socket /\ p.index \in Index
    BY PacketsTyped DEF Packet
  <2>2. CASE p.socket = s
    <3>1. list[p.index] # None /\ con[list[p.index]].socket = con[list[i]].socket
      BY <1>2, <2>1, <2>2 DEF PacketSound, o, s
    <3>2. p.index = i
      BY <2>1, <3>1 DEF Sound, Net, OwnIndex, Used
    <3> QED BY <1>1, <1>7, <2>1, <3>2
  <2>3. CASE p.socket # s
    BY <1>1, <1>7, <2>1, <2>3
  <2> QED BY <2>2, <2>3
<1> QED BY <1>3, <1>9, <1>11, <1>12, <1>14 DEF NoneReused, k

LEMMA InitFirstUse == Init => FirstUse
<1> SUFFICES ASSUME Init PROVE FirstUse
  OBVIOUS
<1>1. Opened = {}
  BY DEF Init, Opened
<1>2. IsFiniteSet(Opened) /\ Cardinality(Opened) = 0
  BY <1>1, FS_EmptySet
<1>3. MaxConnectionNum \in Nat \ {0}
  BY ConnectionsAssumption
<1>4. Len(freeIndex) = MaxConnectionNum
  BY <1>3 DEF Init, Index
<1>5. ToSet(recycled) = {} /\ 1..made = {} /\ Packets = {}
  BY DEF Init, ToSet, Packets, Jobs
<1>6. \A j \in 1..MaxConnectionNum : freeIndex[j] = j
  BY DEF Init, Index
<1>7. NoneReused
  BY <1>2, <1>3, <1>4, <1>5, <1>6 DEF NoneReused
<1> QED BY <1>2, <1>7 DEF FirstUse

LEMMA StepFirstUse == Sound /\ FirstUse /\ [Next]_vars => FirstUse'
BY StepKinds, QuietFirstUse, WaitingFirstUse, AddFirstUse, CloseFirstUse

\* While indices are used for the first time only, no message and no DISCONNECT reaches
\* a connection it is not from, in however many hands it was meanwhile.
THEOREM MessagesStayWithTheirOwn == SafeSpec => []MessagesReachTheirOwn
<1>1. Sound /\ FirstUse => MessagesReachTheirOwn
  <2> SUFFICES ASSUME Sound, FirstUse, Cardinality(Opened) <= MaxConnectionNum,
                      NEW m \in Next1, list[m.index] # None
               PROVE  con[list[m.index]].socket = m.socket
    BY DEF MessagesReachTheirOwn, ForItsOwn
  <2>1. m \in ToSet(batch)
    BY TailOfList DEF Next1, Sound, TypeOK
  <2>2. m \in Packets
    BY <2>1 DEF Packets
  <2>3. sock[m.socket] # "closed"
    BY <2>2 DEF FirstUse, NoneReused
  <2> QED BY <2>2, <2>3, PacketsTyped DEF PacketSound
<1>2. SafeSpec => []FirstUse
  <2>1. Sound /\ Sound' /\ FirstUse /\ [Next]_vars => FirstUse'
    BY StepFirstUse
  <2> QED BY <2>1, InitFirstUse, AlwaysSound, PTL DEF SafeSpec
<1> QED BY <1>1, <1>2, AlwaysSound, PTL

\* Indices, CConnections and sockets are accounted for, whatever DISCONNECTs come late
\* or twice, and the new one's are never those of another.
THEOREM ResourcesStaySound == SafeSpec => []ResourcesSound
<1>1. Sound => ResourcesSound
  BY DEF Sound, Net, ResourcesSound
<1> QED BY <1>1, AlwaysSound, PTL

(***************************************************************************)
(* No connection goes deaf.                                                *)
(***************************************************************************)

\* What keeps s from being deaf stays, where what is under way only grows.
LEMMA HeldGrows ==
  ASSUME NEW s \in Socket, Reading(s) \/ Leaving(s), reads'[s] >= reads[s], reads[s] \in Nat,
         reads'[s] \in Nat, ToSet(port) \subseteq ToSet(port'), UNCHANGED <<wPc, job>>,
         ToSet(que) \cup ToSet(batch) \subseteq ToSet(que') \cup ToSet(batch')
  PROVE  (Reading(s) \/ Leaving(s))'
<1>1. UnderWay \subseteq UnderWay'
  BY DEF UnderWay
<1>2. Reading(s) => Reading(s)'
  BY DEF Reading
<1>3. Leaving(s) => Leaving(s)'
  BY <1>1 DEF Leaving
<1> QED BY <1>2, <1>3

\* A read of t finishes as k; one that fails unseen is remembered.
ReadBrings(t, k) ==
  /\ reads' = [reads EXCEPT ![t] = @ - 1] /\ sock[t] = "open"
  /\ port' = Append(port, Finished(t, k))
  /\ k = "error" => t \in failed'

LEMMA ReadHeld ==
  ASSUME Sound, NeverDeaf,
         NEW t \in Socket, DataArrives(t) \/ PeerGoes(t) \/ ReadEnds(t)
  PROVE  NeverDeaf'
<1> SUFFICES ASSUME NEW s \in Socket, sock'[s] = "open", s \notin failed'
             PROVE  (Reading(s) \/ Leaving(s))'
  BY DEF NeverDeaf
<1>1. /\ UNCHANGED <<sock, netVars, wPc, job, que, mainVars>>
      /\ failed \subseteq failed'
      /\ \/ UNCHANGED <<reads, port>>
         \/ \E k \in {"data", "gone", "error"} : ReadBrings(t, k)
  BY DEF DataArrives, PeerGoes, ReadEnds, ReadBrings, portVars, ioVars
<1>2. (Reading(s) \/ Leaving(s)) /\ sock[s] = "open" /\ reads[s] \in Nat /\ port \in Seq(Packet)
  BY <1>1 DEF NeverDeaf, Sound, TypeOK
<1>3. CASE UNCHANGED <<reads, port>>
  BY <1>1, <1>2, <1>3, HeldGrows DEF mainVars
<1>4. CASE \E k \in {"data", "gone", "error"} : ReadBrings(t, k)
  <2>1. PICK k \in {"data", "gone", "error"} : ReadBrings(t, k)
    BY <1>4
  <2>2. Finished(t, k) \in Packet
    BY <2>1, FinishedIsNew DEF NewPacket, ReadBrings
  <2>3. ToSet(port') = ToSet(port) \cup {Finished(t, k)}
    BY <1>2, <2>1, <2>2, AppendToList DEF ReadBrings
  <2>4. CASE s = t
    <3>1. Finished(s, k).socket = s /\ Finished(s, k).kind = k
      BY DEF Finished
    <3>2. k = "data" => Reading(s)'
      BY <2>3, <2>4, <3>1 DEF Reading
    <3>3. k = "gone" => Leaving(s)'
      BY <2>3, <2>4, <3>1 DEF Leaving, UnderWay
    <3>4. k # "error"
      BY <2>1, <2>4 DEF ReadBrings
    <3> QED BY <3>2, <3>3, <3>4
  <2>5. CASE s # t
    <3>1. reads'[s] = reads[s]
      BY <2>1, <2>5 DEF Sound, TypeOK, ReadBrings
    <3> QED BY <1>1, <1>2, <2>3, <3>1, HeldGrows DEF mainVars
  <2> QED BY <2>4, <2>5
<1> QED BY <1>1, <1>3, <1>4

LEMMA WorkerHeld ==
  ASSUME Sound, NeverDeaf, NEW w \in Worker, Dequeue(w) \/ Ignore(w) \/ Push(w)
  PROVE  NeverDeaf'
<1> SUFFICES ASSUME NEW s \in Socket, sock'[s] = "open", s \notin failed'
             PROVE  (Reading(s) \/ Leaving(s))'
  BY DEF NeverDeaf
<1>1. UNCHANGED <<sock, reads, failed, batch>> /\ job \in [Worker -> Packet \cup {NoPacket}]
  BY DEF Dequeue, Ignore, Push, ioVars, mainVars, Sound, TypeOK
<1>2. Reading(s) \/ Leaving(s)
  BY <1>1 DEF NeverDeaf
<1>3. CASE Dequeue(w)
  <2>1. /\ wPc[w] = "idle" /\ port # <<>> /\ port' = Tail(port) /\ UNCHANGED que
        /\ job' = [job EXCEPT ![w] = Head(port)]
    BY <1>3 DEF Dequeue
  <2>2. ToSet(port) = {Head(port)} \cup ToSet(port')
    BY <2>1, TailOfList DEF Sound, TypeOK
  <2>3. job[w] = NoPacket
    BY <2>1 DEF Sound, WorkersSound
  <2>4. job'[w] = Head(port) /\ \A v \in Worker : v # w => job'[v] = job[v]
    BY <1>1, <2>1
  <2>5. NoPacket.kind = "none"
    BY DEF NoPacket
  <2>6. Reading(s) => Reading(s)'
    BY <1>1, <2>2, <2>3, <2>4, <2>5 DEF Reading
  <2>7. Leaving(s) => Leaving(s)'
    <3> SUFFICES ASSUME NEW p \in UnderWay, p.socket = s, p.kind \in {"gone", "post"}
                 PROVE  p \in UnderWay'
      BY DEF Leaving
    <3>1. CASE p \in ToSet(port)
      BY <3>1, <2>2, <2>4 DEF UnderWay
    <3>2. CASE \E v \in Worker : p = job[v]
      BY <3>2, <2>3, <2>4, <2>5 DEF UnderWay
    <3>3. CASE p \in ToSet(que) \cup ToSet(batch)
      BY <3>3, <1>1, <2>1 DEF UnderWay
    <3> QED BY <3>1, <3>2, <3>3 DEF UnderWay
  <2> QED BY <1>2, <2>6, <2>7
<1>4. CASE Push(w)
  <2>1. /\ wPc[w] = "push" /\ que' = Append(que, job[w]) /\ UNCHANGED port
        /\ job[w].kind = "data" => UNCHANGED job
        /\ \A v \in Worker : v # w => job'[v] = job[v]
    BY <1>1, <1>4 DEF Push
  <2>2. job[w] \in Packet
    BY <2>1 DEF Sound, WorkersSound
  <2>3. ToSet(que') = ToSet(que) \cup {job[w]}
    BY <2>1, <2>2, AppendToList DEF Sound, TypeOK
  <2>4. Reading(s) => Reading(s)'
    BY <1>1, <2>1 DEF Reading
  <2>5. Leaving(s) => Leaving(s)'
    <3>1. UnderWay \subseteq UnderWay'
      BY <1>1, <2>1, <2>3 DEF UnderWay
    <3> QED BY <3>1 DEF Leaving
  <2> QED BY <1>2, <2>4, <2>5
<1>5. CASE Ignore(w)
  <2>1. /\ port # <<>> /\ port' = Tail(port) /\ Head(port).kind = "error"
        /\ UNCHANGED <<que, job>>
    BY <1>5 DEF Ignore
  <2>2. ToSet(port) = {Head(port)} \cup ToSet(port')
    BY <2>1, TailOfList DEF Sound, TypeOK
  <2>3. Reading(s) => Reading(s)'
    BY <1>1, <2>1, <2>2 DEF Reading
  <2>4. Leaving(s) => Leaving(s)'
    BY <1>1, <2>1, <2>2 DEF Leaving, UnderWay
  <2> QED BY <1>2, <2>3, <2>4
<1> QED BY <1>3, <1>4, <1>5

\* A worker that reads again reads for the connection its packet came from, as long as
\* that is open, or has posted its DISCONNECT.
LEMMA ReadAgainHeld ==
  ASSUME Sound, NeverDeaf, NEW w \in Worker, ReadAgain(w)
  PROVE  NeverDeaf'
<1> DEFINE u == con[job[w].con].socket
           p == Posted(job[w].con, IF u = NoSocket THEN job[w].socket ELSE u)
<1> SUFFICES ASSUME NEW s \in Socket, sock'[s] = "open", s \notin failed'
             PROVE  (Reading(s) \/ Leaving(s))'
  BY DEF NeverDeaf
<1>1. /\ UNCHANGED <<sock, failed, que, batch>> /\ wPc[w] = "read"
      /\ job' = [job EXCEPT ![w] = NoPacket]
      /\ \/ u # NoSocket /\ reads' = [reads EXCEPT ![u] = @ + 1] /\ UNCHANGED port
         \/ port' = Append(port, p) /\ UNCHANGED reads
  BY DEF ReadAgain, PrepareRead, mainVars
<1>2. /\ Reading(s) \/ Leaving(s)
      /\ reads \in [Socket -> Nat] /\ port \in Seq(Packet) /\ job \in [Worker -> Packet \cup {NoPacket}]
  BY <1>1 DEF NeverDeaf, Sound, TypeOK
<1>3. u \in Socket \cup {NoSocket} /\ p \in Packet
  BY <1>1, FailedReadIsNew DEF NewPacket
<1>4. job[w].kind = "data" /\ PacketSound(job[w])
  BY <1>1, PacketsTyped DEF Sound, WorkersSound, Packets, Jobs
<1>5. job[w].socket = s => u = s
  BY <1>1, <1>4 DEF PacketSound
<1>6. p.kind = "post" /\ (u = s => p.socket = s)
  BY ConnectionsAssumption DEF Posted
<1> HIDE DEF u, p
<1>7. reads'[s] \in Nat /\ (reads[s] > 0 => reads'[s] > 0) /\ ToSet(port) \subseteq ToSet(port')
  <2>1. CASE u # NoSocket /\ reads' = [reads EXCEPT ![u] = @ + 1] /\ UNCHANGED port
    BY <1>2, <1>3, <2>1
  <2>2. CASE port' = Append(port, p) /\ UNCHANGED reads
    <3>1. ToSet(port') = ToSet(port) \cup {p}
      BY <1>2, <1>3, <2>2, AppendToList
    <3> QED BY <1>2, <2>2, <3>1
  <2> QED BY <1>1, <2>1, <2>2
<1>8. ASSUME u = s PROVE (Reading(s) \/ Leaving(s))'
  <2>1. CASE u # NoSocket /\ reads' = [reads EXCEPT ![u] = @ + 1] /\ UNCHANGED port
    <3>1. reads'[s] > 0
      BY <1>2, <1>8, <2>1
    <3> QED BY <3>1 DEF Reading
  <2>2. CASE port' = Append(port, p) /\ UNCHANGED reads
    <3>1. p \in ToSet(port')
      BY <1>2, <1>3, <2>2, AppendToList
    <3> QED BY <1>6, <1>8, <3>1 DEF Leaving, UnderWay
  <2> QED BY <1>1, <2>1, <2>2
<1>9. \A v \in Worker : v # w => job'[v] = job[v]
  BY <1>1, <1>2
<1>10. ASSUME u # s, Reading(s) PROVE Reading(s)'
  BY <1>5, <1>7, <1>9, <1>10 DEF Reading
<1>11. ASSUME Leaving(s) PROVE Leaving(s)'
  <2> SUFFICES ASSUME NEW q \in UnderWay, q.socket = s, q.kind \in {"gone", "post"}
               PROVE  q \in UnderWay'
    BY <1>11 DEF Leaving
  <2>1. q # job[w]
    BY <1>4
  <2> QED BY <1>1, <1>7, <1>9, <2>1 DEF UnderWay
<1> QED BY <1>2, <1>8, <1>10, <1>11

BatchEmpty == main # "batch" => batch = <<>>

LEMMA StepBatchEmpty == BatchEmpty /\ [Next]_vars => BatchEmpty'
BY DEF BatchEmpty, Next, NetworkStep, MainStep, WorkerStep, Accept, ConnectFails, InsertPreConnect,
       Ignore, DataArrives, PeerGoes, ReadEnds,
       Dequeue, Push, ReadAgain, BeginPreConnect, PreConnect, EndPreConnect, BeginBatch, Handle,
       EndBatch, PostDisconnect, vars, mainVars

LEMMA MainHeld ==
  ASSUME Sound, NeverDeaf, BatchEmpty,
         \/ UNCHANGED vars
         \/ BeginPreConnect \/ EndPreConnect \/ BeginBatch \/ EndBatch
         \/ \E i \in Index : PostDisconnect(i)
  PROVE  NeverDeaf'
<1> SUFFICES ASSUME NEW s \in Socket, sock'[s] = "open", s \notin failed'
             PROVE  (Reading(s) \/ Leaving(s))'
  BY DEF NeverDeaf
<1>1. UNCHANGED <<sock, reads, failed, wPc, job>>
  BY DEF vars, BeginPreConnect, EndPreConnect, BeginBatch, EndBatch, PostDisconnect, ioVars, portVars
<1>2. (Reading(s) \/ Leaving(s)) /\ reads[s] \in Nat
  BY <1>1 DEF NeverDeaf, Sound, TypeOK
<1>3. ToSet(que) \cup ToSet(batch) \subseteq ToSet(que') \cup ToSet(batch')
  <2>1. CASE BeginBatch
    <3>1. batch = <<>> /\ batch' = que
      BY <2>1 DEF BeginBatch, BatchEmpty
    <3> QED BY <3>1 DEF ToSet
  <2>2. CASE UNCHANGED <<que, batch>>
    BY <2>2
  <2> QED BY <2>1, <2>2 DEF vars, BeginPreConnect, EndPreConnect, EndBatch, PostDisconnect, portVars, mainVars
<1>4. ToSet(port) \subseteq ToSet(port')
  <2>1. CASE \E i \in Index : PostDisconnect(i)
    <3>1. PICK i \in Index : /\ list[i] # None
                             /\ port' = Append(port, Posted(list[i], con[list[i]].socket))
      BY <2>1 DEF PostDisconnect
    <3>2. Posted(list[i], con[list[i]].socket) \in Packet /\ port \in Seq(Packet)
      BY <3>1, PostedIsNew DEF NewPacket, Sound, TypeOK
    <3> QED BY <3>1, <3>2, AppendToList
  <2>2. CASE UNCHANGED port
    BY <2>2
  <2> QED BY <2>1, <2>2 DEF vars, BeginPreConnect, EndPreConnect, BeginBatch, EndBatch, portVars
<1> QED BY <1>1, <1>2, <1>3, <1>4, HeldGrows

LEMMA SocketsHeld ==
  ASSUME Sound, NeverDeaf,
         PreConnect \/ \E t \in Socket : Accept(t) \/ ConnectFails(t)
  PROVE  NeverDeaf'
<1> SUFFICES ASSUME NEW s \in Socket, sock'[s] = "open", s \notin failed'
             PROVE  (Reading(s) \/ Leaving(s))'
  BY DEF NeverDeaf
<1>1. UNCHANGED <<failed, portVars, batch>>
  BY DEF PreConnect, Accept, ConnectFails, InsertPreConnect, mainVars
<1>2. reads[s] \in Nat /\ (sock[s] = "open" => Reading(s) \/ Leaving(s))
  BY <1>1 DEF NeverDeaf, Sound, TypeOK
<1>3. CASE sock[s] = "open" /\ reads'[s] \in Nat /\ reads'[s] >= reads[s]
  BY <1>1, <1>2, <1>3, HeldGrows DEF portVars
<1>4. CASE reads'[s] > 0
  BY <1>4 DEF Reading
<1>5. CASE \E t \in Socket : Accept(t) \/ ConnectFails(t)
  <2>1. sock[s] = "open" /\ UNCHANGED reads
    BY <1>5 DEF Accept, ConnectFails, InsertPreConnect, Sound, TypeOK
  <2> QED BY <1>2, <1>3, <2>1
<1>6. CASE PreConnect
  <2>1. preConnect # <<>> /\ Head(preConnect) \in Socket
    BY <1>6, TailOfList DEF PreConnect, Sound, TypeOK
  <2>2. CASE NoIndexLeft(Head(preConnect)) \/ FailConnect(Head(preConnect))
    <3>1. sock[s] = "open" /\ UNCHANGED reads
      BY <2>1, <2>2 DEF NoIndexLeft, FailConnect, Sound, TypeOK
    <3> QED BY <1>2, <1>3, <3>1
  <2>3. CASE AddConnection(Head(preConnect))
    <3>1. \/ s = Head(preConnect) /\ reads'[s] = reads[s] + 1
          \/ sock[s] = "open" /\ reads'[s] = reads[s]
      BY <2>1, <2>3 DEF AddConnection, Sound, TypeOK
    <3> QED BY <1>2, <1>3, <1>4, <3>1
  <2> QED BY <1>6, <2>2, <2>3 DEF PreConnect
<1> QED BY <1>5, <1>6

\* The messages that are handled: a DISCONNECT of an open connection closes that one.
LEMMA HandleHeld ==
  ASSUME Sound, NeverDeaf, Handle
  PROVE  NeverDeaf'
<1> DEFINE m == Head(batch)
<1> SUFFICES ASSUME NEW s \in Socket, sock'[s] = "open", s \notin failed'
             PROVE  (Reading(s) \/ Leaving(s))'
  BY DEF NeverDeaf
<1>1. /\ batch # <<>> /\ batch' = Tail(batch) /\ UNCHANGED <<port, wPc, job, que>>
      /\ IF list[m.index] # None /\ m.kind # "data"
           THEN CloseConnection(m.index) ELSE UNCHANGED <<ioVars, netVars>>
  BY DEF Handle, portVars
<1>2. ToSet(batch) = {m} \cup ToSet(batch')
  BY <1>1, TailOfList DEF Sound, TypeOK
<1>3. PacketSound(m) /\ m \in Packet
  BY <1>2, PacketsTyped DEF Packets
<1> HIDE DEF m
<1>4. m.index \in Index /\ m.kind \in {"data", "gone", "error", "post"}
  BY <1>3 DEF Packet
<1>5. /\ sock[s] = "open" /\ reads'[s] = reads[s] /\ s \notin failed
      /\ list[m.index] # None /\ m.kind # "data" => con[list[m.index]].socket # s
  <2>1. CASE list[m.index] # None /\ m.kind # "data"
    <3> DEFINE t == con[list[m.index]].socket
    <3>1. CloseConnection(m.index) /\ t \in Socket
      BY <1>1, <1>4, <2>1, UsedIndex DEF Sound
    <3>2. /\ sock' = [sock EXCEPT ![t] = "closed"] /\ reads' = [reads EXCEPT ![t] = 0]
          /\ UNCHANGED failed
      BY <3>1 DEF CloseConnection
    <3> HIDE DEF t
    <3>3. t # s /\ sock'[s] = sock[s] /\ reads'[s] = reads[s]
      BY <3>1, <3>2 DEF Sound, TypeOK
    <3> QED BY <3>2, <3>3 DEF t
  <2>2. CASE ~(list[m.index] # None /\ m.kind # "data")
    BY <1>1, <2>2 DEF ioVars
  <2> QED BY <2>1, <2>2
<1>6. Reading(s) => Reading(s)'
  BY <1>1, <1>5 DEF Reading
<1>7. m.kind # "data" => m.socket # s
  BY <1>3, <1>5 DEF PacketSound
<1>8. Leaving(s) => Leaving(s)'
  <2> SUFFICES ASSUME NEW p \in UnderWay, p.socket = s, p.kind \in {"gone", "post"}
               PROVE  p \in UnderWay'
    BY DEF Leaving
  <2>1. p # m
    BY <1>7
  <2> QED BY <1>1, <1>2, <2>1 DEF UnderWay
<1> QED BY <1>5, <1>6, <1>8 DEF NeverDeaf

LEMMA StepHeld == Sound /\ BatchEmpty /\ NeverDeaf /\ [Next]_vars => NeverDeaf'
BY ReadHeld, WorkerHeld, ReadAgainHeld, MainHeld, SocketsHeld, HandleHeld
   DEF Next, NetworkStep, MainStep, WorkerStep

\* An open connection has a read pending, one that a worker will repeat, or a DISCONNECT
\* under way; the only exceptions are those of which a read has failed with an error the
\* workers do not look at.
THEOREM OpenIsHeard == SafeSpec => []NeverDeaf
<1>1. Init => NeverDeaf /\ BatchEmpty
  BY DEF Init, NeverDeaf, BatchEmpty
<1>2. Sound /\ BatchEmpty /\ NeverDeaf /\ [Next]_vars => NeverDeaf'
  BY StepHeld
<1> QED BY <1>1, <1>2, StepBatchEmpty, AlwaysSound, PTL DEF SafeSpec

(***************************************************************************)
(* The sending side.  Whatever the sizes, SendQueue keeps its chain, its   *)
(* counters and what is in flight in agreement, and sends as SendPipe      *)
(* promises.                                                               *)
(***************************************************************************)

Byte == (1..MaxMsgs) \X Nat

(***************************************************************************)
(* Counting and sequences.                                                 *)
(***************************************************************************)

\* A set of numbers that is not empty has a least one.
LEMMA LeastNumber ==
  ASSUME NEW T \in SUBSET Nat, T # {}
  PROVE  \E x \in T : \A y \in T : x <= y
<1> DEFINE R == OpToRel(<, Nat)
<1>1. IsWellFoundedOn(R, Nat)
  BY NatLessThanWellFounded
<1>2. \A x, y \in Nat : <<y, x>> \in R <=> y < x
  BY DEF OpToRel
<1> HIDE DEF R
<1>3. PICK x \in T : \A y \in T : ~(<<y, x>> \in R)
  BY <1>1, WFMin
<1>4. \A y \in T : ~(y < x) /\ y \in Nat
  BY <1>2, <1>3
<1> QED BY <1>4

\* What holds of zero and goes from a number to the next holds up to n.
LEMMA Climb ==
  ASSUME NEW n \in Nat, NEW S, 0 \in S, \A k \in 1..n : k - 1 \in S => k \in S
  PROVE  \A k \in 0..n : k \in S
<1> SUFFICES ASSUME NEW k \in 0..n, k \notin S PROVE FALSE
  OBVIOUS
<1>1. PICK x \in (0..n) \ S : \A y \in (0..n) \ S : x <= y
  <2>1. (0..n) \ S \in SUBSET Nat /\ (0..n) \ S # {}
    OBVIOUS
  <2> QED BY <2>1, LeastNumber
<1>2. x \in 1..n /\ x - 1 \in 0..n /\ ~(x <= x - 1)
  BY <1>1
<1>3. x - 1 \in S
  BY <1>1, <1>2
<1> QED BY <1>1, <1>2, <1>3

\* The beginning of a list with something after it
LEMMA Beginning ==
  ASSUME NEW T, NEW s \in Seq(T), NEW t \in Seq(T)
  PROVE  /\ SubSeq(s \o t, 1, Len(s)) = s
         /\ SubSeq(s \o t, Len(s) + 1, Len(s) + Len(t)) = t
         /\ \A n \in 0..Len(s) : SubSeq(s \o t, 1, n) = SubSeq(s, 1, n)
<1>1. /\ Len(s) \in Nat /\ Len(t) \in Nat /\ s \o t \in Seq(T) /\ Len(s \o t) = Len(s) + Len(t)
      /\ \A i \in 1..(Len(s) + Len(t)) : (s \o t)[i] = IF i <= Len(s) THEN s[i] ELSE t[i - Len(s)]
  BY LenProperties, ConcatProperties
<1>2. \A i \in 1..(Len(s) + Len(t)) : (s \o t)[i] \in T
  BY <1>1, ElementOfSeq
<1>3. \A i \in 1..Len(s) : s[i] \in T
  BY ElementOfSeq
<1>4. ASSUME NEW n \in 0..Len(s) PROVE SubSeq(s \o t, 1, n) = SubSeq(s, 1, n)
  <2>1. /\ SubSeq(s \o t, 1, n) \in Seq(T) /\ Len(SubSeq(s \o t, 1, n)) = n
        /\ \A i \in 1..n : SubSeq(s \o t, 1, n)[i] = (s \o t)[i]
    BY <1>1, <1>2, SubSeqProperties
  <2>2. /\ SubSeq(s, 1, n) \in Seq(T) /\ Len(SubSeq(s, 1, n)) = n
        /\ \A i \in 1..n : SubSeq(s, 1, n)[i] = s[i]
    BY <1>1, <1>3, SubSeqProperties
  <2> QED BY <1>1, <2>1, <2>2, SeqEqual
<1>5. SubSeq(s \o t, Len(s) + 1, Len(s) + Len(t)) = t
  <2> PICK r : r = SubSeq(s \o t, Len(s) + 1, Len(s) + Len(t))
    OBVIOUS
  <2>1. /\ r \in Seq(T) /\ Len(r) = Len(t)
        /\ \A i \in 1..Len(t) : r[i] = (s \o t)[Len(s) + i]
    BY <1>1, <1>2, SubSeqProperties
  <2>2. \A i \in 1..Len(t) : r[i] = t[i]
    BY <1>1, <2>1
  <2> QED BY <2>1, <2>2, SeqEqual
<1>6. SubSeq(s, 1, Len(s)) = s /\ Len(s) \in 0..Len(s)
  BY <1>1, SubSeqFull
<1> QED BY <1>4, <1>5, <1>6

\* A list cut in two
LEMMA Cut ==
  ASSUME NEW T, NEW s \in Seq(T), NEW m \in Nat, NEW n \in Nat, m <= n, n <= Len(s)
  PROVE  /\ SubSeq(s, 1, m) \o SubSeq(s, m + 1, n) = SubSeq(s, 1, n)
         /\ SubSeq(s, m + 1, n) \in Seq(T) /\ Len(SubSeq(s, m + 1, n)) = n - m
         /\ SubSeq(s, 1, m) \in Seq(T) /\ Len(SubSeq(s, 1, m)) = m
         /\ SubSeq(SubSeq(s, 1, n), 1, m) = SubSeq(s, 1, m)
<1>1. Len(s) \in Nat /\ \A i \in 1..Len(s) : s[i] \in T
  BY LenProperties, ElementOfSeq
<1>2. SubSeq(s, 1, m) \o SubSeq(s, m + 1, n) = SubSeq(s, 1, n)
  <2>1. 1 \in 1..(Len(s) + 1) /\ m \in (1 - 1)..Len(s) /\ n \in m..Len(s)
    BY <1>1
  <2> QED BY <2>1, ConcatAdjacentSubSeq
<1>3. SubSeq(s, m + 1, n) \in Seq(T) /\ Len(SubSeq(s, m + 1, n)) = n - m
  BY <1>1, SubSeqProperties
<1>4. SubSeq(s, 1, m) \in Seq(T) /\ Len(SubSeq(s, 1, m)) = m
  BY <1>1, SubSeqProperties
<1>5. SubSeq(SubSeq(s, 1, n), 1, m) = SubSeq(s, 1, m)
  BY <1>2, <1>3, <1>4, Beginning
<1> QED BY <1>2, <1>3, <1>4, <1>5

\* The same of lists of bytes
LEMMA Regrouped ==
  \A s, t, z \in Seq(Byte) : (s \o t) \o z = s \o (t \o z)
BY ConcatAssociative

LEMMA BytesJoin ==
  \A s, t \in Seq(Byte) :
    /\ s \o t \in Seq(Byte) /\ Len(s \o t) = Len(s) + Len(t)
    /\ Len(s) \in Nat /\ Len(t) \in Nat /\ Len(s \o t) \in Nat
    /\ s \o <<>> = s /\ <<>> \o s = s
BY ConcatProperties, ConcatEmptySeq, LenProperties

LEMMA BytesBegin ==
  \A s, t \in Seq(Byte) :
    /\ SubSeq(s \o t, 1, Len(s)) = s
    /\ SubSeq(s \o t, Len(s) + 1, Len(s) + Len(t)) = t
    /\ \A n \in 0..Len(s) : SubSeq(s \o t, 1, n) = SubSeq(s, 1, n)
BY Beginning

LEMMA BytesCut ==
  \A s \in Seq(Byte), m, n \in Nat :
    m <= n /\ n <= Len(s) =>
      /\ SubSeq(s, 1, m) \o SubSeq(s, m + 1, n) = SubSeq(s, 1, n)
      /\ SubSeq(s, m + 1, n) \in Seq(Byte) /\ Len(SubSeq(s, m + 1, n)) = n - m
      /\ SubSeq(s, 1, m) \in Seq(Byte) /\ Len(SubSeq(s, 1, m)) = m
      /\ SubSeq(SubSeq(s, 1, n), 1, m) = SubSeq(s, 1, m)
BY Cut

Halves(s, r, a, b) == /\ a \in Seq(Byte) /\ b \in Seq(Byte) /\ a \o b = s
                      /\ a = SubSeq(s, 1, r) /\ b = SubSeq(s, r + 1, Len(s))
                      /\ Len(a) = r /\ Len(b) = Len(s) - r /\ Len(s) \in Nat

LEMMA CutAt ==
  \A s \in Seq(Byte), r \in Nat : r <= Len(s) => \E a, b : Halves(s, r, a, b)
<1> SUFFICES ASSUME NEW s \in Seq(Byte), NEW r \in Nat, r <= Len(s)
             PROVE  \E a, b : Halves(s, r, a, b)
  OBVIOUS
<1>1. Len(s) \in Nat /\ Len(s) <= Len(s)
  BY LenProperties
<1>2. /\ SubSeq(s, 1, r) \o SubSeq(s, r + 1, Len(s)) = SubSeq(s, 1, Len(s))
      /\ SubSeq(s, r + 1, Len(s)) \in Seq(Byte) /\ Len(SubSeq(s, r + 1, Len(s))) = Len(s) - r
      /\ SubSeq(s, 1, r) \in Seq(Byte) /\ Len(SubSeq(s, 1, r)) = r
  BY <1>1, BytesCut, Zenon
<1>3. SubSeq(s, 1, Len(s)) = s
  BY SubSeqFull
<1>4. Halves(s, r, SubSeq(s, 1, r), SubSeq(s, r + 1, Len(s)))
  BY <1>1, <1>2, <1>3 DEF Halves
<1> QED BY <1>4

(***************************************************************************)
(* What the objects of a chain hold, one after the other.                  *)
(***************************************************************************)

(* c[n] is what the first n of the lists u hold. *)
Joined(c, u) ==
  /\ c \in [0..MemObjNum -> Seq(Byte)] /\ u \in [Block -> Seq(Byte)]
  /\ c[0] = <<>>
  /\ \A n \in Block : c[n] = c[n - 1] \o u[n]

IsObject(b) == /\ b \in [buf : Seq(Byte), read : Nat]
               /\ b.read <= Len(b.buf)
IsChain(chain) == DOMAIN chain = Block /\ \A j \in Block : IsObject(chain[j])
Unreads(chain) == [j \in Block |-> Unread(chain[j])]

LEMMA UnreadType ==
  ASSUME NEW b, IsObject(b)
  PROVE  Unread(b) \in Seq(Byte) /\ Len(Unread(b)) = Len(b.buf) - b.read
<1>1. Len(b.buf) \in Nat /\ b.read \in Nat /\ b.buf \in Seq(Byte) /\ b.read <= Len(b.buf)
  BY LenProperties DEF IsObject
<1> QED BY <1>1, Cut DEF Unread

LEMMA Unrolled ==
  ASSUME Sizes, NEW chain, IsChain(chain)
  PROVE  Joined(Contents(chain), Unreads(chain))
<1> DEFINE Rec(f, n) == [k \in 0..n |-> IF k = 0 THEN <<>> ELSE f[k - 1] \o Unread(chain[k])]
<1>0. MemObjNum \in Nat \ {0}
  BY DEF Sizes
<1>1. \A k \in 0..MemObjNum : k \in {n \in 0..MemObjNum : \E f : f = Rec(f, n)}
  <2> PICK S : S = {n \in 0..MemObjNum : \E f : f = Rec(f, n)}
    OBVIOUS
  <2>1. 0 \in S
    <3> PICK f : f = [k \in 0..0 |-> <<>>]
      OBVIOUS
    <3>1. f = Rec(f, 0)
      OBVIOUS
    <3> QED BY <1>0, <3>1
  <2>2. ASSUME NEW n \in 1..MemObjNum, n - 1 \in S PROVE n \in S
    <3>1. PICK g : g = Rec(g, n - 1)
      BY <2>2
    <3>2. PICK f : f = [k \in 0..n |-> IF k = n THEN g[n - 1] \o Unread(chain[n]) ELSE g[k]]
      OBVIOUS
    <3>3. \A k \in 0..(n - 1) : f[k] = g[k]
      BY <1>0, <3>2
    <3>4. \A k \in 0..n : f[k] = IF k = 0 THEN <<>> ELSE f[k - 1] \o Unread(chain[k])
      <4> SUFFICES ASSUME NEW k \in 0..n
                   PROVE f[k] = IF k = 0 THEN <<>> ELSE f[k - 1] \o Unread(chain[k])
        OBVIOUS
      <4>1. CASE k = n
        BY <1>0, <3>2, <3>3, <4>1
      <4>2. CASE k # n
        <5>1. k \in 0..(n - 1) /\ (k # 0 => k - 1 \in 0..(n - 1))
          BY <1>0, <4>2
        <5>2. g[k] = IF k = 0 THEN <<>> ELSE g[k - 1] \o Unread(chain[k])
          BY <3>1, <5>1
        <5> QED BY <3>3, <5>1, <5>2
      <4> QED BY <4>1, <4>2
    <3>5. f = Rec(f, n)
      BY <3>2, <3>4
    <3> QED BY <1>0, <3>5
  <2> QED BY <1>0, <2>1, <2>2, Climb
<1>2. \E f : f = Rec(f, MemObjNum)
  <2> HIDE DEF Rec
  <2>1. MemObjNum \in {n \in 0..MemObjNum : \E f : f = Rec(f, n)}
    BY <1>0, <1>1
  <2> QED BY <2>1
<1>3. PICK c : c = Contents(chain)
  OBVIOUS
<1>4. c = CHOOSE f : f = Rec(f, MemObjNum)
  BY <1>3 DEF Contents
<1>5. c = Rec(c, MemObjNum)
  BY <1>2, <1>4
<1>6. /\ c[0] = <<>> /\ DOMAIN c = 0..MemObjNum
      /\ \A n \in Block : c[n] = c[n - 1] \o Unread(chain[n])
  BY <1>0, <1>5 DEF Block
<1>7. \A n \in Block : Unread(chain[n]) \in Seq(Byte)
  BY UnreadType DEF IsChain
<1>8. \A k \in 0..MemObjNum : k \in {n \in 0..MemObjNum : c[n] \in Seq(Byte)}
  <2> PICK S : S = {n \in 0..MemObjNum : c[n] \in Seq(Byte)}
    OBVIOUS
  <2>1. 0 \in S
    <3>1. c[0] \in Seq(Byte)
      BY <1>6, EmptySeq
    <3> QED BY <1>0, <3>1
  <2>2. ASSUME NEW n \in 1..MemObjNum, n - 1 \in S PROVE n \in S
    <3>1. n \in Block /\ c[n - 1] \in Seq(Byte) /\ Unread(chain[n]) \in Seq(Byte)
      BY <1>7, <2>2 DEF Block
    <3>2. c[n] \in Seq(Byte)
      BY <1>6, <3>1, ConcatProperties
    <3> QED BY <1>0, <3>2
  <2> QED BY <1>0, <2>1, <2>2, Climb
<1>9. c \in [0..MemObjNum -> Seq(Byte)]
  BY <1>5, <1>8
<1> QED BY <1>3, <1>6, <1>7, <1>9 DEF Joined, Unreads

\* What the first objects hold stands at the beginning of what more of them hold.
LEMMA Growing ==
  ASSUME Sizes, NEW c, NEW u, Joined(c, u), NEW m \in 0..MemObjNum
  PROVE  \A n \in m..MemObjNum :
           /\ Len(c[m]) \in Nat /\ Len(c[n]) \in Nat /\ Len(c[m]) <= Len(c[n])
           /\ c[m] = SubSeq(c[n], 1, Len(c[m]))
<1> DEFINE P(n) == /\ Len(c[m]) \in Nat /\ Len(c[n]) \in Nat /\ Len(c[m]) <= Len(c[n])
                   /\ c[m] = SubSeq(c[n], 1, Len(c[m]))
<1>0. MemObjNum \in Nat \ {0}
  BY DEF Sizes
<1>1. \A n \in 0..MemObjNum : c[n] \in Seq(Byte) /\ Len(c[n]) \in Nat
  BY LenProperties DEF Joined
<1>2. PICK S : S = {n \in 0..MemObjNum : n < m \/ P(n)}
  OBVIOUS
<1>3. P(m)
  BY <1>1, SubSeqFull
<1>4. ASSUME NEW n \in 1..MemObjNum, n - 1 \in S PROVE n \in S
  <2>1. CASE n < m
    BY <1>0, <1>2, <2>1
  <2>2. CASE n = m
    BY <1>0, <1>2, <1>3, <2>2
  <2>3. CASE n > m
    <3>1. P(n - 1) /\ n \in Block /\ n - 1 \in 0..MemObjNum
      BY <1>0, <1>2, <1>4, <2>3 DEF Block
    <3>2. c[n] = c[n - 1] \o u[n] /\ u[n] \in Seq(Byte) /\ c[n - 1] \in Seq(Byte)
      BY <1>1, <3>1 DEF Joined
    <3>3. PICK l : l = Len(c[m])
      OBVIOUS
    <3>4. \A i \in 0..Len(c[n - 1]) : SubSeq(c[n], 1, i) = SubSeq(c[n - 1], 1, i)
      <4> PICK x \in Seq(Byte), y \in Seq(Byte) : x = c[n - 1] /\ y = u[n]
        BY <3>2
      <4>1. \A i \in 0..Len(x) : SubSeq(x \o y, 1, i) = SubSeq(x, 1, i)
        BY BytesBegin, ZenonT(60)
      <4> QED BY <3>2, <4>1
    <3>5. Len(c[n]) = Len(c[n - 1]) + Len(u[n]) /\ Len(u[n]) \in Nat
      BY <3>2, ConcatProperties, LenProperties
    <3>6. l \in 0..Len(c[n - 1]) /\ c[m] = SubSeq(c[n - 1], 1, l)
      BY <3>1, <3>3
    <3>7. c[m] = SubSeq(c[n], 1, l)
      BY <3>4, <3>6
    <3>8. Len(c[m]) \in Nat /\ Len(c[n]) \in Nat /\ Len(c[m]) <= Len(c[n])
      <4>1. Len(c[m]) \in Nat /\ Len(c[n - 1]) \in Nat /\ Len(c[m]) <= Len(c[n - 1])
        BY <3>1
      <4>2. \A x, y, z \in Nat : x <= y => x <= y + z /\ y + z \in Nat
        OBVIOUS
      <4>3. /\ Len(c[m]) <= Len(c[n - 1]) + Len(u[n])
            /\ Len(c[n - 1]) + Len(u[n]) \in Nat
        BY <3>5, <4>1, <4>2, Zenon
      <4> QED BY <3>5, <4>1, <4>3, Zenon
    <3>9. P(n)
      BY <3>3, <3>7, <3>8
    <3> QED BY <1>0, <1>2, <3>9
  <2> QED BY <1>0, <2>1, <2>2, <2>3
<1>5. 0 \in S
  BY <1>0, <1>2, <1>3
<1>6. \A n \in 0..MemObjNum : n \in S
  BY <1>0, <1>4, <1>5, Climb
<1>7. \A n \in m..MemObjNum : P(n)
  BY <1>0, <1>2, <1>6
<1> QED BY <1>7

\* Nothing is added by objects that are empty.
LEMMA Still ==
  ASSUME Sizes, NEW c, NEW u, Joined(c, u), NEW m \in 0..MemObjNum,
         \A j \in Block : j > m => u[j] = <<>>
  PROVE  \A n \in m..MemObjNum : c[n] = c[m]
<1>0. MemObjNum \in Nat \ {0}
  BY DEF Sizes
<1>1. PICK S : S = {n \in 0..MemObjNum : n < m \/ c[n] = c[m]}
  OBVIOUS
<1>2. ASSUME NEW n \in 1..MemObjNum, n - 1 \in S PROVE n \in S
  <2>1. CASE n > m
    <3>1. n \in Block /\ n - 1 \in 0..MemObjNum /\ c[n - 1] = c[m]
      BY <1>0, <1>1, <1>2, <2>1 DEF Block
    <3>2. c[n] = c[n - 1] \o <<>> /\ c[n - 1] \in Seq(Byte)
      BY <2>1, <3>1 DEF Joined
    <3>3. c[n] = c[m]
      BY <3>1, <3>2, ConcatEmptySeq
    <3> QED BY <1>0, <1>1, <3>3
  <2> QED BY <1>0, <1>1, <2>1
<1>3. 0 \in S
  BY <1>0, <1>1
<1>4. \A n \in 0..MemObjNum : n \in S
  BY <1>0, <1>2, <1>3, Climb
<1> QED BY <1>0, <1>1, <1>4

(* v is u with p added: nothing before list w, and w was the last with anything in it. *)
Extends(v, u, p, w) ==
  /\ w \in Block
  /\ \A j \in Block : /\ v[j] = u[j] \o p[j]
                      /\ j < w => p[j] = <<>>
                      /\ j > w => u[j] = <<>>

Sums(d, c, e) == \A n \in 0..MemObjNum : d[n] = c[n] \o e[n]

\* Lists that grow at their ends, the first of them that grows being the last with
\* anything in it, grow as one.
LEMMA Extended ==
  ASSUME Sizes, NEW c, NEW u, Joined(c, u), NEW d, NEW v, Joined(d, v),
         NEW e, NEW p, Joined(e, p), NEW w, Extends(v, u, p, w)
  PROVE  Sums(d, c, e)
<1>0. MemObjNum \in Nat \ {0}
  BY DEF Sizes
<1> USE DEF Extends
<1> DEFINE P(n) == (n < w => e[n] = <<>>) /\ d[n] = c[n] \o e[n]
<1>1. PICK S : S = {n \in 0..MemObjNum : P(n)}
  OBVIOUS
<1>2. ASSUME NEW n \in 1..MemObjNum, n - 1 \in S PROVE n \in S
  <2>0. /\ n \in Block /\ n - 1 \in 0..MemObjNum /\ n \in 0..MemObjNum
        /\ n \in Nat /\ w \in Nat
    BY <1>0 DEF Block
  <2>1. d[n - 1] = c[n - 1] \o e[n - 1] /\ (n - 1 < w => e[n - 1] = <<>>)
    BY <1>1, <1>2
  <2>2. /\ c[n - 1] \in Seq(Byte) /\ e[n - 1] \in Seq(Byte) /\ u[n] \in Seq(Byte)
        /\ p[n] \in Seq(Byte)
    BY <2>0 DEF Joined
  <2>3. /\ c[n] = c[n - 1] \o u[n] /\ e[n] = e[n - 1] \o p[n] /\ v[n] = u[n] \o p[n]
        /\ d[n] = d[n - 1] \o v[n]
    BY <2>0 DEF Joined
  <2>4. CASE n <= w
    <3>1. e[n - 1] = <<>>
      BY <2>0, <2>1, <2>4
    <3>2. e[n] = p[n] /\ d[n - 1] = c[n - 1]
      BY <2>1, <2>2, <2>3, <3>1, ConcatEmptySeq
    <3>3. (c[n - 1] \o u[n]) \o p[n] = c[n - 1] \o (u[n] \o p[n])
      BY <2>2, Regrouped
    <3>4. d[n] = c[n] \o e[n]
      BY <2>3, <3>2, <3>3
    <3>5. n < w => e[n] = <<>>
      BY <2>0, <3>2
    <3>6. P(n)
      BY <3>4, <3>5
    <3> HIDE DEF P
    <3> QED BY <1>1, <2>0, <3>6
  <2>5. CASE n > w
    <3>1. c[n] = c[n - 1] /\ v[n] = p[n]
      BY <2>0, <2>2, <2>3, <2>5, ConcatEmptySeq
    <3>2. (c[n - 1] \o e[n - 1]) \o p[n] = c[n - 1] \o (e[n - 1] \o p[n])
      BY <2>2, Regrouped
    <3>3. d[n] = c[n] \o e[n]
      BY <2>1, <2>3, <3>1, <3>2
    <3>4. P(n)
      BY <2>0, <2>5, <3>3
    <3> HIDE DEF P
    <3> QED BY <1>1, <2>0, <3>4
  <2> QED BY <2>0, <2>4, <2>5
<1>3. 0 \in S
  <2>1. d[0] = <<>> /\ c[0] = <<>> /\ e[0] = <<>>
    BY DEF Joined
  <2>2. <<>> \in Seq(Byte) /\ <<>> \o <<>> = <<>>
    BY EmptySeq, ConcatEmptySeq
  <2>3. P(0)
    BY <2>1, <2>2
  <2> HIDE DEF P
  <2> QED BY <1>0, <1>1, <2>3
<1>4. \A n \in 0..MemObjNum : n \in S
  BY <1>0, <1>2, <1>3, Climb
<1> QED BY <1>1, <1>4 DEF Sums

(* From object w on, p[j] is what stands in s between lo[j] and hi[j]. *)
Divides(p, w, s, lo, hi) ==
  /\ w \in Block /\ s \in Seq(Byte) /\ lo \in [Block -> Nat] /\ hi \in [Block -> Nat]
  /\ lo[w] = 0
  /\ \A j \in Block : /\ j < w => p[j] = <<>>
                      /\ j > w => lo[j] = hi[j - 1]
                      /\ lo[j] <= hi[j]
                      /\ j >= w => p[j] = SubSeq(s, lo[j] + 1, Least(Len(s), hi[j]))
HoldsUpTo(e, w, s, hi) == \A n \in w..MemObjNum : e[n] = SubSeq(s, 1, Least(Len(s), hi[n]))

\* A list divided among the objects from number w on, each with room for some of it
LEMMA Divided ==
  ASSUME Sizes, NEW e, NEW p, Joined(e, p),
         NEW w, NEW s, NEW lo, NEW hi, Divides(p, w, s, lo, hi)
  PROVE  HoldsUpTo(e, w, s, hi)
<1>0. MemObjNum \in Nat \ {0} /\ Len(s) \in Nat
  BY LenProperties DEF Sizes, Divides
<1> USE DEF Divides
<1> PICK l \in Nat : l = Len(s)
  BY <1>0
<1>1. PICK S : S = {n \in 0..MemObjNum : IF n < w THEN e[n] = <<>>
                                         ELSE e[n] = SubSeq(s, 1, Least(l, hi[n]))}
  OBVIOUS
<1>2. ASSUME NEW n \in 1..MemObjNum, n - 1 \in S PROVE n \in S
  <2>1. n \in Block /\ n - 1 \in 0..MemObjNum
    BY <1>0 DEF Block
  <2>2. e[n - 1] \in Seq(Byte) /\ p[n] \in Seq(Byte) /\ e[n] = e[n - 1] \o p[n]
    BY <2>1 DEF Joined
  <2>3. CASE n < w
    <3>1. e[n - 1] = <<>> /\ p[n] = <<>>
      BY <1>0, <1>1, <1>2, <2>1, <2>3 DEF Block
    <3>2. e[n] = <<>>
      BY <2>2, <3>1, ConcatEmptySeq
    <3> QED BY <1>0, <1>1, <2>3, <3>2
  <2>4. CASE n = w
    <3>0. e[n - 1] = <<>>
      BY <1>0, <1>1, <1>2, <2>1, <2>4 DEF Block
    <3>1. p[n] = SubSeq(s, 1, Least(l, hi[n]))
      <4>1. n >= w /\ lo[n] = 0
        BY <1>0, <2>1, <2>4 DEF Block
      <4>2. p[n] = SubSeq(s, lo[n] + 1, Least(Len(s), hi[n]))
        BY <2>1, <4>1
      <4> QED BY <4>1, <4>2
    <3>2. e[n] = SubSeq(s, 1, Least(l, hi[n]))
      BY <2>2, <3>0, <3>1, ConcatEmptySeq
    <3> QED BY <1>0, <1>1, <2>4, <3>2
  <2>5. CASE n > w
    <3>1. /\ n - 1 \in Block /\ ~(n - 1 < w)
      BY <1>0, <2>5 DEF Block
    <3>2. e[n - 1] = SubSeq(s, 1, Least(l, hi[n - 1]))
      BY <1>1, <1>2, <3>1
    <3>3. p[n] = SubSeq(s, hi[n - 1] + 1, Least(l, hi[n])) /\ hi[n - 1] <= hi[n]
      BY <2>1, <2>5 DEF Block
    <3>4. PICK a \in Nat, b \in Nat : a = hi[n - 1] /\ b = hi[n]
      BY <2>1, <3>1
    <3>5. CASE a <= l
      <4>1. Least(l, a) = a /\ a <= Least(l, b) /\ Least(l, b) <= l /\ Least(l, b) \in Nat
        BY <3>3, <3>4, <3>5 DEF Least
      <4> PICK z \in Nat : z = Least(l, b)
        BY <4>1
      <4>3. SubSeq(s, 1, a) \o SubSeq(s, a + 1, z) = SubSeq(s, 1, z)
        BY <4>1, BytesCut
      <4>2. e[n] = SubSeq(s, 1, Least(l, b))
        BY <2>2, <3>2, <3>3, <3>4, <4>1, <4>3
      <4> QED BY <1>0, <1>1, <2>5, <3>4, <4>2 DEF Block
    <3>6. CASE a > l
      <4>1. Least(l, a) = l /\ Least(l, b) = l
        BY <3>3, <3>4, <3>6 DEF Least
      <4>2. p[n] = <<>>
        BY <3>3, <3>4, <3>6, <4>1, SubSeqEmpty
      <4>3. e[n] = SubSeq(s, 1, Least(l, b))
        BY <2>2, <3>2, <3>4, <4>1, <4>2, ConcatEmptySeq
      <4> QED BY <1>0, <1>1, <2>5, <3>4, <4>3 DEF Block
    <3> QED BY <3>4, <3>5, <3>6
  <2> QED BY <1>0, <2>3, <2>4, <2>5 DEF Block
<1>3. 0 \in S
  <2>1. 0 < w /\ e[0] = <<>>
    BY <1>0 DEF Joined, Block
  <2> QED BY <1>0, <1>1, <2>1
<1>4. \A n \in 0..MemObjNum : n \in S
  BY <1>0, <1>2, <1>3, Climb
<1> QED BY <1>0, <1>1, <1>4 DEF Block, HoldsUpTo

(* v is u without its first k lists and r bytes of the next. *)
Shortens(v, u, k, r) ==
  /\ k \in 0..(MemObjNum - 1) /\ r \in Nat /\ r <= Len(u[k + 1])
  /\ v[1] = SubSeq(u[k + 1], r + 1, Len(u[k + 1]))
  /\ \A j \in Block : j > 1 /\ j <= MemObjNum - k => v[j] = u[j + k]
  /\ \A j \in Block : j > MemObjNum - k => v[j] = <<>>

Remains(t, s, q) == q <= Len(s) /\ t = SubSeq(s, q + 1, Len(s))

\* The first k lists are taken away, and r bytes of the next.
LEMMA Shortened ==
  ASSUME Sizes, NEW c, NEW u, Joined(c, u), NEW d, NEW v, Joined(d, v),
         NEW k, NEW r, Shortens(v, u, k, r)
  PROVE  Remains(d[MemObjNum], c[MemObjNum], Len(c[k]) + r)
<1>0. MemObjNum \in Nat \ {0} /\ 1 \in Block
  BY DEF Sizes, Block
<1> USE DEF Shortens
<1>1. \A n \in 0..MemObjNum : /\ c[n] \in Seq(Byte) /\ Len(c[n]) \in Nat
                              /\ d[n] \in Seq(Byte) /\ Len(d[n]) \in Nat
  BY LenProperties DEF Joined
<1>2. MemObjNum - k \in 0..MemObjNum /\ MemObjNum \in (MemObjNum - k)..MemObjNum
  BY <1>0
<1>3. d[MemObjNum] = d[MemObjNum - k]
  BY <1>2, Still
<1>5. /\ k < MemObjNum /\ r <= Len(u[k + 1]) /\ r \in Nat /\ k \in Nat
      /\ v[1] = SubSeq(u[k + 1], r + 1, Len(u[k + 1]))
  BY <1>0
<1>6. /\ Len(c[k]) + r <= Len(c[MemObjNum])
      /\ d[MemObjNum] = SubSeq(c[MemObjNum], Len(c[k]) + r + 1, Len(c[MemObjNum]))
  <2>1. /\ k + 1 \in Block /\ k + 1 \in 0..MemObjNum /\ k \in 0..MemObjNum
        /\ 1 \in 0..MemObjNum /\ (k + 1) - 1 = k
    BY <1>0, <1>5 DEF Block
  <2>2. PICK x \in Seq(Byte) : x = u[k + 1]
    BY <2>1 DEF Joined
  <2>3. PICK y \in Seq(Byte), z \in Seq(Byte) : /\ y = SubSeq(x, 1, r)
                                                /\ z = SubSeq(x, r + 1, Len(x))
                                                /\ x = y \o z /\ Len(y) = r
    <3>1. \E a, b : Halves(x, r, a, b)
      BY <1>5, <2>2, CutAt
    <3> QED BY <3>1 DEF Halves
  <2>4. PICK b \in Seq(Byte) : b = c[k]
    BY <1>1, <2>1
  <2>5. PICK q : q = b \o y
    OBVIOUS
  <2>6. q \in Seq(Byte) /\ Len(q) = Len(c[k]) + r /\ Len(q) \in Nat
    <3>1. b \o y \in Seq(Byte) /\ Len(b \o y) = Len(b) + Len(y) /\ Len(b \o y) \in Nat
      BY BytesJoin
    <3> QED BY <2>3, <2>4, <2>5, <3>1
  <2>7. d[1] = z
    <3>1. d[1] = d[0] \o v[1] /\ d[0] = <<>> /\ v[1] = z
      <4>1. d[1] = d[1 - 1] \o v[1] /\ d[0] = <<>>
        BY <1>0 DEF Joined
      <4>2. 1 - 1 = 0
        OBVIOUS
      <4>3. v[1] = z
        BY <1>5, <2>2, <2>3
      <4> HIDE DEF Shortens
      <4> QED BY <4>1, <4>2, <4>3
    <3> HIDE DEF Shortens
    <3>2. d[0] \o v[1] = z
      BY <3>1, BytesJoin
    <3> QED BY <3>1, <3>2
  <2>8. c[k + 1] = q \o d[1]
    <3>1. c[k + 1] = b \o (y \o z)
      BY <2>1, <2>2, <2>3, <2>4 DEF Joined
    <3>2. (b \o y) \o z = b \o (y \o z)
      BY Regrouped
    <3> QED BY <2>5, <2>7, <3>1, <3>2
  <2> DEFINE P(n) == n = 0 \/ n > MemObjNum - k \/ c[k + n] = q \o d[n]
  <2>9. PICK S : S = {n \in 0..MemObjNum : P(n)}
    OBVIOUS
  <2>10. ASSUME NEW n \in 1..MemObjNum, n - 1 \in S PROVE n \in S
    <3>1. n \in 0..MemObjNum /\ n \in Block /\ n - 1 \in 0..MemObjNum
      BY <1>0 DEF Block
    <3>2. CASE n > MemObjNum - k
      <4>1. P(n)
        BY <3>2
      <4> HIDE DEF P
      <4> QED BY <2>9, <3>1, <4>1
    <3>3. CASE n = 1
      <4>1. P(n)
        BY <2>8, <3>3
      <4> HIDE DEF P
      <4> QED BY <2>9, <3>1, <4>1
    <3>4. CASE n > 1 /\ n <= MemObjNum - k
      <4>1. c[k + (n - 1)] = q \o d[n - 1]
        <5>1. P(n - 1)
          BY <2>9, <2>10
        <5>2. ~(n - 1 = 0) /\ ~(n - 1 > MemObjNum - k)
          BY <1>0, <3>4
        <5> QED BY <5>1, <5>2
      <4>2. /\ k + n \in Block /\ (k + n) - 1 = k + (n - 1) /\ n + k = k + n
        BY <1>0, <3>4 DEF Block
      <4>3. c[k + n] = c[k + (n - 1)] \o u[k + n]
        BY <4>2 DEF Joined
      <4>4. v[n] = u[k + n] /\ u[k + n] \in Seq(Byte)
        BY <3>1, <3>4, <4>2 DEF Joined
      <4>5. d[n] = d[n - 1] \o u[k + n] /\ d[n - 1] \in Seq(Byte)
        BY <1>1, <3>1, <4>4 DEF Joined
      <4>6. (q \o d[n - 1]) \o u[k + n] = q \o (d[n - 1] \o u[k + n])
        BY <2>6, <4>4, <4>5, Regrouped, ZenonT(60)
      <4>7. P(n)
        BY <4>1, <4>3, <4>5, <4>6
      <4> HIDE DEF P
      <4> QED BY <2>9, <3>1, <4>7
    <3> QED BY <1>0, <3>1, <3>2, <3>3, <3>4
  <2>11. 0 \in S
    <3>1. P(0)
      OBVIOUS
    <3> HIDE DEF P
    <3> QED BY <1>0, <2>9, <3>1
  <2>12. \A n \in 0..MemObjNum : n \in S
    BY <1>0, <2>10, <2>11, Climb
  <2>13. c[k + (MemObjNum - k)] = q \o d[MemObjNum - k]
    <3>1. P(MemObjNum - k)
      BY <1>2, <2>9, <2>12
    <3>2. ~(MemObjNum - k = 0) /\ ~(MemObjNum - k > MemObjNum - k)
      BY <1>0, <1>5
    <3> QED BY <3>1, <3>2
  <2>14. PICK t \in Seq(Byte) : t = d[MemObjNum]
    BY <1>0, <1>1
  <2>15. c[MemObjNum] = q \o t
    <3>1. k + (MemObjNum - k) = MemObjNum
      BY <1>0
    <3> QED BY <1>3, <2>13, <2>14, <3>1
  <2>16. Len(c[MemObjNum]) = Len(q) + Len(t) /\ Len(t) \in Nat
    BY <2>6, <2>15, BytesJoin
  <2>17. SubSeq(q \o t, Len(q) + 1, Len(q) + Len(t)) = t
    BY <2>6, BytesBegin
  <2>18. d[MemObjNum] = SubSeq(c[MemObjNum], Len(c[k]) + r + 1, Len(c[MemObjNum]))
    BY <2>6, <2>14, <2>15, <2>16, <2>17
  <2> QED BY <2>6, <2>16, <2>18
<1> QED BY <1>6 DEF Remains

\* Any lists can be joined.
LEMMA Joining ==
  ASSUME Sizes, NEW u \in [Block -> Seq(Byte)]
  PROVE  \E c : Joined(c, u)
<1> PICK chain : chain = [j \in Block |-> [buf |-> u[j], read |-> 0]]
  OBVIOUS
<1>1. \A j \in Block : u[j] \in Seq(Byte) /\ Len(u[j]) \in Nat /\ SubSeq(u[j], 1, Len(u[j])) = u[j]
  BY LenProperties, SubSeqFull
<1>2. IsChain(chain)
  BY <1>1 DEF IsChain, IsObject
<1>3. \A j \in Block : Unread(chain[j]) = u[j]
  <2> SUFFICES ASSUME NEW j \in Block PROVE Unread(chain[j]) = u[j]
    OBVIOUS
  <2>1. chain[j].buf = u[j] /\ chain[j].read = 0
    OBVIOUS
  <2> QED BY <1>1, <2>1 DEF Unread
<1>4. Unreads(chain) = u
  BY <1>3 DEF Unreads
<1> QED BY <1>2, <1>4, Unrolled

\* What is left of a list that something has been added to
LEMMA RestOfMore ==
  \A s, t \in Seq(Byte), r \in Nat :
    r <= Len(s) => SubSeq(s \o t, r + 1, Len(s \o t)) = SubSeq(s, r + 1, Len(s)) \o t
<1> SUFFICES ASSUME NEW s \in Seq(Byte), NEW t \in Seq(Byte), NEW r \in Nat, r <= Len(s)
             PROVE  SubSeq(s \o t, r + 1, Len(s \o t)) = SubSeq(s, r + 1, Len(s)) \o t
  OBVIOUS
<1>1. Len(s) \in Nat /\ Len(t) \in Nat /\ Len(s) <= Len(s) /\ Len(s \o t) = Len(s) + Len(t)
  BY BytesJoin
<1>2. PICK a \in Seq(Byte), b \in Seq(Byte) :
        /\ a = SubSeq(s, 1, r) /\ b = SubSeq(s, r + 1, Len(s))
        /\ Len(a) = r /\ Len(b) = Len(s) - r /\ a \o b = s
  <2>1. \E a, b : Halves(s, r, a, b)
    BY CutAt
  <2> QED BY <2>1 DEF Halves
<1>3. PICK z \in Seq(Byte) : z = b \o t /\ Len(z) = Len(b) + Len(t)
  BY BytesJoin
<1>4. s \o t = a \o z
  <2>1. (a \o b) \o t = a \o (b \o t)
    BY Regrouped
  <2> QED BY <1>2, <1>3, <2>1, Zenon
<1>5. SubSeq(a \o z, Len(a) + 1, Len(a) + Len(z)) = z
  BY BytesBegin
<1>6. Len(a) + Len(z) = Len(s \o t)
  <2>1. Len(a) + (Len(b) + Len(t)) = Len(s) + Len(t)
    <3> PICK x \in Nat, y \in Nat : x = Len(s) /\ y = Len(t)
      BY <1>1
    <3>1. r + ((x - r) + y) = x + y
      OBVIOUS
    <3> QED BY <1>2, <3>1, Zenon
  <2> QED BY <1>1, <1>3, <2>1, Zenon
<1>7. SubSeq(s \o t, r + 1, Len(s \o t)) = z
  BY <1>2, <1>4, <1>5, <1>6, Zenon
<1> QED BY <1>2, <1>3, <1>7, Zenon

\* What is left of what is left
LEMMA RestOfRest ==
  \A s \in Seq(Byte), q, r \in Nat :
    q <= Len(s) /\ r <= Len(SubSeq(s, q + 1, Len(s)))
      => SubSeq(s, (q + r) + 1, Len(s))
         = SubSeq(SubSeq(s, q + 1, Len(s)), r + 1, Len(SubSeq(s, q + 1, Len(s))))
<1> SUFFICES ASSUME NEW s \in Seq(Byte), NEW q \in Nat, NEW r \in Nat,
                    q <= Len(s), r <= Len(SubSeq(s, q + 1, Len(s)))
             PROVE  SubSeq(s, (q + r) + 1, Len(s))
                    = SubSeq(SubSeq(s, q + 1, Len(s)), r + 1, Len(SubSeq(s, q + 1, Len(s))))
  OBVIOUS
<1>1. PICK a, b : Halves(s, q, a, b)
  BY CutAt
<1>2. a \in Seq(Byte) /\ b \in Seq(Byte) /\ b = SubSeq(s, q + 1, Len(s)) /\ Len(a) = q /\ a \o b = s
  BY <1>1 DEF Halves
<1>3. PICK x, y : Halves(b, r, x, y)
  BY <1>2, CutAt
<1>4. /\ x \in Seq(Byte) /\ y \in Seq(Byte) /\ y = SubSeq(b, r + 1, Len(b)) /\ Len(x) = r
      /\ x \o y = b
  BY <1>3 DEF Halves
<1>5. (a \o x) \o y = s
  <2>1. a \in Seq(Byte) /\ x \in Seq(Byte) /\ y \in Seq(Byte)
    BY <1>2, <1>4, Zenon
  <2>2. (a \o x) \o y = a \o (x \o y)
    BY <2>1, Regrouped, Zenon
  <2> QED BY <1>2, <1>4, <2>2, Zenon
<1>6. a \o x \in Seq(Byte) /\ Len(a \o x) = q + r
  BY <1>2, <1>4, BytesJoin
<1>7. SubSeq((a \o x) \o y, Len(a \o x) + 1, Len(a \o x) + Len(y)) = y
  BY <1>4, <1>6, BytesBegin
<1>8. Len(s) = Len(a \o x) + Len(y)
  BY <1>4, <1>5, <1>6, BytesJoin
<1> QED BY <1>2, <1>4, <1>5, <1>6, <1>7, <1>8, Zenon

\* A set of numbers from a on that has no gap
LEMMA Gapless ==
  ASSUME NEW a \in Nat, NEW b \in Nat, NEW T \in SUBSET (a..b),
         \A j \in T, i \in a..b : i <= j => i \in T
  PROVE  /\ Cardinality(T) \in Nat
         /\ T # {} => a + Cardinality(T) <= b + 1
         /\ \A i \in a..b : i \in T <=> i < a + Cardinality(T)
<1>1. CASE T = {}
  <2>1. Cardinality(T) = 0
    BY <1>1, FS_EmptySet
  <2> QED BY <1>1, <2>1
<1>2. CASE T # {}
  <2>1. PICK y \in (a..(b + 1)) \ T : \A x \in (a..(b + 1)) \ T : y <= x
    <3>1. (a..(b + 1)) \ T \in SUBSET Nat
      OBVIOUS
    <3>2. b + 1 \in (a..(b + 1)) \ T
      <4>1. PICK x : x \in T
        BY <1>2
      <4>2. \A z \in T : z \in a..b
        OBVIOUS
      <4>3. x \in a..b
        BY <4>1, <4>2
      <4>4. b + 1 \notin a..b /\ b + 1 \in a..(b + 1)
        BY <4>3
      <4> QED BY <4>2, <4>4
    <3>3. (a..(b + 1)) \ T # {}
      BY <3>2
    <3> QED BY <3>1, <3>3, LeastNumber
  <2>2. \A i \in a..b : i \in T <=> i < y
    <3>1. ASSUME NEW i \in a..b, i < y PROVE i \in T
      BY <2>1, <3>1
    <3>2. ASSUME NEW i \in a..b, i \in T, y <= i PROVE FALSE
      <4>1. y \in a..b
        BY <2>1, <3>2
      <4> QED BY <2>1, <3>2, <4>1
    <3> QED BY <2>1, <3>1, <3>2
  <2>3. T = a..(y - 1)
    <3>1. y \in a..(b + 1)
      BY <2>1
    <3>2. \A i \in T : i \in a..b
      OBVIOUS
    <3>3. \A i \in T : i \in a..(y - 1)
      BY <2>2, <3>1, <3>2
    <3>4. \A i \in a..(y - 1) : i \in a..b /\ i < y
      BY <3>1
    <3> QED BY <2>2, <3>3, <3>4
  <2>4. Cardinality(T) = IF a > y - 1 THEN 0 ELSE (y - 1) - a + 1
    BY <2>3, FS_Interval
  <2>5. Cardinality(T) = y - a /\ y \in Nat /\ a <= y /\ y <= b + 1
    BY <2>1, <2>4
  <2> QED BY <1>2, <2>2, <2>5
<1> QED BY <1>1, <1>2

(***************************************************************************)
(* Where the parts of a message go: object w has room for the first bytes, *)
(* each after it for a whole block.                                        *)
(***************************************************************************)

LEMMA Blocks ==
  ASSUME NEW k \in Nat
  PROVE  /\ \A a \in Int : (a + 1) * k = a * k + k /\ (a - 1) * k = a * k - k
         /\ \A a, b \in Int : (a + b) * k = a * k + b * k /\ (a - b) * k = a * k - b * k
         /\ \A a \in Nat : a * k \in Nat
         /\ \A a, b \in Nat : a <= b => a * k <= b * k
         /\ 0 * k = 0
<1>1. \A a \in Int : (a + 1) * k = a * k + k /\ (a - 1) * k = a * k - k
  OBVIOUS
<1>2. \A a, b \in Int : (a + b) * k = a * k + b * k /\ (a - b) * k = a * k - b * k
  OBVIOUS
<1>3. \A a \in Nat : a * k \in Nat
  OBVIOUS
<1>4. ASSUME NEW a \in Nat, NEW b \in Nat, a <= b PROVE a * k <= b * k
  <2>1. PICK c \in Nat : b = a + c
    <3>1. b - a \in Nat /\ b = a + (b - a)
      BY <1>4
    <3> QED BY <3>1
  <2>2. b * k = a * k + c * k
    BY <2>1, <1>2
  <2>3. a * k \in Nat /\ c * k \in Nat
    BY <1>3
  <2> QED BY <2>2, <2>3
<1> QED BY <1>1, <1>2, <1>3, <1>4

Skip(w, first, j)   == IF j = w THEN 0 ELSE first + (j - w - 1) * BlockSize
RoomAt(w, first, j) == IF j = w THEN first ELSE BlockSize

LEMMA Places ==
  ASSUME Sizes, NEW w \in Block, NEW first \in 0..BlockSize
  PROVE  /\ \A j \in w..MemObjNum :
              /\ Skip(w, first, j) \in Nat /\ RoomAt(w, first, j) \in Nat
              /\ j > w => Skip(w, first, j) = Skip(w, first, j - 1) + RoomAt(w, first, j - 1)
              /\ Skip(w, first, j) + RoomAt(w, first, j) + (MemObjNum - j) * BlockSize
                 = first + (MemObjNum - w) * BlockSize
         /\ \A i, j \in w..MemObjNum : i <= j => Skip(w, first, i) <= Skip(w, first, j)
<1>0. MemObjNum \in Nat \ {0} /\ BlockSize \in Nat \ {0} /\ w \in Nat /\ first \in Nat
  BY DEF Sizes, Block
<1>1. ASSUME NEW j \in w..MemObjNum
      PROVE  /\ Skip(w, first, j) \in Nat /\ RoomAt(w, first, j) \in Nat
             /\ Skip(w, first, j) + RoomAt(w, first, j) + (MemObjNum - j) * BlockSize
                = first + (MemObjNum - w) * BlockSize
             /\ j > w => Skip(w, first, j) = Skip(w, first, j - 1) + RoomAt(w, first, j - 1)
  <2>1. CASE j = w
    BY <1>0, <2>1 DEF Skip, RoomAt
  <2>2. CASE j > w
    <3>1. PICK a \in Nat, b \in Nat : a = j - w - 1 /\ b = MemObjNum - j
      BY <1>0, <2>2
    <3>2. /\ Skip(w, first, j) = first + a * BlockSize /\ a * BlockSize \in Nat
          /\ RoomAt(w, first, j) = BlockSize
      BY <1>0, <2>2, <3>1, Blocks DEF Skip, RoomAt
    <3>3. (MemObjNum - w) * BlockSize = a * BlockSize + BlockSize + b * BlockSize
      <4>1. MemObjNum - w = (a + 1) + b
        BY <1>0, <3>1
      <4>2. ((a + 1) + b) * BlockSize = (a + 1) * BlockSize + b * BlockSize
        BY <1>0, Blocks
      <4>3. (a + 1) * BlockSize = a * BlockSize + BlockSize
        BY <1>0, Blocks
      <4> QED BY <4>1, <4>2, <4>3
    <3>4. CASE j - 1 = w
      <4>1. a = 0
        BY <1>0, <3>1, <3>4
      <4>2. Skip(w, first, j - 1) = 0 /\ RoomAt(w, first, j - 1) = first
        BY <3>4 DEF Skip, RoomAt
      <4>3. Skip(w, first, j) = first + 0
        BY <1>0, <3>2, <4>1, Blocks
      <4> QED BY <1>0, <3>1, <3>2, <3>3, <4>2, <4>3
    <3>5. CASE j - 1 # w
      <4>1. (j - 1) - w - 1 = a - 1
        BY <1>0, <3>1
      <4>2. Skip(w, first, j - 1) = first + (a - 1) * BlockSize
        BY <3>5, <4>1 DEF Skip
      <4>3. RoomAt(w, first, j - 1) = BlockSize
        BY <3>5 DEF RoomAt
      <4>4. (a - 1) * BlockSize = a * BlockSize - BlockSize
        BY <1>0, Blocks
      <4> QED BY <1>0, <3>1, <3>2, <3>3, <4>2, <4>3, <4>4
    <3> QED BY <3>4, <3>5
  <2> QED BY <1>0, <2>1, <2>2
<1>2. ASSUME NEW i \in w..MemObjNum, NEW j \in w..MemObjNum, i <= j
      PROVE  Skip(w, first, i) <= Skip(w, first, j)
  <2>1. CASE i = w
    <3>1. Skip(w, first, i) = 0 /\ Skip(w, first, j) \in Nat
      BY <1>1, <2>1 DEF Skip
    <3> QED BY <3>1
  <2>2. CASE i # w
    <3>1. PICK a \in Nat, b \in Nat : a = i - w - 1 /\ b = j - w - 1 /\ a <= b
      BY <1>0, <1>2, <2>2
    <3>2. Skip(w, first, i) = first + a * BlockSize /\ Skip(w, first, j) = first + b * BlockSize
      BY <1>0, <1>2, <2>2, <3>1 DEF Skip
    <3>3. a * BlockSize <= b * BlockSize /\ a * BlockSize \in Nat /\ b * BlockSize \in Nat
      BY <1>0, <3>1, Blocks
    <3> QED BY <1>0, <3>2, <3>3
  <2> QED BY <2>1, <2>2
<1> QED BY <1>1, <1>2

\* The last object a list of l bytes goes to
LEMMA LastPlace ==
  ASSUME Sizes, NEW w \in Block, NEW first \in 0..BlockSize, NEW l \in Nat \ {0},
         l <= first + (MemObjNum - w) * BlockSize,
         NEW T, T = {j \in w..MemObjNum : j = w \/ Skip(w, first, j) < l}
  PROVE  \E x \in w..MemObjNum :
           /\ x = w + Cardinality(T) - 1
           /\ x > w => Skip(w, first, x) < l
           /\ Skip(w, first, x) + RoomAt(w, first, x) >= l
           /\ \A j \in w..MemObjNum : /\ j < x => Skip(w, first, j) + RoomAt(w, first, j) <= l
                                      /\ j > x => Skip(w, first, j) >= l
<1>0. MemObjNum \in Nat \ {0} /\ BlockSize \in Nat \ {0} /\ w \in Nat /\ w <= MemObjNum
  BY DEF Sizes, Block
<1>1. T \in SUBSET (w..MemObjNum) /\ w \in T
  BY <1>0
<1>2. \A j \in T, i \in w..MemObjNum : i <= j => i \in T
  <2> SUFFICES ASSUME NEW j \in T, NEW i \in w..MemObjNum, i <= j, i # w PROVE i \in T
    BY <1>1
  <2>1. j \in w..MemObjNum /\ j # w /\ Skip(w, first, j) < l
    BY <1>0
  <2>2. Skip(w, first, i) <= Skip(w, first, j)
    BY <2>1, Places
  <2>3. Skip(w, first, i) \in Nat /\ Skip(w, first, j) \in Nat
    BY <2>1, Places
  <2>4. Skip(w, first, i) < l
    BY <2>1, <2>2, <2>3
  <2> QED BY <2>4
<1>3. /\ Cardinality(T) \in Nat /\ w + Cardinality(T) <= MemObjNum + 1
      /\ \A i \in w..MemObjNum : i \in T <=> i < w + Cardinality(T)
  BY <1>0, <1>1, <1>2, Gapless
<1>4. PICK x : x = w + Cardinality(T) - 1
  OBVIOUS
<1>5. x \in w..MemObjNum /\ \A i \in w..MemObjNum : i \in T <=> i <= x
  <2>1. w < w + Cardinality(T)
    BY <1>0, <1>1, <1>3
  <2> PICK k \in Nat : k = Cardinality(T)
    BY <1>3
  <2>2. x = w + k - 1 /\ w < w + k /\ w + k <= MemObjNum + 1
    BY <1>3, <1>4, <2>1
  <2>3. x \in w..MemObjNum
    BY <1>0, <2>2
  <2>4. \A i \in w..MemObjNum : i < w + k <=> i <= x
    BY <1>0, <2>2
  <2>5. \A i \in w..MemObjNum : i \in T <=> i < w + k
    BY <1>3
  <2> QED BY <2>3, <2>4, <2>5
<1>6. x > w => Skip(w, first, x) < l
  BY <1>0, <1>5
<1>7. \A j \in w..MemObjNum : j > x => Skip(w, first, j) >= l
  <2> SUFFICES ASSUME NEW j \in w..MemObjNum, j > x PROVE Skip(w, first, j) >= l
    OBVIOUS
  <2>1. ~(Skip(w, first, j) < l)
    BY <1>0, <1>5
  <2>2. Skip(w, first, j) \in Nat
    BY Places
  <2> QED BY <2>1, <2>2
<1>8. Skip(w, first, x) + RoomAt(w, first, x) >= l
  <2>1. CASE x = MemObjNum
    <3>1. /\ Skip(w, first, x) + RoomAt(w, first, x) + (MemObjNum - x) * BlockSize
             = first + (MemObjNum - w) * BlockSize
          /\ Skip(w, first, x) \in Nat /\ RoomAt(w, first, x) \in Nat
      BY <1>5, Places
    <3>2. (MemObjNum - x) * BlockSize = 0
      BY <1>0, <2>1, Blocks
    <3> QED BY <3>1, <3>2
  <2>2. CASE x < MemObjNum
    <3>1. x + 1 \in w..MemObjNum /\ x + 1 > w /\ (x + 1) - 1 = x /\ x + 1 > x
      BY <1>0, <1>5, <2>2
    <3>2. Skip(w, first, x + 1) = Skip(w, first, x) + RoomAt(w, first, x)
      BY <3>1, Places, Zenon
    <3>3. Skip(w, first, x + 1) >= l
      BY <1>7, <3>1
    <3> QED BY <3>2, <3>3
  <2> QED BY <1>0, <1>5, <2>1, <2>2
<1>9. \A j \in w..MemObjNum : j < x => Skip(w, first, j) + RoomAt(w, first, j) <= l
  <2> SUFFICES ASSUME NEW j \in w..MemObjNum, j < x
               PROVE  Skip(w, first, j) + RoomAt(w, first, j) <= l
    OBVIOUS
  <2>1. j + 1 \in w..MemObjNum /\ j + 1 <= x /\ j + 1 > w /\ (j + 1) - 1 = j
    BY <1>0, <1>5
  <2>2. Skip(w, first, j + 1) = Skip(w, first, j) + RoomAt(w, first, j)
    BY <2>1, Places, Zenon
  <2>3. Skip(w, first, j + 1) <= Skip(w, first, x) /\ Skip(w, first, x) < l
    BY <1>0, <1>5, <1>6, <2>1, Places
  <2>4. Skip(w, first, j + 1) \in Nat /\ Skip(w, first, x) \in Nat
    BY <1>5, <2>1, Places
  <2> QED BY <2>2, <2>3, <2>4
<1> QED BY <1>4, <1>5, <1>6, <1>7, <1>8, <1>9

(***************************************************************************)
(* A handle: the objects up to m_pMemObjWrite hold something, unless all   *)
(* are empty; those before it are full and those after it fresh, and only  *)
(* of the first something may have been read.                              *)
(***************************************************************************)

Filling(chain, w) ==
  /\ \A j \in Block : Len(chain[j].buf) <= BlockSize
  /\ \A j \in Block : j < w => Len(chain[j].buf) = BlockSize
  /\ \A j \in Block : j > w => chain[j] = FreshBlock
  /\ \A j \in Block : j > 1 => chain[j].read = 0
  /\ \/ \A j \in Block : j <= w => chain[j].read < Len(chain[j].buf)
     \/ w = 1 /\ chain[1] = FreshBlock

Counted(h) ==
  /\ h.usage = Len(Content(h.chain, MemObjNum))
  /\ h.reserved = Room(h.chain[h.write]) + (MemObjNum - h.write) * BlockSize

GoodHandle(h) == /\ IsChain(h.chain) /\ h.write \in Block
                 /\ Filling(h.chain, h.write) /\ Counted(h)

LEMMA Objects ==
  ASSUME NEW chain, IsChain(chain), NEW j \in Block
  PROVE  /\ chain[j].buf \in Seq(Byte) /\ chain[j].read \in Nat /\ Len(chain[j].buf) \in Nat
         /\ chain[j].read <= Len(chain[j].buf)
         /\ chain[j] = [buf |-> chain[j].buf, read |-> chain[j].read]
         /\ Unread(chain[j]) \in Seq(Byte) /\ Len(Unread(chain[j])) = Len(chain[j].buf) - chain[j].read
<1>1. IsObject(chain[j])
  BY DEF IsChain
<1>2. chain[j].buf \in Seq(Byte) /\ chain[j].read \in Nat /\ chain[j].read <= Len(chain[j].buf)
  BY <1>1 DEF IsObject
<1>3. chain[j] = [buf |-> chain[j].buf, read |-> chain[j].read]
  BY <1>1 DEF IsObject
<1> QED BY <1>1, <1>2, <1>3, UnreadType, LenProperties

LEMMA Fresh ==
  /\ FreshBlock.buf = <<>> /\ FreshBlock.read = 0 /\ Unread(FreshBlock) = <<>>
  /\ Len(FreshBlock.buf) = 0 /\ IsObject(FreshBlock)
  /\ BlockSize \in Nat => Room(FreshBlock) = BlockSize
<1>1. FreshBlock.buf = <<>> /\ FreshBlock.read = 0 /\ Len(<<>>) = 0 /\ <<>> \in Seq(Byte)
  BY EmptySeq DEF FreshBlock
<1>2. SubSeq(<<>>, 1, 0) = <<>>
  BY SubSeqEmpty
<1> QED BY <1>1, <1>2 DEF Unread, IsObject, Room, FreshBlock

\* The part of a message that goes to object j
PartOf(h, s, j) ==
  IF j < h.write THEN <<>>
  ELSE SubSeq(s, Skip(h.write, Room(h.chain[h.write]), j) + 1,
              Least(Len(s), Skip(h.write, Room(h.chain[h.write]), j) + Room(h.chain[j])))

Taken(w, first, l) == {j \in w..MemObjNum : j = w \/ Skip(w, first, j) < l}

LEMMA PushFields ==
  ASSUME NEW h, NEW s, ~(Len(s) > h.reserved)
  PROVE  /\ PushBytes(h, s).chain = [j \in Block |-> [h.chain[j] EXCEPT !.buf = @ \o PartOf(h, s, j)]]
         /\ PushBytes(h, s).write
            = h.write + Cardinality(Taken(h.write, Room(h.chain[h.write]), Len(s))) - 1
         /\ PushBytes(h, s).reserved = h.reserved - Len(s)
         /\ PushBytes(h, s).usage = h.usage + Len(s)
BY DEF PushBytes, PartOf, Skip, Taken

\* The parts
LEMMA Parts ==
  ASSUME Sizes, NEW h, GoodHandle(h), NEW s \in Seq(Byte), NEW l \in Nat \ {0}, l = Len(s),
         NEW first, first = Room(h.chain[h.write])
  PROVE  /\ first \in 0..BlockSize /\ h.write \in 1..MemObjNum
         /\ \A j \in h.write..MemObjNum : /\ Room(h.chain[j]) = RoomAt(h.write, first, j)
                                          /\ j \in Block
         /\ \A j \in Block : /\ PartOf(h, s, j) \in Seq(Byte)
                             /\ j < h.write => PartOf(h, s, j) = <<>>
                             /\ Room(h.chain[j]) \in 0..BlockSize
         /\ \A j \in h.write..MemObjNum :
              /\ Skip(h.write, first, j) + RoomAt(h.write, first, j) <= l
                   => Len(PartOf(h, s, j)) = Room(h.chain[j])
              /\ Skip(h.write, first, j) >= l => PartOf(h, s, j) = <<>>
              /\ Skip(h.write, first, j) <= l /\ Skip(h.write, first, j) + RoomAt(h.write, first, j) >= l
                   => Len(PartOf(h, s, j)) = l - Skip(h.write, first, j)
<1>0. /\ MemObjNum \in Nat \ {0} /\ BlockSize \in Nat \ {0} /\ h.write \in 1..MemObjNum
      /\ IsChain(h.chain) /\ Filling(h.chain, h.write) /\ Block = 1..MemObjNum
  BY DEF Sizes, Block, GoodHandle
<1>1. \A j \in Block : Room(h.chain[j]) \in 0..BlockSize
  <2> SUFFICES ASSUME NEW j \in Block PROVE Room(h.chain[j]) \in 0..BlockSize
    OBVIOUS
  <2>1. Len(h.chain[j].buf) \in Nat /\ Len(h.chain[j].buf) <= BlockSize
    BY <1>0, Objects DEF Filling
  <2> QED BY <1>0, <2>1 DEF Room
<1>2. \A j \in h.write..MemObjNum : Room(h.chain[j]) = RoomAt(h.write, first, j) /\ j \in Block
  <2> SUFFICES ASSUME NEW j \in h.write..MemObjNum
               PROVE  Room(h.chain[j]) = RoomAt(h.write, first, j) /\ j \in Block
    OBVIOUS
  <2>1. j \in Block
    BY <1>0
  <2>2. j > h.write => Room(h.chain[j]) = BlockSize
    BY <1>0, <2>1, Fresh DEF Filling
  <2>3. j > h.write \/ j = h.write
    BY <1>0
  <2> QED BY <1>0, <2>1, <2>2, <2>3 DEF RoomAt
<1>3. first \in 0..BlockSize
  BY <1>0, <1>1
<1>4. \A i \in 1..l : s[i] \in Byte
  BY ElementOfSeq
<1>5. ASSUME NEW j \in h.write..MemObjNum, NEW p, p = PartOf(h, s, j)
      PROVE  /\ p \in Seq(Byte)
             /\ Skip(h.write, first, j) + RoomAt(h.write, first, j) <= l => Len(p) = Room(h.chain[j])
             /\ Skip(h.write, first, j) >= l => p = <<>>
             /\ Skip(h.write, first, j) <= l /\ Skip(h.write, first, j) + RoomAt(h.write, first, j) >= l
                   => Len(p) = l - Skip(h.write, first, j)
  <2>1. PICK a \in Nat, b \in Nat : a = Skip(h.write, first, j) /\ b = RoomAt(h.write, first, j)
    BY <1>0, <1>3, Places
  <2>2. p = SubSeq(s, a + 1, Least(l, a + b)) /\ b = Room(h.chain[j])
    <3>1. ~(j < h.write)
      BY <1>0
    <3> QED BY <1>2, <1>5, <2>1, <3>1 DEF PartOf
  <2>3. PICK z \in Nat : z = Least(l, a + b) /\ z <= l /\ z <= a + b /\ (z = l \/ z = a + b)
    BY DEF Least
  <2>4. \A i \in (a + 1)..z : s[i] \in Byte
    BY <1>4, <2>3
  <2>5. p \in Seq(Byte) /\ Len(p) = IF a + 1 <= z THEN z - (a + 1) + 1 ELSE 0
    BY <2>2, <2>3, <2>4, SubSeqProperties
  <2>6. a + b <= l => Len(p) = b
    BY <2>3, <2>5
  <2>7. a >= l => p = <<>>
    BY <2>2, <2>3, SubSeqEmpty
  <2>8. a <= l /\ a + b >= l => Len(p) = l - a
    BY <2>3, <2>5
  <2> QED BY <2>1, <2>2, <2>5, <2>6, <2>7, <2>8
<1>6. \A j \in Block : PartOf(h, s, j) \in Seq(Byte) /\ (j < h.write => PartOf(h, s, j) = <<>>)
  <2> SUFFICES ASSUME NEW j \in Block
               PROVE  PartOf(h, s, j) \in Seq(Byte) /\ (j < h.write => PartOf(h, s, j) = <<>>)
    OBVIOUS
  <2>1. CASE j < h.write
    BY <2>1, EmptySeq DEF PartOf
  <2>2. CASE ~(j < h.write)
    <3>1. j \in h.write..MemObjNum
      BY <1>0, <2>2
    <3> QED BY <1>5, <2>2, <3>1
  <2> QED BY <2>1, <2>2
<1> QED BY <1>0, <1>1, <1>2, <1>3, <1>5, <1>6

\* Each object with more in it
GivenMore(b, a, p) == /\ IsObject(a) /\ p \in Seq(Byte)
                      /\ b = [a EXCEPT !.buf = @ \o p]
Fuller(b, a, p) ==
  /\ IsObject(b) /\ b.read = a.read
  /\ Len(b.buf) = Len(a.buf) + Len(p) /\ Len(a.buf) \in Nat /\ Len(p) \in Nat
  /\ Unread(b) = Unread(a) \o p
  /\ p = <<>> => b = a

LEMMA AddedTo ==
  ASSUME NEW a, NEW p, NEW b, GivenMore(b, a, p)
  PROVE  Fuller(b, a, p)
<1>1. a \in [buf : Seq(Byte), read : Nat] /\ a.read <= Len(a.buf) /\ p \in Seq(Byte)
  BY DEF GivenMore, IsObject
<1>2. PICK x \in Seq(Byte), r \in Nat : x = a.buf /\ r = a.read
  BY <1>1
<1>3. /\ x \o p \in Seq(Byte) /\ Len(x \o p) = Len(x) + Len(p) /\ Len(x) \in Nat /\ Len(p) \in Nat
      /\ x \o <<>> = x
  BY <1>1, BytesJoin
<1>4. b = [buf |-> x \o p, read |-> r] /\ a = [buf |-> x, read |-> r]
  BY <1>1, <1>2 DEF GivenMore
<1>5. IsObject(b)
  <2>1. r <= Len(x) + Len(p)
    BY <1>1, <1>2, <1>3
  <2>2. b.buf = x \o p /\ b.read = r
    BY <1>4
  <2>3. b \in [buf : Seq(Byte), read : Nat]
    BY <1>3, <1>4
  <2> QED BY <1>3, <2>1, <2>2, <2>3 DEF IsObject
<1>6. SubSeq(x \o p, r + 1, Len(x \o p)) = SubSeq(x, r + 1, Len(x)) \o p
  BY <1>1, <1>2, RestOfMore
<1>7. b.buf = x \o p /\ b.read = r
  BY <1>4
<1>8. Unread(b) = Unread(a) \o p
  BY <1>2, <1>6, <1>7 DEF Unread
<1>9. p = <<>> => b = a
  BY <1>3, <1>4
<1> QED BY <1>2, <1>3, <1>5, <1>7, <1>8, <1>9 DEF Fuller

\* A message that fits is added to what the chain holds.
LEMMA Pushed ==
  ASSUME Sizes, NEW h, GoodHandle(h), NEW s \in Seq(Byte), s # <<>>, ~(Len(s) > h.reserved)
  PROVE  /\ GoodHandle(PushBytes(h, s)) /\ PushBytes(h, s).reserved = h.reserved - Len(s)
         /\ Content(PushBytes(h, s).chain, MemObjNum) = Content(h.chain, MemObjNum) \o s
<1>0. /\ MemObjNum \in Nat \ {0} /\ BlockSize \in Nat \ {0} /\ Block = 1..MemObjNum
      /\ IsChain(h.chain) /\ Filling(h.chain, h.write) /\ Counted(h)
  BY DEF Sizes, Block, GoodHandle
<1>1. PICK l \in Nat \ {0} : l = Len(s)
  BY EmptySeq
<1>2. PICK w \in Block, first \in 0..BlockSize : w = h.write /\ first = Room(h.chain[w])
  BY <1>1, Parts DEF GoodHandle
<1>3. w \in Nat /\ 1 <= w /\ w <= MemObjNum /\ first \in Nat /\ MemObjNum - w \in Nat
  BY <1>0
<1>4. h.reserved = first + (MemObjNum - w) * BlockSize /\ h.reserved \in Nat
  <2>1. (MemObjNum - w) * BlockSize \in Nat
    BY <1>0, <1>3, Blocks
  <2> QED BY <1>0, <1>2, <1>3, <2>1 DEF Counted
<1>5. l <= first + (MemObjNum - w) * BlockSize
  BY <1>1, <1>4
<1>6. PICK x \in w..MemObjNum :
        /\ x = PushBytes(h, s).write
        /\ x > w => Skip(w, first, x) < l
        /\ Skip(w, first, x) + RoomAt(w, first, x) >= l
        /\ \A j \in w..MemObjNum : /\ j < x => Skip(w, first, j) + RoomAt(w, first, j) <= l
                                   /\ j > x => Skip(w, first, j) >= l
  <2>1. PushBytes(h, s).write = w + Cardinality(Taken(w, first, l)) - 1
    BY <1>1, <1>2, PushFields
  <2> PICK T : T = Taken(w, first, l)
    OBVIOUS
  <2>2. T = {j \in w..MemObjNum : j = w \/ Skip(w, first, j) < l}
    BY DEF Taken
  <2> QED BY <1>5, <2>1, <2>2, LastPlace
<1>7. /\ \A j \in w..MemObjNum : Room(h.chain[j]) = RoomAt(w, first, j) /\ j \in Block
      /\ \A j \in Block : /\ PartOf(h, s, j) \in Seq(Byte)
                          /\ j < w => PartOf(h, s, j) = <<>>
                          /\ Room(h.chain[j]) \in 0..BlockSize
      /\ \A j \in w..MemObjNum :
              /\ Skip(w, first, j) + RoomAt(w, first, j) <= l
                   => Len(PartOf(h, s, j)) = Room(h.chain[j])
              /\ Skip(w, first, j) >= l => PartOf(h, s, j) = <<>>
              /\ Skip(w, first, j) <= l /\ Skip(w, first, j) + RoomAt(w, first, j) >= l
                   => Len(PartOf(h, s, j)) = l - Skip(w, first, j)
  BY <1>1, <1>2, Parts
<1>8. PICK p \in [Block -> Seq(Byte)] : \A j \in Block : p[j] = PartOf(h, s, j)
  <2> PICK p : p = [j \in Block |-> PartOf(h, s, j)]
    OBVIOUS
  <2>1. p \in [Block -> Seq(Byte)] /\ \A j \in Block : p[j] = PartOf(h, s, j)
    BY <1>7
  <2> QED BY <2>1
<1>9. PICK new : new = PushBytes(h, s).chain
  OBVIOUS
<1>10. DOMAIN new = Block /\ \A j \in Block : GivenMore(new[j], h.chain[j], p[j])
  <2>1. new = [j \in Block |-> [h.chain[j] EXCEPT !.buf = @ \o PartOf(h, s, j)]]
    BY <1>9, PushFields, SMTT(30)
  <2>2. \A j \in Block : IsObject(h.chain[j]) /\ p[j] \in Seq(Byte)
    BY <1>0 DEF IsChain
  <2> QED BY <1>8, <2>1, <2>2 DEF GivenMore
<1>11. \A j \in Block : /\ IsObject(new[j]) /\ new[j].read = h.chain[j].read
                        /\ Len(new[j].buf) = Len(h.chain[j].buf) + Len(p[j])
                        /\ Len(h.chain[j].buf) \in Nat /\ Len(p[j]) \in Nat
                        /\ Unread(new[j]) = Unread(h.chain[j]) \o p[j]
                        /\ p[j] = <<>> => new[j] = h.chain[j]
  <2>1. \A j \in Block : Fuller(new[j], h.chain[j], p[j])
    BY <1>10, AddedTo
  <2> QED BY <2>1 DEF Fuller
<1>12. IsChain(new)
  BY <1>10, <1>11 DEF IsChain
<1>13. \A j \in Block : Len(h.chain[j].buf) = BlockSize - Room(h.chain[j])
  <2> SUFFICES ASSUME NEW j \in Block PROVE Len(h.chain[j].buf) = BlockSize - Room(h.chain[j])
    OBVIOUS
  <2>1. Len(h.chain[j].buf) \in Nat
    BY <1>11
  <2> QED BY <1>0, <2>1 DEF Room
<1>14. \A j \in w..MemObjNum : Skip(w, first, j) \in Nat /\ RoomAt(w, first, j) \in Nat
  BY <1>2, Places
<1>15. \A j \in Block : /\ j < w => p[j] = <<>>
                        /\ j > x => p[j] = <<>>
                        /\ j >= w /\ j < x => Len(p[j]) = Room(h.chain[j])
                        /\ j = x => Len(p[j]) = l - Skip(w, first, x)
  <2> SUFFICES ASSUME NEW j \in Block, j >= w
               PROVE  /\ j > x => p[j] = <<>>
                      /\ j < x => Len(p[j]) = Room(h.chain[j])
                      /\ j = x => Len(p[j]) = l - Skip(w, first, x)
    BY <1>0, <1>3, <1>6, <1>7, <1>8, SMTT(30)
  <2>1. j \in w..MemObjNum /\ p[j] = PartOf(h, s, j)
    BY <1>0, <1>3, <1>8
  <2>2. j > x => p[j] = <<>>
    BY <1>6, <1>7, <2>1
  <2>3. j < x => Len(p[j]) = Room(h.chain[j])
    BY <1>6, <1>7, <2>1
  <2>4. ASSUME j = x PROVE Len(p[j]) = l - Skip(w, first, x)
    <3>1. Skip(w, first, x) <= l
      <4>1. x = w => Skip(w, first, x) = 0
        BY DEF Skip
      <4>2. x = w \/ x > w
        BY <1>3
      <4> QED BY <1>1, <1>6, <1>14, <4>1, <4>2
    <3> QED BY <1>6, <1>7, <2>1, <2>4, <3>1
  <2> QED BY <2>2, <2>3, <2>4
<1>16. Content(new, MemObjNum) = Content(h.chain, MemObjNum) \o s
  <2>1. PICK c, u : Joined(c, u) /\ c = Contents(h.chain) /\ u = Unreads(h.chain)
    BY <1>0, Unrolled
  <2>2. PICK d, v : Joined(d, v) /\ d = Contents(new) /\ v = Unreads(new)
    BY <1>12, Unrolled
  <2>3. PICK e : Joined(e, p)
    BY Joining
  <2>4. \A j \in Block : /\ v[j] = u[j] \o p[j]
                         /\ j < w => p[j] = <<>>
                         /\ j > w => u[j] = <<>>
    <3> SUFFICES ASSUME NEW j \in Block
                 PROVE  v[j] = u[j] \o p[j] /\ (j < w => p[j] = <<>>) /\ (j > w => u[j] = <<>>)
      OBVIOUS
    <3>1. v[j] = Unread(new[j]) /\ u[j] = Unread(h.chain[j])
      BY <2>1, <2>2 DEF Unreads
    <3>2. j > w => Unread(h.chain[j]) = <<>>
      BY <1>0, <1>2, Fresh DEF Filling
    <3> QED BY <1>11, <1>15, <3>1, <3>2
  <2>5. Sums(d, c, e)
    <3>1. Extends(v, u, p, w)
      BY <2>4 DEF Extends
    <3>2. Joined(c, u) /\ Joined(d, v) /\ Joined(e, p)
      BY <2>1, <2>2, <2>3
    <3> QED BY <3>1, <3>2, Extended
  <2>6. PICK lo \in [Block -> Nat] :
          \A j \in Block : lo[j] = IF j < w THEN 0 ELSE Skip(w, first, j)
    <3>1. \A j \in Block : (IF j < w THEN 0 ELSE Skip(w, first, j)) \in Nat
      BY <1>0, <1>3, <1>14
    <3> PICK lo : lo = [j \in Block |-> IF j < w THEN 0 ELSE Skip(w, first, j)]
      OBVIOUS
    <3>2. lo \in [Block -> Nat]
      BY <3>1
    <3> QED BY <3>2
  <2>7. PICK hi \in [Block -> Nat] :
          \A j \in Block : hi[j] = IF j < w THEN 0 ELSE Skip(w, first, j) + RoomAt(w, first, j)
    <3>1. \A j \in Block : (IF j < w THEN 0 ELSE Skip(w, first, j) + RoomAt(w, first, j)) \in Nat
      BY <1>0, <1>3, <1>14, SMTT(30)
    <3> PICK hi : hi = [j \in Block |-> IF j < w THEN 0 ELSE Skip(w, first, j) + RoomAt(w, first, j)]
      OBVIOUS
    <3>2. hi \in [Block -> Nat]
      BY <3>1
    <3> QED BY <3>2
  <2>8. lo[w] = 0
    BY <1>3, <2>6 DEF Skip
  <2>9. \A j \in Block : /\ j < w => p[j] = <<>>
                         /\ j > w => lo[j] = hi[j - 1]
                         /\ lo[j] <= hi[j]
                         /\ j >= w => p[j] = SubSeq(s, lo[j] + 1, Least(Len(s), hi[j]))
    <3> SUFFICES ASSUME NEW j \in Block
                 PROVE  /\ j > w => lo[j] = hi[j - 1]
                        /\ lo[j] <= hi[j]
                        /\ j >= w => p[j] = SubSeq(s, lo[j] + 1, Least(Len(s), hi[j]))
      BY <2>4
    <3>1. CASE j < w
      BY <1>0, <1>3, <2>6, <2>7, <3>1
    <3>2. CASE j >= w
      <4>1. j \in w..MemObjNum /\ ~(j < w)
        BY <1>0, <1>3, <3>2
      <4>2. lo[j] = Skip(w, first, j) /\ hi[j] = Skip(w, first, j) + RoomAt(w, first, j)
        BY <2>6, <2>7, <4>1
      <4>3. lo[j] <= hi[j]
        BY <1>14, <4>1, <4>2
      <4>4. ASSUME j > w PROVE lo[j] = hi[j - 1]
        <5>1. j - 1 \in Block /\ ~(j - 1 < w)
          BY <1>0, <1>3, <4>4
        <5>2. hi[j - 1] = Skip(w, first, j - 1) + RoomAt(w, first, j - 1)
          BY <2>7, <5>1
        <5>3. Skip(w, first, j) = Skip(w, first, j - 1) + RoomAt(w, first, j - 1)
          BY <4>1, <4>4, Places
        <5> QED BY <4>2, <5>2, <5>3
      <4>5. p[j] = SubSeq(s, lo[j] + 1, Least(Len(s), hi[j]))
        <5>1. PartOf(h, s, j)
              = SubSeq(s, Skip(w, first, j) + 1, Least(Len(s), Skip(w, first, j) + Room(h.chain[j])))
          BY <1>2, <4>1 DEF PartOf
        <5>2. Room(h.chain[j]) = RoomAt(w, first, j)
          BY <1>7, <4>1
        <5> QED BY <1>8, <4>2, <5>1, <5>2
      <4> QED BY <4>3, <4>4, <4>5
    <3> QED BY <1>0, <1>3, <3>1, <3>2
  <2>10. HoldsUpTo(e, w, s, hi)
    <3>1. Divides(p, w, s, lo, hi)
      BY <2>8, <2>9 DEF Divides
    <3> QED BY <2>3, <3>1, Divided
  <2>11. hi[MemObjNum] >= l
    <3>1. MemObjNum \in w..MemObjNum /\ MemObjNum \in Block /\ ~(MemObjNum < w)
      BY <1>0, <1>3
    <3>2. hi[MemObjNum] = Skip(w, first, MemObjNum) + RoomAt(w, first, MemObjNum)
      BY <2>7, <3>1
    <3>3. Skip(w, first, MemObjNum) + RoomAt(w, first, MemObjNum) + (MemObjNum - MemObjNum) * BlockSize
          = first + (MemObjNum - w) * BlockSize
      BY <3>1, Places
    <3>4. (MemObjNum - MemObjNum) * BlockSize = 0
      BY <1>0, Blocks
    <3>5. hi[MemObjNum] \in Nat
      BY <3>1
    <3>6. hi[MemObjNum] = first + (MemObjNum - w) * BlockSize
      BY <3>2, <3>3, <3>4, <3>5
    <3> QED BY <1>5, <3>6
  <2>12. e[MemObjNum] = s
    <3>1. MemObjNum \in w..MemObjNum /\ MemObjNum \in Block
      BY <1>0, <1>3
    <3>2. Least(l, hi[MemObjNum]) = l
      BY <2>11, <3>1 DEF Least
    <3>3. SubSeq(s, 1, Len(s)) = s
      BY SubSeqFull
    <3> QED BY <1>1, <2>10, <3>1, <3>2, <3>3 DEF HoldsUpTo
  <2>13. MemObjNum \in 0..MemObjNum
    BY <1>0
  <2>14. d[MemObjNum] = c[MemObjNum] \o s
    BY <2>5, <2>12, <2>13 DEF Sums
  <2> QED BY <2>1, <2>2, <2>14 DEF Content
<1>17. ASSUME NEW j \in Block
       PROVE  /\ Len(new[j].buf) <= BlockSize
              /\ j < x => Len(new[j].buf) = BlockSize
              /\ j = x => Len(new[j].buf) = Len(h.chain[x].buf) + (l - Skip(w, first, x))
              /\ j > x => new[j] = h.chain[j]
  <2>1. PICK a \in Nat, b \in Nat, r \in Nat :
          /\ a = Len(h.chain[j].buf) /\ b = Len(p[j]) /\ r = Room(h.chain[j])
          /\ Len(new[j].buf) = a + b /\ a = BlockSize - r
    <3>1. Room(h.chain[j]) \in Nat
      BY <1>0, <1>7
    <3>2. /\ Len(h.chain[j].buf) \in Nat /\ Len(p[j]) \in Nat
          /\ Len(new[j].buf) = Len(h.chain[j].buf) + Len(p[j])
      BY <1>11
    <3> QED BY <1>13, <3>1, <3>2, Zenon
  <2>2. CASE j < w
    <3>1. b = 0 /\ a = BlockSize /\ j < x
      <4>1. p[j] = <<>> /\ Len(<<>>) = 0
        BY <1>15, <2>2
      <4>2. a = BlockSize
        BY <1>0, <1>2, <2>1, <2>2 DEF Filling
      <4> QED BY <1>0, <1>3, <2>1, <2>2, <4>1, <4>2
    <3> QED BY <1>0, <1>3, <2>1, <3>1
  <2>3. CASE j >= w /\ j < x
    <3>1. b = r
      BY <1>15, <2>1, <2>3
    <3>2. a + b = BlockSize
      BY <1>0, <2>1, <3>1
    <3>3. Len(new[j].buf) = BlockSize
      BY <2>1, <3>2
    <3> QED BY <1>0, <1>3, <2>3, <3>3
  <2>4. CASE j = x
    <3>1. b = l - Skip(w, first, x)
      BY <1>15, <2>1, <2>4
    <3>2. b <= r
      <4>1. r = RoomAt(w, first, x)
        BY <1>7, <2>1, <2>4
      <4>2. Skip(w, first, x) \in Nat
        BY <1>14
      <4> QED BY <1>6, <2>1, <3>1, <4>1, <4>2
    <3>3. a + b <= BlockSize
      BY <1>0, <2>1, <3>2
    <3>4. Len(new[j].buf) = Len(h.chain[x].buf) + (l - Skip(w, first, x))
      BY <2>1, <2>4, <3>1
    <3> QED BY <1>0, <1>3, <2>1, <2>4, <3>3, <3>4
  <2>5. CASE j > x
    <3>1. p[j] = <<>> /\ Len(<<>>) = 0
      BY <1>15, <2>5
    <3>2. b = 0 /\ new[j] = h.chain[j]
      BY <1>11, <2>1, <3>1
    <3> QED BY <1>0, <1>3, <2>1, <2>5, <3>2
  <2> QED BY <1>0, <1>3, <2>2, <2>3, <2>4, <2>5
<1>18. Filling(new, x)
  <2>1. \A j \in Block : Len(new[j].buf) <= BlockSize
    BY <1>17
  <2>2. \A j \in Block : j < x => Len(new[j].buf) = BlockSize
    BY <1>17
  <2>3. \A j \in Block : j > x => new[j] = FreshBlock
    <3> SUFFICES ASSUME NEW j \in Block, j > x PROVE new[j] = FreshBlock
      OBVIOUS
    <3>1. j > w
      BY <1>0, <1>3
    <3> QED BY <1>0, <1>2, <1>17, <3>1 DEF Filling
  <2>4. \A j \in Block : j > 1 => new[j].read = 0
    BY <1>0, <1>11 DEF Filling
  <2>5. ASSUME NEW j \in Block, j <= x PROVE new[j].read < Len(new[j].buf)
    <3>1. PICK a \in Nat, b \in Nat, r \in Nat :
            /\ a = Len(h.chain[j].buf) /\ b = Len(p[j]) /\ Len(new[j].buf) = a + b
            /\ r = h.chain[j].read /\ new[j].read = r
      <4>1. h.chain[j].read \in Nat
        BY <1>0, Objects
      <4>2. /\ Len(h.chain[j].buf) \in Nat /\ Len(p[j]) \in Nat /\ new[j].read = h.chain[j].read
            /\ Len(new[j].buf) = Len(h.chain[j].buf) + Len(p[j])
        BY <1>11
      <4> QED BY <4>1, <4>2, Zenon
    <3>2. CASE j <= w /\ r < a
      BY <3>1, <3>2
    <3>3. CASE j > w \/ (w = 1 /\ h.chain[1] = FreshBlock)
      <4>1. r = 0 /\ a = 0
        <5>1. h.chain[j] = FreshBlock
          <6>1. j > w => h.chain[j] = FreshBlock
            BY <1>0, <1>2 DEF Filling
          <6>2. j > w \/ j = 1
            BY <1>0, <1>3, <3>3
          <6> QED BY <3>3, <6>1, <6>2
        <5> QED BY <3>1, <5>1, Fresh
      <4>2. CASE j < x
        <5>1. a + b = BlockSize
          BY <1>17, <3>1, <4>2
        <5> QED BY <1>0, <3>1, <4>1, <5>1
      <4>3. CASE j = x
        <5>1. b = l - Skip(w, first, x)
          BY <1>15, <3>1, <4>3
        <5>2. Skip(w, first, x) < l
          <6>1. x = w => Skip(w, first, x) = 0
            BY DEF Skip
          <6> QED BY <1>1, <1>3, <1>6, <6>1
        <5>3. Skip(w, first, x) \in Nat
          BY <1>14
        <5> QED BY <3>1, <4>1, <5>1, <5>2, <5>3
      <4> QED BY <1>0, <1>3, <2>5, <4>2, <4>3
    <3>4. (j <= w /\ r < a) \/ j > w \/ (w = 1 /\ h.chain[1] = FreshBlock)
      <4>1. (\A i \in Block : i <= w => h.chain[i].read < Len(h.chain[i].buf))
            \/ (w = 1 /\ h.chain[1] = FreshBlock)
        BY <1>0, <1>2 DEF Filling
      <4>2. j <= w \/ j > w
        BY <1>0, <1>3
      <4> QED BY <3>1, <4>1, <4>2
    <3> QED BY <3>2, <3>3, <3>4, Zenon
  <2> QED BY <2>1, <2>2, <2>3, <2>4, <2>5 DEF Filling
<1>19. Counted(PushBytes(h, s))
  <2>1. PushBytes(h, s).usage = Len(Content(new, MemObjNum))
    <3>1. Content(h.chain, MemObjNum) \in Seq(Byte)
      <4>1. Joined(Contents(h.chain), Unreads(h.chain))
        BY <1>0, Unrolled
      <4> QED BY <1>0, <4>1 DEF Joined, Content
    <3>2. Len(Content(new, MemObjNum)) = Len(Content(h.chain, MemObjNum)) + Len(s)
      BY <1>16, <3>1, BytesJoin
    <3>3. PushBytes(h, s).usage = h.usage + Len(s)
      BY PushFields
    <3>4. h.usage = Len(Content(h.chain, MemObjNum))
      BY <1>0 DEF Counted
    <3> QED BY <3>2, <3>3, <3>4
  <2>2. PushBytes(h, s).reserved = Room(new[x]) + (MemObjNum - x) * BlockSize
    <3>0. x \in Block /\ x \in Nat
      BY <1>0, <1>3
    <3>1. PICK k \in Nat, r \in Nat, q \in Nat, y \in Nat, z \in Nat :
            /\ k = Skip(w, first, x) /\ r = RoomAt(w, first, x) /\ q = Len(h.chain[x].buf)
            /\ y = (MemObjNum - x) * BlockSize /\ z = first + (MemObjNum - w) * BlockSize
      <4>1. Skip(w, first, x) \in Nat /\ RoomAt(w, first, x) \in Nat
        BY <1>14
      <4>2. (MemObjNum - x) * BlockSize \in Nat
        BY <1>0, <1>3, Blocks
      <4>3. Len(h.chain[x].buf) \in Nat
        BY <1>11, <3>0
      <4>4. first + (MemObjNum - w) * BlockSize \in Nat
        BY <1>4
      <4> QED BY <4>1, <4>2, <4>3, <4>4
    <3>2. k + r + y = z
      BY <3>1, Places
    <3>3. r = BlockSize - q
      <4>1. Room(h.chain[x]) = r
        BY <1>7, <3>1
      <4>2. q = BlockSize - Room(h.chain[x])
        BY <1>13, <3>0, <3>1
      <4> QED BY <1>0, <4>1, <4>2
    <3>4. Len(new[x].buf) = q + (l - k)
      BY <1>17, <3>0, <3>1
    <3>5. Room(new[x]) = BlockSize - (q + (l - k))
      BY <3>4 DEF Room
    <3>6. PushBytes(h, s).reserved = z - l
      <4>1. PushBytes(h, s).reserved = h.reserved - Len(s)
        BY PushFields
      <4>2. h.reserved = z
        BY <1>4, <3>1
      <4> QED BY <1>1, <4>1, <4>2
    <3>7. BlockSize - (q + (l - k)) + y = z - l
      BY <1>0, <3>2, <3>3
    <3> QED BY <3>1, <3>5, <3>6, <3>7
  <2> QED BY <1>6, <1>9, <2>1, <2>2 DEF Counted
<1>20. GoodHandle(PushBytes(h, s))
  <2>1. x \in Block
    BY <1>0, <1>3
  <2> QED BY <1>6, <1>9, <1>12, <1>18, <1>19, <2>1 DEF GoodHandle
<1> QED BY <1>9, <1>16, <1>20, PushFields

(***************************************************************************)
(* How much the objects hold.                                              *)
(***************************************************************************)

\* One more list
LEMMA OneMore ==
  ASSUME Sizes, NEW c, NEW u, Joined(c, u), NEW n \in Block
  PROVE  /\ Len(c[n]) = Len(c[n - 1]) + Len(u[n])
         /\ Len(c[n]) \in Nat /\ Len(c[n - 1]) \in Nat /\ Len(u[n]) \in Nat
<1>1. n - 1 \in 0..MemObjNum /\ n \in 0..MemObjNum
  BY DEF Sizes, Block
<1>2. c[n - 1] \in Seq(Byte) /\ u[n] \in Seq(Byte) /\ c[n] = c[n - 1] \o u[n]
  BY <1>1 DEF Joined
<1> QED BY <1>2, BytesJoin

\* Objects after the first that are full
LEMMA FullOnes ==
  ASSUME Sizes, NEW c, NEW u, Joined(c, u), NEW w \in Block,
         \A j \in Block : j > 1 /\ j < w => Len(u[j]) = BlockSize
  PROVE  /\ Len(c[1]) = Len(u[1]) /\ Len(u[1]) \in Nat
         /\ \A k \in 1..MemObjNum : k < w => Len(c[k]) = Len(u[1]) + (k - 1) * BlockSize
<1>0. MemObjNum \in Nat \ {0} /\ BlockSize \in Nat \ {0} /\ 1 \in Block /\ Block = 1..MemObjNum
  BY DEF Sizes, Block
<1>1. Len(c[1]) = Len(u[1]) /\ Len(u[1]) \in Nat
  <2>1. Len(c[1]) = Len(c[1 - 1]) + Len(u[1]) /\ Len(u[1]) \in Nat
    BY <1>0, OneMore
  <2>2. c[1 - 1] = <<>> /\ Len(<<>>) = 0
    BY DEF Joined
  <2> QED BY <2>1, <2>2
<1> PICK m \in Nat : m = Len(u[1])
  BY <1>1
<1> DEFINE P(k) == k = 0 \/ k >= w \/ Len(c[k]) = m + (k - 1) * BlockSize
<1>2. PICK S : S = {k \in 0..MemObjNum : P(k)}
  OBVIOUS
<1>3. ASSUME NEW k \in 1..MemObjNum, k - 1 \in S PROVE k \in S
  <2>1. k \in 0..MemObjNum /\ k \in Block /\ w \in Nat
    BY <1>0
  <2>2. P(k)
    <3>1. CASE k >= w
      BY <3>1
    <3>2. CASE k = 1
      <4>1. (k - 1) * BlockSize = 0
        BY <1>0, <3>2, Blocks
      <4>2. Len(c[k]) = m + 0
        BY <1>1, <3>2
      <4> QED BY <4>1, <4>2
    <3>3. CASE k > 1 /\ k < w
      <4>1. Len(c[k - 1]) = m + (k - 1 - 1) * BlockSize
        <5>1. P(k - 1)
          BY <1>2, <1>3
        <5>2. ~(k - 1 = 0) /\ ~(k - 1 >= w)
          BY <2>1, <3>3
        <5> QED BY <5>1, <5>2
      <4>2. (k - 1 - 1) * BlockSize = (k - 1) * BlockSize - BlockSize
        BY <1>0, Blocks
      <4>3. Len(c[k]) = Len(c[k - 1]) + BlockSize
        <5>1. Len(u[k]) = BlockSize
          BY <2>1, <3>3
        <5>2. Len(c[k]) = Len(c[k - 1]) + Len(u[k])
          BY <2>1, OneMore
        <5> QED BY <5>1, <5>2
      <4>4. (k - 1) * BlockSize \in Nat
        BY <1>0, Blocks
      <4>5. Len(c[k]) = m + (k - 1) * BlockSize
        <5> PICK x \in Nat, b \in Nat : x = (k - 1) * BlockSize /\ b = BlockSize
          BY <1>0, <4>4
        <5>1. m + (x - b) + b = m + x
          OBVIOUS
        <5>2. Len(c[k]) = m + (x - b) + b
          BY <4>1, <4>2, <4>3
        <5> QED BY <5>1, <5>2
      <4> QED BY <4>5
    <3> QED BY <2>1, <3>1, <3>2, <3>3
  <2> HIDE DEF P
  <2> QED BY <1>2, <2>1, <2>2
<1>4. 0 \in S
  <2>1. P(0)
    OBVIOUS
  <2> HIDE DEF P
  <2> QED BY <1>0, <1>2, <2>1
<1>5. \A k \in 0..MemObjNum : k \in S
  BY <1>0, <1>3, <1>4, Climb
<1>6. \A k \in 1..MemObjNum : k < w => Len(c[k]) = m + (k - 1) * BlockSize
  <2> SUFFICES ASSUME NEW k \in 1..MemObjNum, k < w PROVE Len(c[k]) = m + (k - 1) * BlockSize
    OBVIOUS
  <2>1. P(k)
    BY <1>2, <1>5
  <2>2. ~(k = 0) /\ ~(k >= w)
    BY <1>0
  <2> QED BY <2>1, <2>2
<1> QED BY <1>1, <1>6

(***************************************************************************)
(* OnWrite.                                                                *)
(***************************************************************************)

\* A chain that holds something: all its objects up to the last written do.
LEMMA NotEmpty ==
  ASSUME Sizes, NEW h, GoodHandle(h), h.usage # 0
  PROVE  \A j \in Block : j <= h.write => h.chain[j].read < Len(h.chain[j].buf)
<1>0. /\ MemObjNum \in Nat \ {0} /\ Block = 1..MemObjNum
      /\ IsChain(h.chain) /\ Filling(h.chain, h.write) /\ Counted(h)
  BY DEF Sizes, Block, GoodHandle
<1> SUFFICES ASSUME h.write = 1, h.chain[1] = FreshBlock PROVE FALSE
  BY <1>0 DEF Filling
<1>1. PICK c, u : Joined(c, u) /\ c = Contents(h.chain) /\ u = Unreads(h.chain)
  BY <1>0, Unrolled
<1>2. \A j \in Block : j > 0 => u[j] = <<>>
  <2> SUFFICES ASSUME NEW j \in Block PROVE u[j] = <<>>
    OBVIOUS
  <2>1. h.chain[j] = FreshBlock
    BY <1>0 DEF Filling
  <2> QED BY <1>1, <2>1, Fresh DEF Unreads
<1>3. 0 \in 0..MemObjNum /\ MemObjNum \in 0..MemObjNum
  BY <1>0
<1>4. c[MemObjNum] = c[0]
  BY <1>1, <1>2, <1>3, Still
<1>5. c[0] = <<>> /\ Len(<<>>) = 0
  BY <1>1 DEF Joined
<1> QED BY <1>0, <1>1, <1>4, <1>5 DEF Counted, Content

SentWhole(h, n) == {j \in Block : Unread(h.chain[j]) # <<>> /\ Len(Content(h.chain, j)) <= n}
Kept(h, k, j) == IF j <= MemObjNum - k THEN h.chain[j + k] ELSE FreshBlock
Unread0(chain) == [j \in Block |-> [chain[j] EXCEPT !.read = 0]]

\* How many objects were sent as a whole
LEMMA Whole ==
  ASSUME Sizes, NEW h, GoodHandle(h), NEW n \in Nat \ {0}, n <= h.usage,
         NEW c, c = Contents(h.chain), NEW k, k = Cardinality(SentWhole(h, n))
  PROVE  /\ k \in 0..h.write /\ h.usage \in Nat /\ h.write \in 1..MemObjNum
         /\ Len(c[k]) \in Nat /\ Len(c[k]) <= n
         /\ k < h.write => /\ n - Len(c[k]) < Len(Unread(h.chain[k + 1]))
                           /\ n < h.usage
         /\ k = h.write => n = h.usage /\ Len(c[k]) = h.usage
<1>0. /\ MemObjNum \in Nat \ {0} /\ Block = 1..MemObjNum /\ h.write \in Block
      /\ IsChain(h.chain) /\ Filling(h.chain, h.write) /\ Counted(h)
  BY DEF Sizes, Block, GoodHandle
<1> PICK w \in 1..MemObjNum : w = h.write
  BY <1>0
<1>1. PICK u : Joined(c, u) /\ u = Unreads(h.chain)
  BY <1>0, Unrolled
<1>2. \A j \in 0..MemObjNum : Len(c[j]) \in Nat /\ c[j] \in Seq(Byte)
  BY <1>1, LenProperties DEF Joined
<1>3. h.usage = Len(c[MemObjNum]) /\ h.usage \in Nat
  <2>1. h.usage = Len(c[MemObjNum])
    BY <1>0 DEF Counted, Content
  <2> QED BY <1>0, <1>2, <2>1
<1>4. \A j \in Block : /\ u[j] = Unread(h.chain[j]) /\ Len(u[j]) \in Nat
                       /\ j <= w => u[j] # <<>> /\ Len(u[j]) > 0
                       /\ j > w => u[j] = <<>>
  <2> SUFFICES ASSUME NEW j \in Block
               PROVE  /\ u[j] = Unread(h.chain[j]) /\ Len(u[j]) \in Nat
                      /\ j <= w => u[j] # <<>> /\ Len(u[j]) > 0
                      /\ j > w => u[j] = <<>>
    OBVIOUS
  <2>1. u[j] = Unread(h.chain[j])
    BY <1>1 DEF Unreads
  <2>2. Len(u[j]) = Len(h.chain[j].buf) - h.chain[j].read /\ h.chain[j].read \in Nat
        /\ Len(h.chain[j].buf) \in Nat /\ h.chain[j].read <= Len(h.chain[j].buf)
    BY <1>0, <2>1, Objects
  <2>3. ASSUME j <= w PROVE u[j] # <<>> /\ Len(u[j]) > 0
    <3>1. h.chain[j].read < Len(h.chain[j].buf)
      BY <1>3, <2>3, NotEmpty
    <3>2. Len(u[j]) > 0
      BY <2>2, <3>1
    <3>3. Len(<<>>) = 0
      OBVIOUS
    <3> QED BY <3>2, <3>3
  <2>4. j > w => u[j] = <<>>
    BY <1>0, <2>1, Fresh DEF Filling
  <2> QED BY <2>1, <2>2, <2>3, <2>4
<1>5. PICK T : T = SentWhole(h, n)
  OBVIOUS
<1>6. \A j \in Block : j \in T <=> j <= w /\ Len(c[j]) <= n
  <2> SUFFICES ASSUME NEW j \in Block PROVE j \in T <=> j <= w /\ Len(c[j]) <= n
    OBVIOUS
  <2>1. j \in T <=> u[j] # <<>> /\ Len(c[j]) <= n
    BY <1>4, <1>5 DEF SentWhole, Content
  <2>2. j <= w \/ j > w
    BY <1>0
  <2> QED BY <1>4, <2>1, <2>2
<1>7. T \in SUBSET (1..MemObjNum)
  BY <1>0, <1>5 DEF SentWhole
<1>8. \A j \in T, i \in 1..MemObjNum : i <= j => i \in T
  <2> SUFFICES ASSUME NEW j \in T, NEW i \in 1..MemObjNum, i <= j PROVE i \in T
    OBVIOUS
  <2>1. j \in 1..MemObjNum
    BY <1>7
  <2>2. j <= w /\ Len(c[j]) <= n
    BY <1>0, <1>6, <2>1
  <2>3. i \in 0..MemObjNum /\ j \in i..MemObjNum /\ j \in 0..MemObjNum
    BY <1>0, <2>1
  <2>4. Len(c[i]) <= Len(c[j])
    BY <1>1, <2>3, Growing
  <2>5. i <= w
    BY <1>0, <2>1, <2>2
  <2>6. Len(c[i]) <= n
    BY <1>2, <2>2, <2>3, <2>4
  <2> QED BY <1>0, <1>6, <2>5, <2>6
<1>9. k \in Nat /\ \A i \in 1..MemObjNum : i \in T <=> i < 1 + k
  BY <1>0, <1>5, <1>7, <1>8, Gapless
<1>10. k \in 0..w
  <2> SUFFICES ASSUME k > w PROVE FALSE
    BY <1>9
  <2>1. CASE w < MemObjNum
    <3>1. w + 1 \in 1..MemObjNum /\ w + 1 < 1 + k /\ ~(w + 1 <= w)
      BY <1>0, <1>9, <2>1
    <3> QED BY <1>0, <1>6, <1>9, <3>1
  <2>2. CASE w = MemObjNum
    <3>1. T # {} => 1 + k <= MemObjNum + 1
      BY <1>0, <1>5, <1>7, <1>8, Gapless
    <3>2. w \in T
      BY <1>0, <1>9, <2>2
    <3> QED BY <1>0, <1>9, <2>2, <3>1, <3>2
  <2> QED BY <1>0, <2>1, <2>2
<1>11. k \in 0..MemObjNum
  BY <1>0, <1>10
<1>12. Len(c[k]) <= n
  <2>1. CASE k = 0
    <3>1. c[k] = <<>> /\ Len(<<>>) = 0
      BY <1>1, <2>1 DEF Joined
    <3> QED BY <3>1
  <2>2. CASE k > 0
    <3>1. k \in 1..MemObjNum /\ k < 1 + k
      BY <1>9, <1>11, <2>2
    <3> QED BY <1>0, <1>6, <1>9, <3>1
  <2> QED BY <1>9, <2>1, <2>2
<1>13. ASSUME k < w
       PROVE  n - Len(c[k]) < Len(Unread(h.chain[k + 1])) /\ n < h.usage
  <2>1. k + 1 \in 1..MemObjNum /\ ~(k + 1 < 1 + k) /\ k + 1 <= w /\ (k + 1) - 1 = k
        /\ k + 1 \in 0..MemObjNum /\ MemObjNum \in (k + 1)..MemObjNum
    BY <1>0, <1>10, <1>13
  <2>2. ~(Len(c[k + 1]) <= n) /\ Len(c[k + 1]) \in Nat
    BY <1>0, <1>2, <1>6, <1>9, <2>1
  <2>3. Len(c[k + 1]) = Len(c[k]) + Len(u[k + 1]) /\ Len(u[k + 1]) \in Nat
    <3> PICK i \in Block : i = k + 1
      BY <1>0, <2>1
    <3>1. Len(c[i]) = Len(c[i - 1]) + Len(u[i]) /\ Len(u[i]) \in Nat
      BY <1>1, OneMore
    <3> QED BY <2>1, <3>1
  <2>4. Len(c[k + 1]) <= h.usage
    BY <1>1, <1>3, <2>1, Growing
  <2>5. PICK x \in Nat, y \in Nat, z \in Nat : x = Len(c[k]) /\ y = Len(u[k + 1]) /\ z = Len(c[k + 1])
    BY <1>2, <1>11, <2>2, <2>3
  <2>6. n - Len(c[k]) < Len(u[k + 1])
    <3>1. z = x + y /\ ~(z <= n)
      BY <2>2, <2>3, <2>5
    <3>2. n - x < y
      BY <3>1
    <3> QED BY <2>5, <3>2
  <2>7. u[k + 1] = Unread(h.chain[k + 1])
    BY <1>0, <1>4, <2>1
  <2>8. n < h.usage
    BY <1>3, <2>2, <2>4
  <2> QED BY <2>6, <2>7, <2>8
<1>14. ASSUME k = w PROVE n = h.usage /\ Len(c[k]) = h.usage
  <2>1. w \in 0..MemObjNum /\ MemObjNum \in w..MemObjNum
    BY <1>0
  <2>2. \A j \in Block : j > w => u[j] = <<>>
    BY <1>4
  <2>3. c[MemObjNum] = c[w]
    BY <1>1, <2>1, <2>2, Still
  <2> QED BY <1>3, <1>12, <1>14, <2>3
<1> QED BY <1>2, <1>3, <1>10, <1>11, <1>12, <1>13, <1>14

\* An object more of which has been read
Moved(b, a, r) == /\ IsObject(a) /\ r \in Nat /\ r <= Len(Unread(a))
                  /\ b = [a EXCEPT !.read = @ + r]

LEMMA MovedOn ==
  ASSUME NEW a, NEW r, NEW b, Moved(b, a, r)
  PROVE  /\ IsObject(b) /\ b.buf = a.buf /\ b.read = a.read + r
         /\ Unread(b) = SubSeq(Unread(a), r + 1, Len(Unread(a)))
<1>1. /\ a \in [buf : Seq(Byte), read : Nat] /\ a.read <= Len(a.buf) /\ IsObject(a)
      /\ r \in Nat /\ r <= Len(Unread(a)) /\ b = [a EXCEPT !.read = @ + r]
  BY DEF Moved, IsObject
<1>2. PICK x \in Seq(Byte), q \in Nat, l \in Nat : x = a.buf /\ q = a.read /\ l = Len(x)
  <2>1. a.buf \in Seq(Byte) /\ a.read \in Nat
    BY <1>1
  <2>2. Len(a.buf) \in Nat
    BY <2>1, LenProperties
  <2> QED BY <2>1, <2>2
<1>3. Len(Unread(a)) = l - q /\ Unread(a) = SubSeq(x, q + 1, Len(x)) /\ q <= l
  <2>1. Len(Unread(a)) = Len(a.buf) - a.read
    BY <1>1, UnreadType
  <2> QED BY <1>1, <1>2, <2>1 DEF Unread
<1>4. b = [buf |-> x, read |-> q + r]
  BY <1>1, <1>2
<1>5. b.buf = x /\ b.read = q + r /\ q + r \in Nat
  BY <1>1, <1>4
<1>6. IsObject(b)
  <2>1. q + r <= l
    BY <1>1, <1>3
  <2>2. b \in [buf : Seq(Byte), read : Nat]
    BY <1>4, <1>5
  <2> QED BY <1>2, <1>5, <2>1, <2>2 DEF IsObject
<1>7. SubSeq(x, (q + r) + 1, Len(x))
      = SubSeq(SubSeq(x, q + 1, Len(x)), r + 1, Len(SubSeq(x, q + 1, Len(x))))
  <2>1. q <= Len(x) /\ r <= Len(SubSeq(x, q + 1, Len(x)))
    BY <1>1, <1>2, <1>3
  <2> QED BY <1>1, <2>1, RestOfRest
<1>8. Unread(b) = SubSeq(x, (q + r) + 1, Len(x))
  BY <1>5 DEF Unread
<1> QED BY <1>2, <1>3, <1>5, <1>6, <1>7, <1>8, Zenon

(* new is the chain without its first k objects and r bytes of the next; that one is not *)
(* yet empty.                                                                            *)
Drops(new, chain, w, k, r) ==
  /\ IsChain(chain) /\ w \in Block /\ Filling(chain, w)
  /\ \A j \in Block : j <= w => chain[j].read < Len(chain[j].buf)
  /\ k \in Nat /\ k < w
  /\ r \in Nat /\ r < Len(Unread(chain[k + 1]))
  /\ new = [[j \in Block |-> IF j <= MemObjNum - k THEN chain[j + k] ELSE FreshBlock]
              EXCEPT ![1].read = @ + r]

LEMMA DropsSome ==
  ASSUME Sizes, NEW new, NEW chain, NEW w, NEW k, NEW r, Drops(new, chain, w, k, r)
  PROVE  /\ IsChain(new) /\ w - k \in Block /\ Filling(new, w - k)
         /\ Shortens(Unreads(new), Unreads(chain), k, r)
         /\ Room(new[w - k]) = Room(chain[w])
<1>0. /\ MemObjNum \in Nat \ {0} /\ Block = 1..MemObjNum /\ 1 \in Block
      /\ IsChain(chain) /\ w \in Block /\ Filling(chain, w)
      /\ k \in Nat /\ k < w /\ r \in Nat /\ r < Len(Unread(chain[k + 1]))
      /\ \A j \in Block : j <= w => chain[j].read < Len(chain[j].buf)
  BY DEF Drops, Sizes, Block
<1>1. /\ w - k \in Block /\ k + 1 \in Block /\ k + 1 <= w /\ 1 <= MemObjNum - k
      /\ k \in 0..(MemObjNum - 1)
  BY <1>0
<1>2. /\ DOMAIN new = Block
      /\ new[1] = [chain[k + 1] EXCEPT !.read = @ + r]
      /\ \A j \in Block : j > 1 /\ j <= MemObjNum - k => new[j] = chain[j + k]
      /\ \A j \in Block : j > 1 /\ j > MemObjNum - k => new[j] = FreshBlock
  <2>1. new = [[j \in Block |-> IF j <= MemObjNum - k THEN chain[j + k] ELSE FreshBlock]
                 EXCEPT ![1].read = @ + r]
    BY DEF Drops
  <2> PICK f : f = [j \in Block |-> IF j <= MemObjNum - k THEN chain[j + k] ELSE FreshBlock]
    OBVIOUS
  <2>2. new = [f EXCEPT ![1] = [f[1] EXCEPT !.read = @ + r]]
    BY <2>1
  <2>3. f[1] = chain[k + 1]
    BY <1>0, <1>1
  <2>4. \A j \in Block : j > 1 => new[j] = f[j]
    BY <2>2
  <2>5. DOMAIN new = Block /\ new[1] = [f[1] EXCEPT !.read = @ + r]
    BY <1>0, <2>2
  <2>6. \A j \in Block : /\ j <= MemObjNum - k => f[j] = chain[j + k]
                         /\ j > MemObjNum - k => f[j] = FreshBlock
    BY <1>0
  <2> QED BY <2>3, <2>4, <2>5, <2>6
<1>3. /\ IsObject(new[1]) /\ new[1].buf = chain[k + 1].buf
      /\ new[1].read = chain[k + 1].read + r
      /\ Unread(new[1]) = SubSeq(Unread(chain[k + 1]), r + 1, Len(Unread(chain[k + 1])))
  <2>1. r <= Len(Unread(chain[k + 1])) /\ IsObject(chain[k + 1])
    <3>1. Len(Unread(chain[k + 1])) \in Nat
      BY <1>0, <1>1, Objects, LenProperties
    <3> QED BY <1>0, <1>1, <3>1 DEF IsChain
  <2>2. Moved(new[1], chain[k + 1], r)
    BY <1>0, <1>2, <2>1 DEF Moved
  <2> QED BY <2>2, MovedOn
<1>4. ASSUME NEW j \in Block PROVE IsObject(new[j])
  <2>1. CASE j = 1
    BY <1>3, <2>1
  <2>2. CASE j > 1 /\ j <= MemObjNum - k
    <3>1. j + k \in Block
      BY <1>0, <2>2
    <3> QED BY <1>0, <1>2, <2>2, <3>1 DEF IsChain
  <2>3. CASE j > 1 /\ j > MemObjNum - k
    BY <1>2, <2>3, Fresh
  <2> QED BY <1>0, <2>1, <2>2, <2>3
<1>5. IsChain(new)
  BY <1>2, <1>4 DEF IsChain
<1>6. \A j \in Block : j <= MemObjNum - k => j + k \in Block /\ new[j].buf = chain[j + k].buf
  <2> SUFFICES ASSUME NEW j \in Block, j <= MemObjNum - k
               PROVE  j + k \in Block /\ new[j].buf = chain[j + k].buf
    OBVIOUS
  <2>1. j + k \in Block
    BY <1>0
  <2>2. CASE j = 1
    BY <1>0, <1>3, <2>1, <2>2
  <2>3. CASE j > 1
    BY <1>2, <2>1, <2>3
  <2> QED BY <1>0, <2>1, <2>2, <2>3
<1>7. \A j \in Block : j > w - k => new[j] = FreshBlock
  <2> SUFFICES ASSUME NEW j \in Block, j > w - k PROVE new[j] = FreshBlock
    OBVIOUS
  <2>1. j > 1
    BY <1>0, <1>1
  <2>2. CASE j <= MemObjNum - k
    <3>1. j + k \in Block /\ j + k > w
      BY <1>0, <2>2
    <3>2. chain[j + k] = FreshBlock
      BY <1>0, <3>1 DEF Filling
    <3> QED BY <1>2, <2>1, <2>2, <3>2
  <2>3. CASE j > MemObjNum - k
    BY <1>2, <2>1, <2>3
  <2> QED BY <1>0, <2>2, <2>3
<1>8. Filling(new, w - k)
  <2>1. \A j \in Block : Len(new[j].buf) <= BlockSize
    <3> SUFFICES ASSUME NEW j \in Block PROVE Len(new[j].buf) <= BlockSize
      OBVIOUS
    <3>1. CASE j <= MemObjNum - k
      <4>1. j + k \in Block /\ new[j].buf = chain[j + k].buf
        BY <1>6, <3>1
      <4>2. Len(chain[j + k].buf) <= BlockSize
        BY <1>0, <4>1 DEF Filling
      <4> QED BY <4>1, <4>2
    <3>2. CASE j > MemObjNum - k
      <4>1. j > w - k
        BY <1>0, <3>2
      <4> QED BY <1>7, <4>1, Fresh DEF Sizes
    <3> QED BY <1>0, <3>1, <3>2
  <2>2. \A j \in Block : j < w - k => Len(new[j].buf) = BlockSize
    <3> SUFFICES ASSUME NEW j \in Block, j < w - k PROVE Len(new[j].buf) = BlockSize
      OBVIOUS
    <3>1. j <= MemObjNum - k /\ j + k < w
      BY <1>0
    <3>2. j + k \in Block /\ new[j].buf = chain[j + k].buf
      BY <1>6, <3>1
    <3> QED BY <1>0, <3>1, <3>2 DEF Filling
  <2>3. \A j \in Block : j > 1 => new[j].read = 0
    <3> SUFFICES ASSUME NEW j \in Block, j > 1 PROVE new[j].read = 0
      OBVIOUS
    <3>1. CASE j <= MemObjNum - k
      <4>1. j + k \in Block /\ j + k > 1
        BY <1>0, <3>1
      <4> QED BY <1>0, <1>2, <3>1, <4>1 DEF Filling
    <3>2. CASE j > MemObjNum - k
      BY <1>2, <3>2, Fresh
    <3> QED BY <1>0, <3>1, <3>2
  <2>4. \A j \in Block : j <= w - k => new[j].read < Len(new[j].buf)
    <3> SUFFICES ASSUME NEW j \in Block, j <= w - k PROVE new[j].read < Len(new[j].buf)
      OBVIOUS
    <3>1. CASE j = 1
      <4>1. PICK a \in Nat, b \in Nat : /\ a = Len(chain[k + 1].buf) /\ b = chain[k + 1].read
                                        /\ Len(Unread(chain[k + 1])) = a - b
        <5> PICK i \in Block : i = k + 1
          BY <1>1
        <5>1. /\ Len(chain[i].buf) \in Nat /\ chain[i].read \in Nat
              /\ Len(Unread(chain[i])) = Len(chain[i].buf) - chain[i].read
          BY <1>0, Objects
        <5> QED BY <5>1
      <4>2. b + r < a
        BY <1>0, <4>1
      <4> QED BY <1>3, <3>1, <4>1, <4>2
    <3>2. CASE j > 1
      <4>1. j + k \in Block /\ j + k <= w /\ j <= MemObjNum - k
        BY <1>0, <3>2
      <4>2. new[j] = chain[j + k]
        BY <1>2, <3>2, <4>1
      <4> QED BY <1>0, <4>1, <4>2
    <3> QED BY <1>0, <3>1, <3>2
  <2> QED BY <1>7, <2>1, <2>2, <2>3, <2>4 DEF Filling
<1>9. Room(new[w - k]) = Room(chain[w])
  <2>1. w - k <= MemObjNum - k /\ (w - k) + k = w
    BY <1>0
  <2>2. new[w - k].buf = chain[w].buf
    BY <1>1, <1>6, <2>1
  <2> QED BY <2>2 DEF Room
<1>10. Shortens(Unreads(new), Unreads(chain), k, r)
  <2>1. \A j \in Block : Unreads(new)[j] = Unread(new[j]) /\ Unreads(chain)[j] = Unread(chain[j])
    BY DEF Unreads
  <2>2. r <= Len(Unreads(chain)[k + 1])
    <3>1. Len(Unread(chain[k + 1])) \in Nat
      BY <1>0, <1>1, Objects, LenProperties
    <3> QED BY <1>0, <1>1, <2>1, <3>1
  <2>3. Unreads(new)[1]
        = SubSeq(Unreads(chain)[k + 1], r + 1, Len(Unreads(chain)[k + 1]))
    BY <1>0, <1>1, <1>3, <2>1
  <2>4. \A j \in Block : j > 1 /\ j <= MemObjNum - k => Unreads(new)[j] = Unreads(chain)[j + k]
    BY <1>2, <1>6, <2>1
  <2>5. \A j \in Block : j > MemObjNum - k => Unreads(new)[j] = <<>>
    <3> SUFFICES ASSUME NEW j \in Block, j > MemObjNum - k PROVE Unreads(new)[j] = <<>>
      OBVIOUS
    <3>1. j > w - k
      BY <1>0
    <3>2. new[j] = FreshBlock
      BY <1>7, <3>1
    <3> QED BY <2>1, <3>2, Fresh
  <2> QED BY <1>0, <1>1, <2>2, <2>3, <2>4, <2>5 DEF Shortens
<1> QED BY <1>1, <1>5, <1>8, <1>9, <1>10

\* What was ever written to objects that are full
LEMMA Freed ==
  ASSUME Sizes, NEW chain, IsChain(chain), NEW w \in Block, Filling(chain, w),
         NEW k \in 0..(w - 1)
  PROVE  /\ Len(Content(Unread0(chain), k)) = k * BlockSize
         /\ Len(Content(Unread0(chain), w)) = (w - 1) * BlockSize + Len(chain[w].buf)
         /\ Len(chain[w].buf) \in Nat
<1>0. MemObjNum \in Nat \ {0} /\ BlockSize \in Nat \ {0} /\ Block = 1..MemObjNum
  BY DEF Sizes, Block
<1>1. PICK z : z = Unread0(chain)
  OBVIOUS
<1>2. \A j \in Block : /\ IsObject(z[j]) /\ Unread(z[j]) = chain[j].buf
                       /\ Len(chain[j].buf) \in Nat /\ chain[j].buf \in Seq(Byte)
  <2> SUFFICES ASSUME NEW j \in Block
               PROVE  /\ IsObject(z[j]) /\ Unread(z[j]) = chain[j].buf
                      /\ Len(chain[j].buf) \in Nat /\ chain[j].buf \in Seq(Byte)
    OBVIOUS
  <2>1. PICK x \in Seq(Byte), q \in Nat : chain[j] = [buf |-> x, read |-> q] /\ Len(x) \in Nat
                                         /\ x = chain[j].buf
    <3>1. /\ chain[j].buf \in Seq(Byte) /\ chain[j].read \in Nat /\ Len(chain[j].buf) \in Nat
          /\ chain[j] = [buf |-> chain[j].buf, read |-> chain[j].read]
      BY Objects
    <3> QED BY <3>1, Zenon
  <2>2. z[j] = [buf |-> x, read |-> 0]
    BY <1>1, <2>1 DEF Unread0
  <2>3. z[j].buf = x /\ z[j].read = 0 /\ z[j] \in [buf : Seq(Byte), read : Nat]
    BY <2>2
  <2>4. SubSeq(x, 0 + 1, Len(x)) = x
    BY SubSeqFull
  <2>5. Unread(z[j]) = x
    BY <2>3, <2>4 DEF Unread
  <2>6. IsObject(z[j])
    BY <2>1, <2>3 DEF IsObject
  <2> QED BY <2>1, <2>5, <2>6
<1>3. IsChain(z)
  BY <1>1, <1>2 DEF IsChain, Unread0
<1>4. PICK c, u : Joined(c, u) /\ c = Contents(z) /\ u = Unreads(z)
  BY <1>3, Unrolled
<1>5. \A j \in Block : u[j] = chain[j].buf
  BY <1>2, <1>4 DEF Unreads
<1>6. \A j \in Block : j < w => Len(u[j]) = BlockSize
  BY <1>5 DEF Filling
<1>7. /\ Len(c[1]) = Len(u[1]) /\ Len(u[1]) \in Nat
      /\ \A i \in 1..MemObjNum : i < w => Len(c[i]) = Len(u[1]) + (i - 1) * BlockSize
  BY <1>4, <1>6, FullOnes
<1>8. ASSUME NEW i \in 0..(w - 1) PROVE Len(c[i]) = i * BlockSize
  <2>1. CASE i = 0
    <3>1. c[i] = <<>> /\ Len(<<>>) = 0
      BY <1>4, <2>1 DEF Joined
    <3> QED BY <1>0, <2>1, <3>1, Blocks
  <2>2. CASE i > 0
    <3>1. i \in 1..MemObjNum /\ i < w /\ 1 \in Block /\ 1 < w
      BY <1>0, <2>2
    <3>2. Len(c[i]) = BlockSize + (i - 1) * BlockSize
      BY <1>6, <1>7, <3>1
    <3>3. (i - 1) * BlockSize = i * BlockSize - BlockSize /\ i * BlockSize \in Nat
      BY <1>0, <3>1, Blocks
    <3> QED BY <1>0, <3>2, <3>3
  <2> QED BY <1>0, <2>1, <2>2
<1>9. Len(c[w]) = (w - 1) * BlockSize + Len(chain[w].buf)
  <2>1. Len(c[w]) = Len(c[w - 1]) + Len(u[w])
    BY <1>4, OneMore
  <2>2. Len(c[w - 1]) = (w - 1) * BlockSize
    BY <1>0, <1>8
  <2> QED BY <1>5, <2>1, <2>2
<1> QED BY <1>1, <1>2, <1>4, <1>8, <1>9 DEF Content

LEMMA OnWriteFields ==
  ASSUME NEW h, NEW n
  PROVE  /\ OnWrite(h, n).chain = Dropped(h, n).chain
         /\ OnWrite(h, n).reserved = Dropped(h, n).reserved
         /\ OnWrite(h, n).usage = Dropped(h, n).usage
         /\ OnWrite(h, n).write = IF Dropped(h, n).usage = 0 THEN 1 ELSE Dropped(h, n).write
<1>1. PICK a, b, e, f : Dropped(h, n) = [chain |-> a, write |-> b, reserved |-> e, usage |-> f]
  BY DEF Dropped
<1> PICK d : d = Dropped(h, n)
  OBVIOUS
<1>2. OnWrite(h, n) = [d EXCEPT !.write = IF d.usage = 0 THEN 1 ELSE @]
  BY DEF OnWrite
<1> QED BY <1>1, <1>2

\* Of what the chain holds the first n bytes go, and the rest stays.
LEMMA Written ==
  ASSUME Sizes, NEW h, GoodHandle(h), NEW n \in Nat \ {0}, n <= h.usage
  PROVE  /\ GoodHandle(OnWrite(h, n)) /\ OnWrite(h, n).usage = h.usage - n /\ h.usage \in Nat
         /\ Content(OnWrite(h, n).chain, MemObjNum)
            = SubSeq(Content(h.chain, MemObjNum), n + 1, h.usage)
<1>0. /\ MemObjNum \in Nat \ {0} /\ BlockSize \in Nat \ {0} /\ Block = 1..MemObjNum
      /\ IsChain(h.chain) /\ Filling(h.chain, h.write) /\ Counted(h)
  BY DEF Sizes, Block, GoodHandle
<1>1. PICK c, u : Joined(c, u) /\ c = Contents(h.chain) /\ u = Unreads(h.chain)
  BY <1>0, Unrolled
<1>2. PICK k : k = Cardinality(SentWhole(h, n))
  OBVIOUS
<1>3. /\ k \in 0..h.write /\ h.usage \in Nat /\ h.write \in 1..MemObjNum
      /\ Len(c[k]) \in Nat /\ Len(c[k]) <= n
      /\ k < h.write => n - Len(c[k]) < Len(Unread(h.chain[k + 1])) /\ n < h.usage
      /\ k = h.write => n = h.usage /\ Len(c[k]) = h.usage
  BY <1>1, <1>2, Whole
<1>4. PICK w \in Block : w = h.write
  BY <1>0, <1>3
<1>5. PICK r \in Nat : r = n - Len(c[k])
  <2>1. Len(c[k]) \in Nat /\ Len(c[k]) <= n
    BY <1>3
  <2>2. n - Len(c[k]) \in Nat
    BY <2>1
  <2> QED BY <2>2
<1>6. PICK new : new = Dropped(h, n).chain
  OBVIOUS
<1>7. /\ new = [[j \in Block |-> IF j <= MemObjNum - k THEN h.chain[j + k] ELSE FreshBlock]
                  EXCEPT ![1].read = @ + r]
      /\ Dropped(h, n).write = w - k
      /\ Dropped(h, n).reserved = h.reserved + Len(Content(Unread0(h.chain), k))
      /\ Dropped(h, n).usage = h.usage - n
  <2>1. r = n - Len(Content(h.chain, k))
    BY <1>1, <1>5 DEF Content
  <2>2. /\ Dropped(h, n).chain = [[j \in Block |-> Kept(h, k, j)] EXCEPT ![1].read = @ + r]
        /\ Dropped(h, n).write = h.write - k
        /\ Dropped(h, n).reserved = h.reserved + Len(Content(Unread0(h.chain), k))
        /\ Dropped(h, n).usage = h.usage - n
    BY <1>2, <2>1 DEF Dropped, SentWhole, Kept, Unread0
  <2>3. [j \in Block |-> Kept(h, k, j)]
        = [j \in Block |-> IF j <= MemObjNum - k THEN h.chain[j + k] ELSE FreshBlock]
    BY DEF Kept
  <2> QED BY <1>4, <1>6, <2>2, <2>3, Zenon
<1>8. OnWrite(h, n).usage = h.usage - n /\ OnWrite(h, n).chain = new
      /\ OnWrite(h, n).reserved = h.reserved + Len(Content(Unread0(h.chain), k))
      /\ OnWrite(h, n).write = IF h.usage - n = 0 THEN 1 ELSE w - k
  <2>1. /\ OnWrite(h, n).chain = Dropped(h, n).chain
        /\ OnWrite(h, n).reserved = Dropped(h, n).reserved
        /\ OnWrite(h, n).usage = Dropped(h, n).usage
        /\ OnWrite(h, n).write = IF Dropped(h, n).usage = 0 THEN 1 ELSE Dropped(h, n).write
    BY OnWriteFields
  <2> QED BY <1>6, <1>7, <2>1, Zenon
<1>9. h.reserved = Room(h.chain[w]) + (MemObjNum - w) * BlockSize
      /\ h.usage = Len(c[MemObjNum])
  BY <1>0, <1>1, <1>4 DEF Counted, Content
<1>10. PICK f \in Nat, y \in Nat :
         /\ f = Len(h.chain[w].buf) /\ y = (MemObjNum - w) * BlockSize
         /\ Room(h.chain[w]) = BlockSize - f
  <2>1. Len(h.chain[w].buf) \in Nat
    BY <1>0, Objects
  <2>2. (MemObjNum - w) * BlockSize \in Nat
    BY <1>0, Blocks
  <2> QED BY <1>0, <2>1, <2>2 DEF Room
<1>11. ASSUME k < w
       PROVE  /\ GoodHandle(OnWrite(h, n))
              /\ Content(new, MemObjNum) = SubSeq(Content(h.chain, MemObjNum), n + 1, h.usage)
  <2>1. h.usage # 0 /\ h.usage - n # 0
    BY <1>3, <1>4, <1>11
  <2>2. \A j \in Block : j <= w => h.chain[j].read < Len(h.chain[j].buf)
    BY <1>4, <2>1, NotEmpty
  <2>3. Drops(new, h.chain, w, k, r)
    BY <1>0, <1>3, <1>4, <1>5, <1>7, <1>11, <2>2 DEF Drops
  <2>4. /\ IsChain(new) /\ w - k \in Block /\ Filling(new, w - k)
        /\ Shortens(Unreads(new), Unreads(h.chain), k, r)
        /\ Room(new[w - k]) = Room(h.chain[w])
    BY <2>3, DropsSome
  <2>5. PICK d, v : Joined(d, v) /\ d = Contents(new) /\ v = Unreads(new)
    BY <2>4, Unrolled
  <2>6. /\ Len(c[k]) + r <= Len(c[MemObjNum])
        /\ d[MemObjNum] = SubSeq(c[MemObjNum], Len(c[k]) + r + 1, Len(c[MemObjNum]))
    <3>1. Shortens(v, u, k, r)
      BY <1>1, <2>4, <2>5
    <3>2. Joined(c, u) /\ Joined(d, v)
      BY <1>1, <2>5
    <3>3. Remains(d[MemObjNum], c[MemObjNum], Len(c[k]) + r)
      BY <3>1, <3>2, Shortened
    <3> QED BY <3>3 DEF Remains
  <2>7. Len(c[k]) + r = n
    BY <1>3, <1>5
  <2>8. d[MemObjNum] = SubSeq(c[MemObjNum], n + 1, Len(c[MemObjNum]))
    BY <2>6, <2>7
  <2>9. Len(d[MemObjNum]) = h.usage - n
    <3>1. MemObjNum \in 0..MemObjNum
      BY <1>0
    <3>2. c[MemObjNum] \in Seq(Byte) /\ Len(c[MemObjNum]) \in Nat
      BY <1>1, <3>1, LenProperties DEF Joined
    <3> PICK l \in Nat : l = Len(c[MemObjNum])
      BY <3>2
    <3>3. n <= l /\ l <= Len(c[MemObjNum])
      BY <1>9
    <3>4. Len(SubSeq(c[MemObjNum], n + 1, l)) = l - n
      BY <3>2, <3>3, BytesCut
    <3> QED BY <1>9, <2>8, <3>4
  <2>10. OnWrite(h, n).write = w - k
    BY <1>8, <2>1
  <2>11. Len(Content(Unread0(h.chain), k)) = k * BlockSize
    <3>1. k \in 0..(w - 1)
      BY <1>0, <1>3, <1>11
    <3> QED BY <1>0, <1>4, <3>1, Freed
  <2>12. OnWrite(h, n).reserved = Room(new[w - k]) + (MemObjNum - (w - k)) * BlockSize
    <3>1. MemObjNum - (w - k) = (MemObjNum - w) + k
      BY <1>0, <1>3
    <3>2. ((MemObjNum - w) + k) * BlockSize = (MemObjNum - w) * BlockSize + k * BlockSize
      BY <1>0, <1>3, Blocks
    <3>3. k * BlockSize \in Nat
      BY <1>0, <1>3, Blocks
    <3> PICK z \in Nat : z = k * BlockSize
      BY <3>3
    <3>4. OnWrite(h, n).reserved = ((BlockSize - f) + y) + z
      BY <1>8, <1>9, <1>10, <2>11
    <3>5. Room(new[w - k]) + (MemObjNum - (w - k)) * BlockSize = (BlockSize - f) + (y + z)
      BY <1>10, <2>4, <3>1, <3>2
    <3>6. ((BlockSize - f) + y) + z = (BlockSize - f) + (y + z)
      BY <1>0
    <3> QED BY <3>4, <3>5, <3>6
  <2>13. Counted(OnWrite(h, n))
    BY <1>8, <2>5, <2>9, <2>10, <2>12 DEF Counted, Content
  <2>14. GoodHandle(OnWrite(h, n))
    BY <1>8, <2>4, <2>10, <2>13 DEF GoodHandle
  <2>15. Content(new, MemObjNum) = SubSeq(Content(h.chain, MemObjNum), n + 1, h.usage)
    BY <1>1, <1>9, <2>5, <2>8 DEF Content
  <2> QED BY <2>14, <2>15
<1>12. ASSUME k = w
       PROVE  /\ GoodHandle(OnWrite(h, n))
              /\ Content(new, MemObjNum) = SubSeq(Content(h.chain, MemObjNum), n + 1, h.usage)
  <2>1. r = 0 /\ n = h.usage /\ OnWrite(h, n).write = 1
    BY <1>3, <1>4, <1>5, <1>8, <1>12
  <2>2. DOMAIN new = Block /\ \A j \in Block : new[j] = FreshBlock
    <3> PICK g : g = [j \in Block |-> IF j <= MemObjNum - k THEN h.chain[j + k] ELSE FreshBlock]
      OBVIOUS
    <3>1. \A j \in Block : g[j] = FreshBlock
      <4> SUFFICES ASSUME NEW j \in Block, j <= MemObjNum - k PROVE h.chain[j + k] = FreshBlock
        OBVIOUS
      <4>1. j + k \in Block /\ j + k > w
        BY <1>0, <1>12
      <4> QED BY <1>0, <1>4, <4>1 DEF Filling
    <3>2. [FreshBlock EXCEPT !.read = @ + 0] = FreshBlock
      BY DEF FreshBlock
    <3>3. new = [g EXCEPT ![1] = [g[1] EXCEPT !.read = @ + 0]]
      BY <1>7, <2>1
    <3> QED BY <1>0, <3>1, <3>2, <3>3
  <2>3. IsChain(new)
    BY <2>2, Fresh DEF IsChain
  <2>4. Filling(new, 1)
    <3>1. \A j \in Block : Len(new[j].buf) = 0 /\ new[j].read = 0
      BY <2>2, Fresh
    <3>2. 1 \in Block
      BY <1>0
    <3> QED BY <1>0, <2>2, <3>1, <3>2 DEF Filling
  <2>5. PICK d, v : Joined(d, v) /\ d = Contents(new) /\ v = Unreads(new)
    BY <2>3, Unrolled
  <2>6. d[MemObjNum] = <<>>
    <3>1. \A j \in Block : v[j] = <<>>
      BY <2>2, <2>5, Fresh DEF Unreads
    <3>2. 0 \in 0..MemObjNum /\ MemObjNum \in 0..MemObjNum
      BY <1>0
    <3>3. d[MemObjNum] = d[0]
      BY <2>5, <3>1, <3>2, Still
    <3> QED BY <2>5, <3>3 DEF Joined
  <2>7. OnWrite(h, n).reserved = Room(new[1]) + (MemObjNum - 1) * BlockSize
    <3>1. Len(Content(Unread0(h.chain), k)) = (w - 1) * BlockSize + f
      <4>1. 0 \in 0..(w - 1)
        BY <1>0
      <4> QED BY <1>0, <1>4, <1>10, <1>12, <4>1, Freed
    <3>2. MemObjNum - 1 = (MemObjNum - w) + (w - 1)
      BY <1>0
    <3>3. ((MemObjNum - w) + (w - 1)) * BlockSize
          = (MemObjNum - w) * BlockSize + (w - 1) * BlockSize
      BY <1>0, Blocks
    <3>4. (w - 1) * BlockSize \in Nat
      BY <1>0, Blocks
    <3> PICK z \in Nat : z = (w - 1) * BlockSize
      BY <3>4
    <3>5. OnWrite(h, n).reserved = ((BlockSize - f) + y) + (z + f)
      BY <1>8, <1>9, <1>10, <3>1
    <3>6. Room(new[1]) = BlockSize
      BY <1>0, <2>2, Fresh
    <3>7. (MemObjNum - 1) * BlockSize = y + z
      BY <1>10, <3>2, <3>3
    <3>8. ((BlockSize - f) + y) + (z + f) = BlockSize + (y + z)
      BY <1>0
    <3> QED BY <3>5, <3>6, <3>7, <3>8
  <2>8. Counted(OnWrite(h, n))
    <3>1. Len(Content(new, MemObjNum)) = 0
      BY <2>5, <2>6 DEF Content
    <3>2. OnWrite(h, n).usage = 0
      BY <1>3, <1>8, <2>1
    <3> QED BY <1>8, <2>1, <2>7, <3>1, <3>2 DEF Counted
  <2>9. GoodHandle(OnWrite(h, n))
    <3>1. 1 \in Block
      BY <1>0
    <3> QED BY <1>8, <2>1, <2>3, <2>4, <2>8, <3>1 DEF GoodHandle
  <2>10. SubSeq(Content(h.chain, MemObjNum), n + 1, h.usage) = <<>>
    <3>1. n + 1 > h.usage
      BY <1>3, <2>1
    <3> QED BY <3>1, SubSeqEmpty, <1>3
  <2> QED BY <2>5, <2>6, <2>9, <2>10 DEF Content
<1> QED BY <1>0, <1>3, <1>4, <1>8, <1>11, <1>12

(***************************************************************************)
(* SendBuffer.                                                             *)
(***************************************************************************)

\* It takes objects from the head of the chain, and no more than wsabuf has entries.
LEMMA ObjectsTaken ==
  ASSUME Sizes, NEW h, GoodHandle(h), h.usage # 0, NEW n, n = ObjectsFor(h)
  PROVE  /\ n \in 1..MaxWsabuf
         /\ Content(h.chain, n) \in Seq(Byte) /\ Len(Content(h.chain, n)) \in Nat
         /\ Len(Content(h.chain, n)) <= h.usage
         /\ Content(h.chain, n)
            = SubSeq(Content(h.chain, MemObjNum), 1, Len(Content(h.chain, n)))
<1>0. /\ MemObjNum \in Nat \ {0} /\ BlockSize \in Nat \ {0} /\ Block = 1..MemObjNum
      /\ MaxTransfer \in Nat \ {0} /\ MaxWsabuf \in Nat \ {0}
      /\ MaxTransfer <= (MaxWsabuf - 1) * BlockSize + 1
      /\ IsChain(h.chain) /\ Filling(h.chain, h.write) /\ Counted(h) /\ h.write \in Block
  BY DEF Sizes, Block, GoodHandle
<1>1. PICK c, u : Joined(c, u) /\ c = Contents(h.chain) /\ u = Unreads(h.chain)
  BY <1>0, Unrolled
<1>2. \A j \in 0..MemObjNum : Len(c[j]) \in Nat /\ c[j] \in Seq(Byte)
  BY <1>1, LenProperties DEF Joined
<1>3. h.usage = Len(c[MemObjNum]) /\ h.usage \in Nat \ {0}
  <2>1. h.usage = Len(c[MemObjNum])
    BY <1>0, <1>1 DEF Counted, Content
  <2> QED BY <1>0, <1>2, <2>1
<1>4. PICK t \in Nat \ {0} : t = Least(h.usage, MaxTransfer) /\ t <= h.usage /\ t <= MaxTransfer
  <2>1. Least(h.usage, MaxTransfer) \in Nat \ {0}
    BY <1>0, <1>3 DEF Least
  <2>2. Least(h.usage, MaxTransfer) <= h.usage /\ Least(h.usage, MaxTransfer) <= MaxTransfer
    BY <1>0, <1>3 DEF Least
  <2> QED BY <2>1, <2>2
<1> DEFINE P(x) == Len(c[x]) >= t /\ \A k \in 1..(x - 1) : Len(c[k]) < t
<1>5. \E x \in Block : P(x)
  <2>1. PICK T : T = {x \in Block : Len(c[x]) >= t}
    OBVIOUS
  <2>2. T \in SUBSET Nat
    BY <1>0, <2>1
  <2>3. MemObjNum \in T
    BY <1>0, <1>3, <1>4, <2>1
  <2>4. PICK x \in T : \A y \in T : x <= y
    <3>1. T # {}
      BY <2>3
    <3> QED BY <2>2, <3>1, LeastNumber
  <2>5. x \in Block /\ x \in 1..MemObjNum /\ Len(c[x]) >= t
    BY <1>0, <2>1, <2>4
  <2>6. ASSUME NEW k \in 1..(x - 1) PROVE Len(c[k]) < t
    <3>1. k \in Block /\ ~(x <= k) /\ k \in 0..MemObjNum
      BY <1>0, <2>5
    <3>2. ~(Len(c[k]) >= t)
      BY <2>1, <2>4, <3>1
    <3>3. Len(c[k]) \in Nat
      BY <1>2, <3>1
    <3> QED BY <3>2, <3>3
  <2> QED BY <2>5, <2>6
<1>6. n = CHOOSE x \in Block : P(x)
  BY <1>1, <1>4 DEF ObjectsFor, Content
<1>7. n \in Block /\ P(n)
  <2> HIDE DEF P
  <2> QED BY <1>5, <1>6
<1>8. n \in 1..MemObjNum /\ n \in 0..MemObjNum /\ MemObjNum \in n..MemObjNum
  BY <1>0, <1>7
<1>9. /\ c[n] \in Seq(Byte) /\ Len(c[n]) \in Nat /\ Len(c[n]) <= h.usage
      /\ c[n] = SubSeq(c[MemObjNum], 1, Len(c[n]))
  <2>1. Len(c[n]) <= Len(c[MemObjNum]) /\ c[n] = SubSeq(c[MemObjNum], 1, Len(c[n]))
    BY <1>1, <1>8, Growing
  <2> QED BY <1>2, <1>3, <1>8, <2>1
<1>10. n <= MaxWsabuf
  <2> SUFFICES ASSUME n > MaxWsabuf PROVE FALSE
    BY <1>0, <1>8
  <2>1. n > 1 /\ n - 1 \in 1..(n - 1) /\ n - 1 \in 1..MemObjNum /\ n - 1 \in 0..MemObjNum
    BY <1>0, <1>8
  <2>2. Len(c[n - 1]) < t /\ Len(c[n - 1]) \in Nat
    BY <1>2, <1>7, <2>1
  <2>3. n - 1 < h.write
    <3> SUFFICES ASSUME n - 1 >= h.write PROVE FALSE
      BY <1>0, <1>8
    <3>1. \A j \in Block : j > n - 1 => u[j] = <<>>
      <4> SUFFICES ASSUME NEW j \in Block, j > n - 1 PROVE u[j] = <<>>
        OBVIOUS
      <4>1. j > h.write
        BY <1>0, <1>8
      <4>2. h.chain[j] = FreshBlock
        BY <1>0, <4>1 DEF Filling
      <4> QED BY <1>1, <4>2, Fresh DEF Unreads
    <3>2. MemObjNum \in (n - 1)..MemObjNum
      BY <1>0, <2>1
    <3>3. c[MemObjNum] = c[n - 1]
      BY <1>1, <2>1, <3>1, <3>2, Still
    <3> QED BY <1>3, <1>4, <2>2, <3>3
  <2>4. \A j \in Block : j > 1 /\ j < h.write => Len(u[j]) = BlockSize
    <3> SUFFICES ASSUME NEW j \in Block, j > 1, j < h.write PROVE Len(u[j]) = BlockSize
      OBVIOUS
    <3>1. Len(u[j]) = Len(h.chain[j].buf) - h.chain[j].read
      BY <1>0, <1>1, Objects DEF Unreads
    <3>2. Len(h.chain[j].buf) = BlockSize /\ h.chain[j].read = 0
      BY <1>0 DEF Filling
    <3> QED BY <1>0, <3>1, <3>2
  <2>5. Len(u[1]) \in Nat /\ Len(c[n - 1]) = Len(u[1]) + ((n - 1) - 1) * BlockSize
    BY <1>0, <1>1, <2>1, <2>3, <2>4, FullOnes
  <2>6. Len(u[1]) >= 1
    <3>1. 1 \in Block /\ 1 <= h.write
      BY <1>0
    <3>2. h.chain[1].read < Len(h.chain[1].buf)
      BY <1>3, <3>1, NotEmpty
    <3>3. Len(u[1]) = Len(h.chain[1].buf) - h.chain[1].read /\ Len(h.chain[1].buf) \in Nat
          /\ h.chain[1].read \in Nat
      BY <1>0, <1>1, <3>1, Objects DEF Unreads
    <3> QED BY <3>2, <3>3
  <2>7. (MaxWsabuf - 1) * BlockSize <= ((n - 1) - 1) * BlockSize
    <3>1. MaxWsabuf - 1 \in Nat /\ (n - 1) - 1 \in Nat /\ MaxWsabuf - 1 <= (n - 1) - 1
      BY <1>0, <1>8, <2>1
    <3> QED BY <1>0, <3>1, Blocks
  <2>8. PICK a \in Nat, b \in Nat, m \in Nat :
          /\ a = (MaxWsabuf - 1) * BlockSize /\ b = ((n - 1) - 1) * BlockSize /\ m = Len(u[1])
    <3>1. MaxWsabuf - 1 \in Nat /\ (n - 1) - 1 \in Nat
      BY <1>0, <1>8, <2>1
    <3> QED BY <1>0, <2>5, <3>1, Blocks
  <2>9. a <= b /\ m >= 1 /\ m + b < t /\ t <= MaxTransfer /\ MaxTransfer <= a + 1
    BY <1>0, <1>4, <2>2, <2>5, <2>6, <2>7, <2>8
  <2> QED BY <1>0, <2>9
<1> QED BY <1>0, <1>1, <1>8, <1>9, <1>10 DEF Content

(***************************************************************************)
(* The invariant.                                                          *)
(***************************************************************************)

AFunction(chain) == chain = [j \in Block |-> chain[j]]

\* The list t is the beginning of what the chain holds.
Heads(t, h) == /\ t \in Seq(Byte) /\ Len(t) <= h.usage
               /\ t = SubSeq(Content(h.chain, MemObjNum), 1, Len(t))

\* The last d of the list s
LastOf(s, d) == SubSeq(s, Len(s) - d + 1, Len(s))

Sending ==
  /\ GoodHandle(mh) /\ AFunction(mh.chain)
  /\ accepted \in 0..MaxMsgs /\ sent \in Seq(Byte) /\ lineBroken \in BOOLEAN
  /\ ioType \in {"wait", "write"} /\ wsabufs \in 0..MaxWsabuf
  /\ done \in Nat /\ done <= Len(sent)
  /\ Heads(inFlight, mh) /\ Heads(LastOf(sent, done), mh)
  /\ inFlight # <<>> => done = 0
  /\ ioType = "wait" => inFlight = <<>> /\ done = 0

LEMMA TheLast ==
  ASSUME NEW s \in Seq(Byte), NEW d \in Nat, d <= Len(s)
  PROVE  LastOf(s, d) \in Seq(Byte) /\ Len(LastOf(s, d)) = d /\ (d = 0 => LastOf(s, d) = <<>>)
<1>1. PICK l \in Nat : l = Len(s)
  BY LenProperties
<1>2. PICK m \in Nat : m = l - d /\ m <= l
  <2>1. l - d \in Nat /\ l - d <= l
    BY <1>1
  <2> QED BY <2>1
<1>3. SubSeq(s, m + 1, l) \in Seq(Byte) /\ Len(SubSeq(s, m + 1, l)) = l - m
  <2>1. m <= l /\ l <= Len(s)
    BY <1>1, <1>2
  <2> QED BY <2>1, BytesCut
<1>4. LastOf(s, d) = SubSeq(s, m + 1, l)
  BY <1>1, <1>2 DEF LastOf
<1>5. l - m = d
  BY <1>2
<1>6. d = 0 => LastOf(s, d) = <<>>
  <2> SUFFICES ASSUME d = 0 PROVE SubSeq(s, m + 1, l) = <<>>
    BY <1>4
  <2>1. m + 1 > l
    BY <1>2
  <2> QED BY <2>1, SubSeqEmpty
<1> QED BY <1>3, <1>4, <1>5, <1>6

LEMMA HandleHolds ==
  ASSUME Sizes, NEW h, GoodHandle(h)
  PROVE  /\ Content(h.chain, MemObjNum) \in Seq(Byte) /\ h.usage \in Nat
         /\ h.usage = Len(Content(h.chain, MemObjNum))
         /\ SubSeq(Content(h.chain, MemObjNum), 1, h.usage) = Content(h.chain, MemObjNum)
         /\ Heads(<<>>, h)
<1>1. IsChain(h.chain) /\ Counted(h) /\ MemObjNum \in 0..MemObjNum
  BY DEF GoodHandle, Sizes
<1>2. Joined(Contents(h.chain), Unreads(h.chain))
  BY <1>1, Unrolled
<1> PICK c : c = Content(h.chain, MemObjNum)
  OBVIOUS
<1>3. c \in Seq(Byte) /\ Len(c) \in Nat
  BY <1>1, <1>2, LenProperties DEF Joined, Content
<1>4. h.usage = Len(c)
  BY <1>1 DEF Counted
<1>5. SubSeq(c, 1, Len(c)) = c
  BY <1>3, SubSeqFull
<1>6. Heads(<<>>, h)
  <2>1. <<>> \in Seq(Byte) /\ Len(<<>>) = 0 /\ 0 <= h.usage
    BY <1>3, <1>4, EmptySeq
  <2>2. SubSeq(c, 1, 0) = <<>>
    BY SubSeqEmpty
  <2> QED BY <2>1, <2>2 DEF Heads
<1> QED BY <1>3, <1>4, <1>5, <1>6

\* What is at the beginning stays there when something is added at the end.
LEMMA HeadsStay ==
  ASSUME Sizes, NEW h, GoodHandle(h), NEW g, GoodHandle(g), NEW s \in Seq(Byte),
         Content(g.chain, MemObjNum) = Content(h.chain, MemObjNum) \o s, NEW t, Heads(t, h)
  PROVE  Heads(t, g)
<1>1. PICK c \in Seq(Byte) : c = Content(h.chain, MemObjNum) /\ h.usage = Len(c)
  BY HandleHolds
<1>2. g.usage = Len(c \o s) /\ Len(c \o s) = Len(c) + Len(s) /\ Len(c) \in Nat /\ Len(s) \in Nat
  BY <1>1, HandleHolds, BytesJoin
<1>3. t \in Seq(Byte) /\ Len(t) \in Nat /\ Len(t) <= Len(c) /\ t = SubSeq(c, 1, Len(t))
  BY <1>1, LenProperties DEF Heads
<1>4. SubSeq(c \o s, 1, Len(t)) = SubSeq(c, 1, Len(t))
  <2>1. \A n \in 0..Len(c) : SubSeq(c \o s, 1, n) = SubSeq(c, 1, n)
    BY BytesBegin
  <2>2. Len(t) \in 0..Len(c)
    BY <1>2, <1>3
  <2> QED BY <2>1, <2>2
<1>5. Len(t) <= g.usage
  BY <1>2, <1>3
<1> QED BY <1>1, <1>3, <1>4, <1>5 DEF Heads

LEMMA Initially ==
  ASSUME Sizes
  PROVE  /\ GoodHandle(EmptyHandle) /\ AFunction(EmptyHandle.chain)
         /\ Content(EmptyHandle.chain, MemObjNum) = <<>> /\ EmptyHandle.usage = 0
<1>0. MemObjNum \in Nat \ {0} /\ BlockSize \in Nat \ {0} /\ Block = 1..MemObjNum /\ 1 \in Block
  BY DEF Sizes, Block
<1>1. PICK new : new = [j \in Block |-> FreshBlock]
  OBVIOUS
<1>2. /\ EmptyHandle.chain = new /\ EmptyHandle.write = 1 /\ EmptyHandle.usage = 0
      /\ EmptyHandle.reserved = BlockSize * MemObjNum
  BY <1>1 DEF EmptyHandle
<1>3. DOMAIN new = Block /\ \A j \in Block : new[j] = FreshBlock
  BY <1>1
<1>4. IsChain(new) /\ AFunction(new)
  BY <1>1, <1>3, Fresh DEF IsChain, AFunction
<1>5. Filling(new, 1)
  <2>1. \A j \in Block : Len(new[j].buf) = 0 /\ new[j].read = 0
    BY <1>3, Fresh
  <2> QED BY <1>0, <1>3, <2>1 DEF Filling
<1>6. PICK d, v : Joined(d, v) /\ d = Contents(new) /\ v = Unreads(new)
  BY <1>4, Unrolled
<1>7. d[MemObjNum] = <<>>
  <2>1. \A j \in Block : v[j] = <<>>
    BY <1>3, <1>6, Fresh DEF Unreads
  <2>2. 0 \in 0..MemObjNum /\ MemObjNum \in 0..MemObjNum
    BY <1>0
  <2>3. d[MemObjNum] = d[0]
    BY <1>6, <2>1, <2>2, Still
  <2> QED BY <1>6, <2>3 DEF Joined
<1>8. BlockSize * MemObjNum = Room(new[1]) + (MemObjNum - 1) * BlockSize
  <2>1. Room(new[1]) = BlockSize
    BY <1>0, <1>3, Fresh
  <2>2. (MemObjNum - 1) * BlockSize = MemObjNum * BlockSize - BlockSize
    BY <1>0, Blocks
  <2>3. MemObjNum * BlockSize \in Nat /\ BlockSize * MemObjNum = MemObjNum * BlockSize
    BY <1>0
  <2> QED BY <1>0, <2>1, <2>2, <2>3
<1>9. Len(Content(new, MemObjNum)) = 0 /\ Content(new, MemObjNum) = <<>>
  BY <1>6, <1>7 DEF Content
<1>10. Counted(EmptyHandle)
  BY <1>2, <1>8, <1>9 DEF Counted
<1>11. GoodHandle(EmptyHandle)
  BY <1>0, <1>2, <1>4, <1>5, <1>10 DEF GoodHandle
<1> QED BY <1>2, <1>4, <1>9, <1>11

\* A message is its header and its body.
LEMMA Message ==
  ASSUME Sizes, NEW m \in 1..MaxMsgs, NEW len \in Nat \ {0}
  PROVE  /\ Header(m) \in Seq(Byte) /\ Len(Header(m)) = 2 /\ Header(m) # <<>>
         /\ Body(m, len) \in Seq(Byte) /\ Len(Body(m, len)) = len /\ Body(m, len) # <<>>
<1>1. <<m, 1>> \in Byte /\ <<m, 2>> \in Byte
  BY DEF Byte
<1>2. Header(m) \in Seq(Byte) /\ Len(Header(m)) = 2
  BY <1>1 DEF Header
<1>3. \A k \in 1..len : <<m, k + 2>> \in Byte
  BY DEF Byte
<1>4. Body(m, len) \in [1..len -> Byte]
  BY <1>3 DEF Body
<1>5. Body(m, len) \in Seq(Byte) /\ Len(Body(m, len)) = len
  BY <1>4, IsASeq, LenProperties
<1>6. \A s \in Seq(Byte) : Len(s) # 0 => s # <<>>
  OBVIOUS
<1>7. Header(m) # <<>>
  BY <1>2, <1>6
<1>8. Body(m, len) # <<>>
  <2>1. Len(Body(m, len)) # 0
    BY <1>5
  <2> QED BY <1>5, <1>6, <2>1
<1> QED BY <1>2, <1>5, <1>7, <1>8

\* Both are pushed.
LEMMA Queued ==
  ASSUME Sizes, NEW h, GoodHandle(h), NEW m \in 1..MaxMsgs, NEW len \in Nat \ {0},
         h.reserved > len + 2, NEW g, g = PushBytes(PushBytes(h, Header(m)), Body(m, len))
  PROVE  /\ GoodHandle(g) /\ AFunction(g.chain) /\ g.usage # 0
         /\ Header(m) \o Body(m, len) \in Seq(Byte)
         /\ Content(g.chain, MemObjNum)
            = Content(h.chain, MemObjNum) \o (Header(m) \o Body(m, len))
         /\ Content(g.chain, MemObjNum)
            = (Content(h.chain, MemObjNum) \o Header(m)) \o Body(m, len)
<1>1. PICK s \in Seq(Byte) : s = Header(m) /\ Len(s) = 2 /\ s # <<>>
  BY Message
<1>2. PICK t \in Seq(Byte) : t = Body(m, len) /\ Len(t) = len /\ t # <<>>
  BY Message
<1>3. PICK f : f = PushBytes(h, s)
  OBVIOUS
<1>4. PICK r \in Nat : r = h.reserved
  <2>1. h.write \in Block /\ Block = 1..MemObjNum /\ IsChain(h.chain) /\ Counted(h)
        /\ BlockSize \in Nat /\ MemObjNum \in Nat /\ Filling(h.chain, h.write)
    BY DEF GoodHandle, Sizes, Block
  <2>2. Len(h.chain[h.write].buf) \in Nat /\ Len(h.chain[h.write].buf) <= BlockSize
    BY <2>1, Objects DEF Filling
  <2>3. MemObjNum - h.write \in Nat /\ Room(h.chain[h.write]) \in Nat
    BY <2>1, <2>2 DEF Room
  <2>4. (MemObjNum - h.write) * BlockSize \in Nat
    BY <2>1, <2>3, Blocks
  <2> QED BY <2>1, <2>3, <2>4 DEF Counted
<1>5. /\ GoodHandle(f) /\ f.reserved = h.reserved - Len(s)
      /\ Content(f.chain, MemObjNum) = Content(h.chain, MemObjNum) \o s
  <2>1. ~(Len(s) > h.reserved)
    BY <1>1, <1>4
  <2> QED BY <1>1, <1>3, <2>1, Pushed
<1>6. ~(Len(t) > f.reserved)
  BY <1>1, <1>2, <1>4, <1>5
<1>7. g = PushBytes(f, t)
  BY <1>1, <1>2, <1>3
<1>8. GoodHandle(g) /\ Content(g.chain, MemObjNum) = Content(f.chain, MemObjNum) \o t
  BY <1>2, <1>5, <1>6, <1>7, Pushed
<1>9. AFunction(g.chain)
  <2>1. g.chain = [j \in Block |-> [f.chain[j] EXCEPT !.buf = @ \o PartOf(f, t, j)]]
    BY <1>6, <1>7, PushFields
  <2> QED BY <2>1 DEF AFunction
<1>10. PICK c \in Seq(Byte) : c = Content(h.chain, MemObjNum)
  BY HandleHolds
<1>11. (c \o s) \o t = c \o (s \o t) /\ s \o t \in Seq(Byte)
  BY Regrouped, BytesJoin, SMTT(30)
<1>12. g.usage # 0
  <2>1. g.usage = Len((c \o s) \o t)
    BY <1>5, <1>8, <1>10, HandleHolds
  <2>2. PICK x \in Seq(Byte) : x = c \o s
    BY BytesJoin
  <2>3. Len(x \o t) = Len(x) + Len(t) /\ Len(x) \in Nat
    BY BytesJoin
  <2> QED BY <1>2, <2>1, <2>2, <2>3
<1> QED BY <1>1, <1>2, <1>5, <1>8, <1>9, <1>10, <1>11, <1>12

\* What a call of SendBuffer leaves in flight
LEMMA Buffered ==
  ASSUME Sizes, NEW h, GoodHandle(h), h.usage # 0, SendBuffer(h)
  PROVE  ioType' = "write" /\ wsabufs' \in 0..MaxWsabuf /\ Heads(inFlight', h)
<1>1. PICK n : n = ObjectsFor(h)
  OBVIOUS
<1>2. /\ n \in 1..MaxWsabuf
      /\ Content(h.chain, n) \in Seq(Byte) /\ Len(Content(h.chain, n)) \in Nat
      /\ Len(Content(h.chain, n)) <= h.usage
      /\ Content(h.chain, n)
         = SubSeq(Content(h.chain, MemObjNum), 1, Len(Content(h.chain, n)))
  BY <1>1, ObjectsTaken
<1>3. Heads(Content(h.chain, n), h)
  BY <1>2 DEF Heads
<1>4. Heads(<<>>, h)
  BY HandleHolds
<1>5. inFlight' = Content(h.chain, n) \/ inFlight' = <<>>
  BY <1>1 DEF SendBuffer
<1>6. Heads(inFlight', h)
  BY <1>3, <1>4, <1>5
<1>7. n \in 0..MaxWsabuf
  BY <1>2
<1> QED BY <1>1, <1>6, <1>7 DEF SendBuffer

(***************************************************************************)
(* Every step.                                                             *)
(***************************************************************************)

LEMMA SendingInit ==
  ASSUME Sizes, ChainInit
  PROVE  Sending /\ Pending = <<>>
<1>1. /\ mh = EmptyHandle /\ ioType = "wait" /\ inFlight = <<>> /\ done = 0 /\ wsabufs = 0
      /\ accepted = 0 /\ sent = <<>> /\ lineBroken = FALSE
  BY DEF ChainInit
<1>2. /\ GoodHandle(mh) /\ AFunction(mh.chain)
      /\ Content(mh.chain, MemObjNum) = <<>> /\ mh.usage = 0
  BY <1>1, Initially
<1>3. Heads(<<>>, mh)
  BY <1>2, HandleHolds
<1>4. sent \in Seq(Byte) /\ done \in Nat /\ done <= Len(sent) /\ done = 0
  BY <1>1, EmptySeq
<1>5. Heads(LastOf(sent, done), mh)
  <2>1. LastOf(sent, done) = <<>>
    BY <1>4, TheLast
  <2> QED BY <1>3, <2>1
<1>6. Heads(inFlight, mh)
  BY <1>1, <1>3
<1>7. accepted \in 0..MaxMsgs /\ wsabufs \in 0..MaxWsabuf
  BY <1>1 DEF Sizes
<1>8. Pending = <<>>
  <2>1. SubSeq(<<>>, 0 + 1, 0) = <<>>
    BY SubSeqEmpty
  <2> QED BY <1>1, <1>2, <2>1 DEF Pending
<1> QED BY <1>1, <1>2, <1>4, <1>5, <1>6, <1>7, <1>8 DEF Sending

LEMMA SendingSend ==
  ASSUME Sizes, Sending, NEW len \in MsgLength, Send(len)
  PROVE  /\ Sending'
         /\ accepted < MaxMsgs /\ accepted' = accepted + 1 /\ sent' = sent /\ lineBroken' = lineBroken
         /\ Pending' = (Pending \o Header(accepted + 1)) \o Body(accepted + 1, len)
<1>1. /\ GoodHandle(mh) /\ accepted \in 0..MaxMsgs /\ sent \in Seq(Byte) /\ lineBroken \in BOOLEAN
      /\ ioType \in {"wait", "write"} /\ wsabufs \in 0..MaxWsabuf
      /\ done \in Nat /\ done <= Len(sent)
      /\ Heads(inFlight, mh) /\ Heads(LastOf(sent, done), mh)
      /\ inFlight # <<>> => done = 0
      /\ ioType = "wait" => inFlight = <<>> /\ done = 0
  BY DEF Sending
<1>2. len \in Nat \ {0} /\ MaxMsgs \in Nat
  BY DEF Sizes
<1>3. PICK m : m = accepted + 1
  OBVIOUS
<1>4. PICK g : g = PushBytes(PushBytes(mh, Header(m)), Body(m, len))
  OBVIOUS
<1>5. /\ accepted < MaxMsgs /\ mh.reserved > len + 2 /\ accepted' = m /\ mh' = g
      /\ IF ioType = "wait" THEN SendBuffer(g) ELSE UNCHANGED <<ioType, inFlight, wsabufs>>
      /\ done' = done /\ sent' = sent /\ lineBroken' = lineBroken
  BY <1>3, <1>4 DEF Send, Fits
<1>6. m \in 1..MaxMsgs
  BY <1>1, <1>2, <1>3, <1>5
<1>7. PICK s \in Seq(Byte) : s = Header(m) \o Body(m, len)
  BY <1>1, <1>2, <1>5, <1>6, Queued
<1>8. /\ GoodHandle(g) /\ AFunction(g.chain) /\ g.usage # 0
      /\ Content(g.chain, MemObjNum) = Content(mh.chain, MemObjNum) \o s
  BY <1>1, <1>2, <1>4, <1>5, <1>6, <1>7, Queued, ZenonT(60)
<1>9. \A t : Heads(t, mh) => Heads(t, g)
  BY <1>1, <1>8, HeadsStay
<1>10. /\ Heads(inFlight', g) /\ ioType' \in {"wait", "write"} /\ wsabufs' \in 0..MaxWsabuf
       /\ inFlight' # <<>> => done = 0
       /\ ioType' = "wait" => inFlight' = <<>> /\ done = 0
  <2>1. CASE ioType = "wait"
    <3>1. ioType' = "write" /\ wsabufs' \in 0..MaxWsabuf /\ Heads(inFlight', g)
      BY <1>5, <1>8, <2>1, Buffered
    <3>2. ioType' # "wait" /\ ioType' \in {"wait", "write"} /\ done = 0
      BY <1>1, <2>1, <3>1
    <3> QED BY <3>1, <3>2
  <2>2. CASE ioType # "wait"
    <3>1. ioType' = ioType /\ inFlight' = inFlight /\ wsabufs' = wsabufs
      BY <1>5, <2>2
    <3>2. Heads(inFlight', g)
      BY <1>1, <1>9, <3>1
    <3> QED BY <1>1, <3>1, <3>2
  <2> QED BY <2>1, <2>2
<1>11. Heads(LastOf(sent, done), g)
  BY <1>1, <1>9
<1>12. Sending'
  <2>1. accepted' \in 0..MaxMsgs
    BY <1>2, <1>5, <1>6
  <2> QED BY <1>1, <1>5, <1>8, <1>10, <1>11, <2>1 DEF Sending
<1>13. Pending' = (Pending \o Header(m)) \o Body(m, len)
  <2>1. PICK c \in Seq(Byte) : c = Content(mh.chain, MemObjNum) /\ mh.usage = Len(c)
    BY <1>1, HandleHolds
  <2>2. g.usage = Len(c \o s)
    BY <1>8, <2>1, HandleHolds
  <2>3. done <= Len(c)
    <3>1. Len(LastOf(sent, done)) = done
      BY <1>1, TheLast
    <3> QED BY <1>1, <2>1, <3>1 DEF Heads
  <2>4. SubSeq(c \o s, done + 1, Len(c \o s)) = SubSeq(c, done + 1, Len(c)) \o s
    BY <1>1, <2>3, RestOfMore
  <2>5. Pending = SubSeq(c, done + 1, Len(c))
    BY <2>1 DEF Pending
  <2>6. Pending' = SubSeq(c \o s, done + 1, Len(c \o s))
    BY <1>5, <1>8, <2>1, <2>2 DEF Pending
  <2>7. Pending \in Seq(Byte)
    <3>1. PICK l \in Nat : l = Len(c)
      BY LenProperties
    <3>2. SubSeq(c, done + 1, l) \in Seq(Byte)
      <4>1. done <= l /\ l <= Len(c)
        BY <2>3, <3>1
      <4> QED BY <1>1, <4>1, BytesCut
    <3> QED BY <2>5, <3>1, <3>2
  <2>8. Header(m) \in Seq(Byte) /\ Body(m, len) \in Seq(Byte)
    BY <1>2, <1>6, Message
  <2>9. (Pending \o Header(m)) \o Body(m, len) = Pending \o (Header(m) \o Body(m, len))
    BY <2>7, <2>8, Regrouped
  <2> QED BY <1>7, <2>4, <2>5, <2>6, <2>9, Zenon
<1> QED BY <1>3, <1>5, <1>12, <1>13

LEMMA SendingComplete ==
  ASSUME Sizes, Sending, NEW n, Complete(n)
  PROVE  /\ Sending'
         /\ n \in 1..Len(Pending) /\ ~lineBroken /\ accepted' = accepted /\ lineBroken' = lineBroken
         /\ sent' = sent \o SubSeq(Pending, 1, n)
         /\ Pending' = SubSeq(Pending, n + 1, Len(Pending))
<1>1. /\ GoodHandle(mh) /\ AFunction(mh.chain) /\ accepted \in 0..MaxMsgs
      /\ sent \in Seq(Byte) /\ lineBroken \in BOOLEAN
      /\ ioType \in {"wait", "write"} /\ wsabufs \in 0..MaxWsabuf
      /\ Heads(inFlight, mh)
      /\ inFlight # <<>> => done = 0
      /\ ioType = "wait" => inFlight = <<>> /\ done = 0
  BY DEF Sending
<1>2. /\ ~lineBroken /\ n \in 1..Len(inFlight)
      /\ sent' = sent \o SubSeq(inFlight, 1, n) /\ done' = n /\ inFlight' = <<>>
      /\ mh' = mh /\ ioType' = ioType /\ wsabufs' = wsabufs
      /\ accepted' = accepted /\ lineBroken' = lineBroken
  BY DEF Complete
<1>3. PICK f \in Seq(Byte), l \in Nat : f = inFlight /\ l = Len(f) /\ l <= mh.usage
                                       /\ f = SubSeq(Content(mh.chain, MemObjNum), 1, l)
  <2>1. /\ inFlight \in Seq(Byte) /\ Len(inFlight) <= mh.usage
        /\ inFlight = SubSeq(Content(mh.chain, MemObjNum), 1, Len(inFlight))
    BY <1>1 DEF Heads
  <2>2. Len(inFlight) \in Nat
    BY <2>1, LenProperties
  <2> QED BY <2>1, <2>2
<1>4. n \in 1..l /\ n \in Nat /\ n <= l /\ f # <<>> /\ ioType # "wait" /\ done = 0
  <2>1. n \in 1..l
    BY <1>2, <1>3
  <2>2. f # <<>>
    <3>1. f = <<>> => l = 0
      BY <1>3
    <3> QED BY <2>1, <3>1
  <2> QED BY <1>1, <1>3, <2>1, <2>2
<1>5. PICK c \in Seq(Byte), k \in Nat :
        /\ c = Content(mh.chain, MemObjNum) /\ mh.usage = k /\ Len(c) = k
        /\ SubSeq(c, 1, k) = c
  BY <1>1, HandleHolds
<1>6. l <= k /\ n <= k /\ k <= Len(c) /\ n <= Len(c)
  BY <1>3, <1>4, <1>5
<1>7. PICK x \in Seq(Byte) : x = SubSeq(inFlight, 1, n) /\ x = SubSeq(c, 1, n) /\ Len(x) = n
  <2>1. /\ SubSeq(SubSeq(c, 1, l), 1, n) = SubSeq(c, 1, n)
        /\ SubSeq(c, 1, n) \in Seq(Byte) /\ Len(SubSeq(c, 1, n)) = n
    <3>1. n <= l /\ l <= Len(c)
      BY <1>4, <1>5, <1>6
    <3> QED BY <1>4, <3>1, BytesCut
  <2> QED BY <1>3, <1>5, <2>1
<1>8. /\ sent' \in Seq(Byte) /\ Len(sent') = Len(sent) + Len(x) /\ Len(sent) \in Nat
      /\ SubSeq(sent', Len(sent) + 1, Len(sent) + Len(x)) = x
  <2>1. sent' = sent \o x
    BY <1>2, <1>7
  <2>2. /\ sent \o x \in Seq(Byte) /\ Len(sent \o x) = Len(sent) + Len(x) /\ Len(sent) \in Nat
        /\ SubSeq(sent \o x, Len(sent) + 1, Len(sent) + Len(x)) = x
    BY <1>1, BytesJoin, BytesBegin
  <2> QED BY <2>1, <2>2
<1>9. LastOf(sent', n) = x /\ n <= Len(sent')
  <2> PICK i \in Nat : i = Len(sent)
    BY <1>8
  <2>1. Len(sent') = i + n /\ SubSeq(sent', i + 1, i + n) = x
    BY <1>7, <1>8
  <2>2. (i + n) - n + 1 = i + 1 /\ n <= i + n
    BY <1>4
  <2> QED BY <2>1, <2>2 DEF LastOf
<1>10. Heads(x, mh) /\ Heads(<<>>, mh)
  BY <1>1, <1>5, <1>6, <1>7, HandleHolds DEF Heads
<1>11. Sending'
  <2>1. Heads(LastOf(sent', n), mh) /\ Heads(inFlight', mh)
    BY <1>2, <1>9, <1>10
  <2>2. inFlight' = <<>> /\ ioType' # "wait" /\ done' = n /\ n \in Nat
    BY <1>2, <1>4
  <2> QED BY <1>1, <1>2, <1>8, <1>9, <2>1, <2>2 DEF Sending
<1>12. Pending = c
  BY <1>4, <1>5 DEF Pending
<1>13. Pending' = SubSeq(c, n + 1, Len(c))
  BY <1>2, <1>5 DEF Pending
<1>14. n \in 1..Len(Pending)
  BY <1>4, <1>5, <1>6, <1>12
<1> QED BY <1>2, <1>7, <1>11, <1>12, <1>13, <1>14

LEMMA SendingWorkerWrite ==
  ASSUME Sizes, Sending, WorkerWrite
  PROVE  /\ Sending'
         /\ accepted' = accepted /\ Pending' = Pending /\ sent' = sent /\ lineBroken' = lineBroken
<1>1. /\ GoodHandle(mh) /\ accepted \in 0..MaxMsgs /\ sent \in Seq(Byte) /\ lineBroken \in BOOLEAN
      /\ ioType \in {"wait", "write"} /\ wsabufs \in 0..MaxWsabuf
      /\ done \in Nat /\ done <= Len(sent)
      /\ Heads(LastOf(sent, done), mh)
      /\ inFlight # <<>> => done = 0
  BY DEF Sending
<1>2. PICK g : g = OnWrite(mh, done)
  OBVIOUS
<1>3. /\ done > 0 /\ mh' = g /\ done' = 0
      /\ IF g.usage > 0 THEN SendBuffer(g) ELSE ioType' = "wait" /\ UNCHANGED <<inFlight, wsabufs>>
      /\ accepted' = accepted /\ sent' = sent /\ lineBroken' = lineBroken
  BY <1>2 DEF WorkerWrite
<1>4. done \in Nat \ {0} /\ done <= mh.usage /\ inFlight = <<>>
  <2>1. Len(LastOf(sent, done)) = done
    BY <1>1, TheLast
  <2> QED BY <1>1, <1>3, <2>1 DEF Heads
<1>5. /\ GoodHandle(g) /\ g.usage = mh.usage - done
      /\ Content(g.chain, MemObjNum) = SubSeq(Content(mh.chain, MemObjNum), done + 1, mh.usage)
  BY <1>1, <1>2, <1>4, Written
<1>6. AFunction(g.chain)
  <2>1. g.chain = Dropped(mh, done).chain
    BY <1>2, OnWriteFields
  <2>2. PICK a, r : g.chain = [[j \in Block |-> Kept(mh, a, j)] EXCEPT ![1].read = @ + r]
    BY <2>1 DEF Dropped, Kept
  <2> QED BY <2>2 DEF AFunction
<1>7. PICK c \in Seq(Byte) : /\ c = Content(g.chain, MemObjNum) /\ g.usage = Len(c)
                             /\ SubSeq(c, 1, Len(c)) = c /\ Len(c) \in Nat
  <2>1. /\ Content(g.chain, MemObjNum) \in Seq(Byte) /\ g.usage \in Nat
        /\ g.usage = Len(Content(g.chain, MemObjNum))
        /\ SubSeq(Content(g.chain, MemObjNum), 1, g.usage) = Content(g.chain, MemObjNum)
    BY <1>5, HandleHolds
  <2> QED BY <2>1
<1>8. Heads(<<>>, g)
  BY <1>5, HandleHolds
<1>9. /\ Heads(inFlight', g) /\ ioType' \in {"wait", "write"} /\ wsabufs' \in 0..MaxWsabuf
      /\ ioType' = "wait" => inFlight' = <<>>
  <2>1. CASE g.usage > 0
    <3>1. SendBuffer(g) /\ g.usage # 0
      BY <1>3, <1>7, <2>1
    <3>2. ioType' = "write" /\ wsabufs' \in 0..MaxWsabuf /\ Heads(inFlight', g)
      BY <1>5, <3>1, Buffered
    <3> QED BY <3>2
  <2>2. CASE ~(g.usage > 0)
    <3>1. ioType' = "wait" /\ inFlight' = <<>> /\ wsabufs' = wsabufs
      BY <1>3, <1>4, <2>2
    <3> QED BY <1>1, <1>8, <3>1
  <2> QED BY <2>1, <2>2
<1>10. Heads(LastOf(sent, 0), g)
  <2>1. 0 \in Nat /\ 0 <= Len(sent)
    BY <1>1, LenProperties
  <2>2. LastOf(sent, 0) = <<>>
    BY <1>1, <2>1, TheLast
  <2> QED BY <1>8, <2>2
<1>11. Sending'
  <2>1. 0 \in Nat /\ 0 <= Len(sent)
    BY <1>1, LenProperties
  <2> QED BY <1>1, <1>3, <1>5, <1>6, <1>9, <1>10, <2>1 DEF Sending
<1>12. Pending' = Pending
  <2>1. Pending' = SubSeq(c, 0 + 1, Len(c))
    BY <1>3, <1>7 DEF Pending
  <2>2. Pending = c
    BY <1>5, <1>7 DEF Pending
  <2> QED BY <1>7, <2>1, <2>2
<1> QED BY <1>3, <1>11, <1>12

LEMMA SendingBreak ==
  ASSUME Sizes, Sending, Break
  PROVE  /\ Sending'
         /\ accepted' = accepted /\ Pending' = Pending /\ sent' = sent /\ lineBroken' = TRUE
BY DEF Sending, Break, Pending

LEMMA SendingStill ==
  ASSUME Sending, UNCHANGED chainVars
  PROVE  /\ Sending'
         /\ accepted' = accepted /\ Pending' = Pending /\ sent' = sent /\ lineBroken' = lineBroken
BY DEF Sending, chainVars, Pending

\* What is proved says what ChainSound says.
LEMMA SendingSound ==
  ASSUME Sizes, Sending
  PROVE  ChainSound
<1>1. /\ GoodHandle(mh) /\ AFunction(mh.chain) /\ accepted \in 0..MaxMsgs
      /\ sent \in Seq(Byte) /\ lineBroken \in BOOLEAN
      /\ ioType \in {"wait", "write"} /\ wsabufs \in 0..MaxWsabuf
      /\ done \in Nat /\ done <= Len(sent)
      /\ Heads(inFlight, mh) /\ Heads(LastOf(sent, done), mh)
      /\ inFlight # <<>> => done = 0
  BY DEF Sending
<1>2. /\ IsChain(mh.chain) /\ mh.write \in Block /\ Filling(mh.chain, mh.write) /\ Counted(mh)
      /\ BlockSize \in Nat /\ MaxWsabuf \in Nat
  BY <1>1 DEF GoodHandle, Sizes
<1>3. \A j \in Block : /\ mh.chain[j] \in [buf : Seq((1..MaxMsgs) \X Nat), read : 0..BlockSize]
                       /\ mh.chain[j].read <= Len(mh.chain[j].buf) /\ Room(mh.chain[j]) >= 0
  <2> SUFFICES ASSUME NEW j \in Block
               PROVE  /\ mh.chain[j] \in [buf : Seq((1..MaxMsgs) \X Nat), read : 0..BlockSize]
                      /\ mh.chain[j].read <= Len(mh.chain[j].buf) /\ Room(mh.chain[j]) >= 0
    OBVIOUS
  <2>1. PICK x \in Seq(Byte), q \in Nat, l \in Nat :
          /\ mh.chain[j] = [buf |-> x, read |-> q] /\ l = Len(x) /\ q <= l
    <3>1. /\ mh.chain[j].buf \in Seq(Byte) /\ mh.chain[j].read \in Nat
          /\ Len(mh.chain[j].buf) \in Nat
          /\ mh.chain[j].read <= Len(mh.chain[j].buf)
          /\ mh.chain[j] = [buf |-> mh.chain[j].buf, read |-> mh.chain[j].read]
      BY <1>2, Objects
    <3> QED BY <3>1, Zenon
  <2>2. mh.chain[j].buf = x /\ mh.chain[j].read = q
    BY <2>1
  <2>3. l <= BlockSize
    BY <1>2, <2>1, <2>2 DEF Filling
  <2>4. q \in 0..BlockSize /\ BlockSize - l >= 0
    BY <1>2, <2>1, <2>3
  <2> QED BY <2>1, <2>2, <2>4 DEF Room, Byte
<1>4. mh.chain \in [Block -> [buf : Seq((1..MaxMsgs) \X Nat), read : 0..BlockSize]]
  <2> PICK S : S = [buf : Seq((1..MaxMsgs) \X Nat), read : 0..BlockSize]
    OBVIOUS
  <2>1. [j \in Block |-> mh.chain[j]] \in [Block -> S]
    BY <1>3
  <2> QED BY <1>1, <2>1 DEF AFunction
<1>5. ChainTypeOK
  BY <1>1, <1>2, <1>3, <1>4 DEF ChainTypeOK
<1>6. CountersAgree
  BY <1>2 DEF CountersAgree, Counted, Filling
<1>7. WsabufFits
  BY <1>1, <1>2 DEF WsabufFits
<1>8. InFlightUntouched
  <2>1. Len(LastOf(sent, done)) = done
    BY <1>1, TheLast
  <2> QED BY <1>1, <2>1 DEF InFlightUntouched, Heads, LastOf
<1> QED BY <1>5, <1>6, <1>7, <1>8 DEF ChainSound

\* Of any sizes of blocks, chains and transfers such that a transfer fits into the array of
\* WSABUFs, and any messages: the handle's counters agree with its chain, SendBuffer fills
\* no more entries of wsabuf than there are, and what WSASend reads from stays the first
\* bytes of the chain until the send is complete and a worker has dropped it (OnWrite).
THEOREM ChainStaysSound == ChainSpec => []ChainSound
<1>1. ChainInit => Sending
  BY SendQueueAssumption, SendingInit
<1>2. Sending /\ [ChainNext]_chainVars => Sending'
  <2> SUFFICES ASSUME Sending, [ChainNext]_chainVars PROVE Sending'
    OBVIOUS
  <2>1. ASSUME NEW len \in MsgLength, Send(len) PROVE Sending'
    BY <2>1, SendQueueAssumption, SendingSend
  <2>2. ASSUME NEW n \in 1..Len(inFlight), Complete(n) PROVE Sending'
    BY <2>2, SendQueueAssumption, SendingComplete
  <2>3. CASE WorkerWrite
    BY <2>3, SendQueueAssumption, SendingWorkerWrite
  <2>4. CASE Break
    BY <2>4, SendQueueAssumption, SendingBreak
  <2>5. CASE UNCHANGED chainVars
    BY <2>5, SendingStill
  <2> QED BY <2>1, <2>2, <2>3, <2>4, <2>5 DEF ChainNext
<1>3. Sending => ChainSound
  BY SendQueueAssumption, SendingSound
<1> QED BY <1>1, <1>2, <1>3, PTL DEF ChainSpec

\* Every step of the chain is one of the pipe, or changes nothing there: the messages that
\* CConnection::Send took leave whole, in order and once.  (That they do leave is the rest
\* of IsPipe.)
THEOREM SendsAsThePipe == ChainSpec => Pipe!Init /\ [][Pipe!Next]_(Pipe!pipeVars)
<1>1. ChainInit => Sending /\ Pipe!Init
  BY SendQueueAssumption, SendingInit DEF ChainInit, Pipe!Init
<1>2. Sending /\ [ChainNext]_chainVars => Sending' /\ [Pipe!Next]_(Pipe!pipeVars)
  <2> SUFFICES ASSUME Sending, [ChainNext]_chainVars PROVE Sending' /\ [Pipe!Next]_(Pipe!pipeVars)
    OBVIOUS
  <2>1. ASSUME NEW len \in MsgLength, Send(len)
        PROVE  Sending' /\ Pipe!Next
    <3>1. /\ Sending'
          /\ accepted < MaxMsgs /\ accepted' = accepted + 1 /\ sent' = sent /\ lineBroken' = lineBroken
          /\ Pending' = (Pending \o Header(accepted + 1)) \o Body(accepted + 1, len)
      BY <2>1, SendQueueAssumption, SendingSend
    <3>2. Pipe!Accept
      BY <3>1 DEF Pipe!Accept, Header, Body, Pipe!Header, Pipe!Body
    <3> QED BY <3>1, <3>2 DEF Pipe!Next
  <2>2. ASSUME NEW n \in 1..Len(inFlight), Complete(n)
        PROVE  Sending' /\ Pipe!Next
    <3>1. /\ Sending'
          /\ n \in 1..Len(Pending) /\ ~lineBroken /\ accepted' = accepted /\ lineBroken' = lineBroken
          /\ sent' = sent \o SubSeq(Pending, 1, n)
          /\ Pending' = SubSeq(Pending, n + 1, Len(Pending))
      BY <2>2, SendQueueAssumption, SendingComplete
    <3>2. Pipe!Transmit
      BY <3>1 DEF Pipe!Transmit
    <3> QED BY <3>1, <3>2 DEF Pipe!Next
  <2>3. CASE WorkerWrite
    <3>1. /\ Sending'
          /\ accepted' = accepted /\ Pending' = Pending /\ sent' = sent /\ lineBroken' = lineBroken
      BY <2>3, SendQueueAssumption, SendingWorkerWrite
    <3> QED BY <3>1 DEF Pipe!pipeVars
  <2>4. CASE Break
    <3>1. /\ Sending'
          /\ accepted' = accepted /\ Pending' = Pending /\ sent' = sent /\ lineBroken' = TRUE
      BY <2>4, SendQueueAssumption, SendingBreak
    <3> QED BY <3>1 DEF Pipe!Next, Pipe!Break
  <2>5. CASE UNCHANGED chainVars
    <3>1. /\ Sending'
          /\ accepted' = accepted /\ Pending' = Pending /\ sent' = sent /\ lineBroken' = lineBroken
      BY <2>5, SendingStill
    <3> QED BY <3>1 DEF Pipe!pipeVars
  <2> QED BY <2>1, <2>2, <2>3, <2>4, <2>5 DEF ChainNext
<1> QED BY <1>1, <1>2, PTL DEF ChainSpec
=============================================================================
