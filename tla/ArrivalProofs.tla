---------------------------- MODULE ArrivalProofs ----------------------------
(* One map server at a time holds a character's data, and nobody stays on a *)
(* map without a session, for any number of maps and sessions.              *)
EXTENDS Arrival, SequenceTheorems, TLAPS

(***************************************************************************)
(* Queues of messages and queries.                                         *)
(***************************************************************************)

\* Some element of q is of kind k; at most one is.
Has(q, k)  == \E i \in DOMAIN q : q[i].kind = k
Once(q, k) == \A i, j \in DOMAIN q : q[i].kind = k /\ q[j].kind = k => i = j

LEMMA EmptyHas == \A k : ~Has(<<>>, k) /\ Once(<<>>, k)
BY DEF Has, Once

LEMMA AppendHas ==
  ASSUME NEW T, NEW q \in Seq(T), NEW e \in T
  PROVE  /\ Append(q, e) \in Seq(T)
         /\ \A k : Has(Append(q, e), k) <=> Has(q, k) \/ e.kind = k
         /\ \A k : Once(q, k) /\ (e.kind = k => ~Has(q, k)) => Once(Append(q, e), k)
<1>1. Len(q) \in Nat /\ DOMAIN q = 1..Len(q)
  BY LenProperties
<1>2. /\ Append(q, e) \in Seq(T) /\ Len(Append(q, e)) = Len(q) + 1
      /\ \A i \in 1..Len(q) : Append(q, e)[i] = q[i]
      /\ Append(q, e)[Len(q) + 1] = e
  BY <1>1, AppendProperties
<1>3. DOMAIN Append(q, e) = 1..(Len(q) + 1)
  BY <1>2, LenProperties
<1>4. ASSUME NEW k PROVE Has(Append(q, e), k) <=> Has(q, k) \/ e.kind = k
  BY <1>1, <1>2, <1>3 DEF Has
<1>5. ASSUME NEW k, Once(q, k), e.kind = k => ~Has(q, k) PROVE Once(Append(q, e), k)
  BY <1>1, <1>2, <1>3, <1>5 DEF Has, Once
<1> QED BY <1>2, <1>4, <1>5

LEMMA TailHas ==
  ASSUME NEW T, NEW q \in Seq(T), q # <<>>
  PROVE  /\ Head(q) \in T /\ Tail(q) \in Seq(T)
         /\ \A k : Has(q, k) <=> Head(q).kind = k \/ Has(Tail(q), k)
         /\ \A k : Once(q, k) => Once(Tail(q), k) /\ (Head(q).kind = k => ~Has(Tail(q), k))
<1>1. Len(q) \in Nat \ {0} /\ DOMAIN q = 1..Len(q) /\ Head(q) = q[1]
  BY LenProperties, EmptySeq
<1>2. /\ Head(q) \in T /\ Tail(q) \in Seq(T) /\ Len(Tail(q)) = Len(q) - 1
      /\ \A i \in 1..(Len(q) - 1) : Tail(q)[i] = q[i + 1]
  BY HeadTailProperties
<1>3. DOMAIN Tail(q) = 1..(Len(q) - 1)
  BY <1>2, LenProperties
<1>4. ASSUME NEW k PROVE Has(q, k) <=> Head(q).kind = k \/ Has(Tail(q), k)
  <2>1. ASSUME NEW i \in 1..Len(q), q[i].kind = k, i # 1 PROVE Has(Tail(q), k)
    <3>1. i - 1 \in 1..(Len(q) - 1) /\ Tail(q)[i - 1] = q[i]
      BY <1>1, <1>2, <2>1
    <3> QED BY <1>3, <2>1, <3>1 DEF Has
  <2>2. Has(q, k) => Head(q).kind = k \/ Has(Tail(q), k)
    BY <1>1, <2>1 DEF Has
  <2>3. Head(q).kind = k \/ Has(Tail(q), k) => Has(q, k)
    BY <1>1, <1>2, <1>3 DEF Has
  <2> QED BY <2>2, <2>3
<1>5. ASSUME NEW k, Once(q, k) PROVE Once(Tail(q), k) /\ (Head(q).kind = k => ~Has(Tail(q), k))
  BY <1>1, <1>2, <1>3, <1>5 DEF Has, Once
<1> QED BY <1>2, <1>4, <1>5

\* The queries a map server sends together are appended one by one.
LEMMA TwoAppended ==
  ASSUME NEW T, NEW q \in Seq(T), NEW d \in T, NEW e \in T
  PROVE  /\ q \o <<d>> = Append(q, d)
         /\ q \o <<d, e>> = Append(Append(q, d), e)
         /\ q \o <<>> = q
BY AppendProperties, AppendIsConcat

\* A gameinSyn of q is the one of key x, or a disconnected comes after it.
Behind(q, x) ==
  \A i \in DOMAIN q : q[i].kind = "gameinSyn" =>
    q[i].key = x \/ \E j \in DOMAIN q : j > i /\ q[j].kind = "disconnected"

LEMMA AppendBehind ==
  ASSUME NEW T, NEW q \in Seq(T), NEW e \in T, NEW x
  PROVE  /\ Behind(q, x) /\ (e.kind = "gameinSyn" => e.key = x) => Behind(Append(q, e), x)
         /\ e.kind = "disconnected" => Behind(Append(q, e), x)
         /\ ~Has(q, "gameinSyn") => Behind(q, x)
<1>1. Len(q) \in Nat /\ DOMAIN q = 1..Len(q)
  BY LenProperties
<1>2. /\ Append(q, e) \in Seq(T) /\ Len(Append(q, e)) = Len(q) + 1
      /\ \A i \in 1..Len(q) : Append(q, e)[i] = q[i]
      /\ Append(q, e)[Len(q) + 1] = e
  BY <1>1, AppendProperties
<1>3. DOMAIN Append(q, e) = 1..(Len(q) + 1)
  BY <1>2, LenProperties
<1>4. Behind(q, x) /\ (e.kind = "gameinSyn" => e.key = x) => Behind(Append(q, e), x)
  BY <1>1, <1>2, <1>3 DEF Behind
<1>5. ASSUME e.kind = "disconnected" PROVE Behind(Append(q, e), x)
  <2> SUFFICES ASSUME NEW i \in 1..(Len(q) + 1), Append(q, e)[i].kind = "gameinSyn"
               PROVE  \E j \in 1..(Len(q) + 1) : j > i /\ Append(q, e)[j].kind = "disconnected"
    BY <1>3 DEF Behind
  <2>1. i # Len(q) + 1
    BY <1>2, <1>5
  <2> QED BY <1>1, <1>2, <1>5, <2>1
<1> QED BY <1>4, <1>5 DEF Behind, Has

LEMMA TailBehind ==
  ASSUME NEW T, NEW q \in Seq(T), q # <<>>, NEW x, Behind(q, x)
  PROVE  /\ Behind(Tail(q), x)
         /\ Head(q).kind = "gameinSyn" => Head(q).key = x \/ Has(Tail(q), "disconnected")
<1>1. Len(q) \in Nat \ {0} /\ DOMAIN q = 1..Len(q) /\ Head(q) = q[1]
  BY LenProperties, EmptySeq
<1>2. /\ Tail(q) \in Seq(T) /\ Len(Tail(q)) = Len(q) - 1
      /\ \A i \in 1..(Len(q) - 1) : Tail(q)[i] = q[i + 1]
  BY HeadTailProperties
<1>3. DOMAIN Tail(q) = 1..(Len(q) - 1)
  BY <1>2, LenProperties
<1>4. ASSUME NEW i \in 1..Len(q), NEW j \in 1..Len(q), j > i
      PROVE  j - 1 \in 1..(Len(q) - 1) /\ Tail(q)[j - 1] = q[j]
  BY <1>1, <1>2, <1>4
<1>5. Behind(Tail(q), x)
  <2> SUFFICES ASSUME NEW i \in 1..(Len(q) - 1), Tail(q)[i].kind = "gameinSyn", Tail(q)[i].key # x
               PROVE  \E j \in 1..(Len(q) - 1) : j > i /\ Tail(q)[j].kind = "disconnected"
    BY <1>3 DEF Behind
  <2>1. i + 1 \in 1..Len(q) /\ q[i + 1] = Tail(q)[i]
    BY <1>1, <1>2
  <2>2. PICK j \in 1..Len(q) : j > i + 1 /\ q[j].kind = "disconnected"
    BY <1>1, <2>1 DEF Behind
  <2>3. j - 1 > i
    BY <2>2
  <2> QED BY <1>4, <2>1, <2>2, <2>3
<1>6. ASSUME Head(q).kind = "gameinSyn", Head(q).key # x PROVE Has(Tail(q), "disconnected")
  <2>1. PICK j \in 1..Len(q) : j > 1 /\ q[j].kind = "disconnected"
    BY <1>1, <1>6 DEF Behind
  <2>2. j - 1 \in 1..(Len(q) - 1) /\ Tail(q)[j - 1] = q[j]
    BY <1>1, <1>4, <2>1
  <2> QED BY <1>3, <2>1, <2>2 DEF Has
<1> QED BY <1>5, <1>6

(***************************************************************************)
(* Types.                                                                  *)
(***************************************************************************)

Key == 0..MaxSession
ToMapMsg == [kind : {"gameinSyn"}, key : Key] \cup [kind : {"changeMap"}, map : Map] \cup
            [kind : {"back", "disconnected", "gameinNack", "otherMap"}]
ToAgentMsg == [kind : {"gameinAck"}, key : Key] \cup [kind : {"mapOut"}, map : Map] \cup
              [kind : {"loginCheckDelete"}, known : BOOLEAN] \cup
              [kind : {"gameinNack", "changeMapNack", "backAck"}]
Answer == [kind : {"info", "rest", "back"}] \cup [kind : {"point"}, map : Map] \cup
          [kind : {"out"}, known : BOOLEAN]
Query == Answer \cup [kind : {"save"}, map : Map, data : BOOLEAN]

\* The queues, and everything else.
QueuesOK == /\ toMap \in [Map -> Seq(ToMapMsg)] /\ toAgent \in [Map -> Seq(ToAgentMsg)]
            /\ query \in [Map -> Seq(Query)] /\ answer \in [Map -> Seq(Answer)]

RestOK ==
  /\ online \in BOOLEAN /\ hurried \in BOOLEAN /\ session \in Key /\ started \in Key
  /\ at \in Map \cup {NoMap} /\ list \in Map \cup {NoMap} /\ listing \in BOOLEAN
  /\ client \in {"away", "list", "mapChange", "gameIn", "hero", "moving", "leaving"}
  /\ backup \in BOOLEAN
  /\ player \in [Map -> [key : Key, info : BOOLEAN, rest : BOOLEAN] \cup {NoPlayer}]
  /\ dbMap \in Map

LEMMA Types == TypeOK <=> QueuesOK /\ RestOK
BY DEF TypeOK, QueuesOK, RestOK, Key, ToMapMsg, ToAgentMsg, Answer, Query

LEMMA TypesToo == (TypeOK <=> QueuesOK /\ RestOK)'
BY Types, PTL

LEMMA MessageTypes ==
  /\ \A k \in Key : MsgOf("gameinSyn", k) \in ToMapMsg /\ MsgOf("gameinAck", k) \in ToAgentMsg
  /\ \A m \in Map : /\ MsgTo("changeMap", m) \in ToMapMsg /\ MsgTo("mapOut", m) \in ToAgentMsg
                    /\ MsgTo("point", m) \in Query
  /\ \A k \in {"back", "disconnected", "gameinNack", "otherMap"} : Msg(k) \in ToMapMsg
  /\ \A k \in {"gameinNack", "changeMapNack", "backAck"} : Msg(k) \in ToAgentMsg
  /\ \A k \in {"info", "rest", "back"} : Msg(k) \in Query
  /\ \A b \in BOOLEAN : /\ Out("loginCheckDelete", b) \in ToAgentMsg /\ Out("out", b) \in Query
                        /\ \A m \in Map : Save(m, b) \in Query
BY DEF Msg, MsgOf, MsgTo, Out, Save, ToMapMsg, ToAgentMsg, Query, Answer

\* What the first message of a queue carries.
LEMMA Carried ==
  /\ \A x \in ToMapMsg : /\ x.kind = "gameinSyn" => x.key \in Key
                         /\ x.kind = "changeMap" => x.map \in Map
  /\ \A x \in ToAgentMsg : /\ x.kind = "gameinAck" => x.key \in Key
                           /\ x.kind = "mapOut" => x.map \in Map
                           /\ x.kind = "loginCheckDelete" => x.known \in BOOLEAN
  /\ \A x \in Query : /\ x.kind = "point" => x.map \in Map
                      /\ x.kind = "out" => x.known \in BOOLEAN
                      /\ x.kind = "save" => x.map \in Map /\ x.data \in BOOLEAN
                      /\ x.kind # "save" => x \in Answer
  /\ \A x \in Answer : x \in Query
BY DEF ToMapMsg, ToAgentMsg, Query, Answer

\* One queue of a server after one message has come or gone.
LEMMA Heads ==
  ASSUME QueuesOK, NEW m \in Map
  PROVE  /\ toMap[m] # <<>> => Head(toMap[m]) \in ToMapMsg /\ Tail(toMap[m]) \in Seq(ToMapMsg)
         /\ toAgent[m] # <<>> => Head(toAgent[m]) \in ToAgentMsg /\ Tail(toAgent[m]) \in Seq(ToAgentMsg)
         /\ query[m] # <<>> => Head(query[m]) \in Query /\ Tail(query[m]) \in Seq(Query)
         /\ answer[m] # <<>> => Head(answer[m]) \in Answer /\ Tail(answer[m]) \in Seq(Answer)
BY TailHas DEF QueuesOK

LEMMA QueueSteps ==
  ASSUME QueuesOK, NEW m \in Map
  PROVE  /\ \A x \in ToMapMsg : SendMap(m, x) => toMap' \in [Map -> Seq(ToMapMsg)]
         /\ \A x \in ToAgentMsg : SendAgent(m, x) => toAgent' \in [Map -> Seq(ToAgentMsg)]
         /\ toMap[m] # <<>> => (Taken(m) => toMap' \in [Map -> Seq(ToMapMsg)])
         /\ toAgent[m] # <<>> => (Received(m) => toAgent' \in [Map -> Seq(ToAgentMsg)])
<1>1. /\ \A x \in ToMapMsg : Append(toMap[m], x) \in Seq(ToMapMsg)
      /\ \A x \in ToAgentMsg : Append(toAgent[m], x) \in Seq(ToAgentMsg)
  BY AppendHas DEF QueuesOK
<1> QED BY <1>1, Heads DEF SendMap, SendAgent, Taken, Received, QueuesOK

\* RemovePlayer as it is called: what the queue of queries becomes.
LEMMA Removal ==
  ASSUME QueuesOK, RestOK, NEW m \in Map, NEW target \in Map, Present(m)
  PROVE  /\ Save(target, Inited(m)) \in Query
         /\ RemovePlayer(m, target, <<>>, <<>>) =>
              query' = [query EXCEPT ![m] = Append(@, Save(target, Inited(m)))]
         /\ \A d \in Query : RemovePlayer(m, target, <<>>, <<d>>) =>
              query' = [query EXCEPT ![m] = Append(Append(@, Save(target, Inited(m))), d)]
         /\ \A d \in Query : RemovePlayer(m, target, <<d>>, <<>>) =>
              query' = [query EXCEPT ![m] = Append(Append(@, d), Save(target, Inited(m)))]
<1>1. Inited(m) \in BOOLEAN
  BY DEF Inited, Present
<1>2. PICK s : s = Save(target, Inited(m))
  OBVIOUS
<1>3. s \in Query
  BY <1>1, <1>2, MessageTypes
<1>4. PICK q : q = query[m]
  OBVIOUS
<1>5. q \in Seq(Query)
  BY <1>4 DEF QueuesOK
<1>6. \A d \in Query : /\ Append(q, d) \in Seq(Query) /\ q \o <<d>> = Append(q, d)
                       /\ Append(q, d) \o <<s>> = Append(Append(q, d), s)
                       /\ Append(q, s) \o <<d>> = Append(Append(q, s), d)
                       /\ Append(Append(q, d), s) \o <<>> = Append(Append(q, d), s)
  <2> SUFFICES ASSUME NEW d \in Query
               PROVE  /\ Append(q, d) \in Seq(Query) /\ q \o <<d>> = Append(q, d)
                      /\ Append(q, d) \o <<s>> = Append(Append(q, d), s)
                      /\ Append(q, s) \o <<d>> = Append(Append(q, s), d)
                      /\ Append(Append(q, d), s) \o <<>> = Append(Append(q, d), s)
    OBVIOUS
  <2>1. Append(q, d) \in Seq(Query) /\ Append(q, s) \in Seq(Query)
    BY <1>3, <1>5, AppendHas
  <2>2. Append(Append(q, d), s) \in Seq(Query)
    BY <1>3, <2>1, AppendHas
  <2> QED BY <1>3, <1>5, <2>1, <2>2, TwoAppended
<1>7. q \o <<>> = q /\ Append(q, s) \o <<>> = Append(q, s)
  <2>1. Append(q, s) \in Seq(Query)
    BY <1>3, <1>5, AppendHas
  <2> QED BY <1>3, <1>5, <2>1, TwoAppended
<1> QED BY <1>2, <1>3, <1>4, <1>6, <1>7 DEF RemovePlayer

LEMMA ClientTypes ==
  ASSUME ArrivalAssumption, QueuesOK, RestOK, ClientStep \/ ListRead \/ InsistedLogout
  PROVE  QueuesOK' /\ RestOK'
<1>1. CASE Attach
  <2>1. started + 1 \in Key
    BY <1>1 DEF Attach, RestOK, Key, ArrivalAssumption
  <2> QED BY <1>1, <2>1 DEF Attach, msgVars, dbVars, RestOK, QueuesOK
<1>2. CASE CharacterSelect \/ ListRead \/ InsistedLogout
  BY <1>2 DEF CharacterSelect, ListRead, InsistedLogout, clientVars, msgVars, dbVars, RestOK, QueuesOK
<1>3. CASE GameinSyn
  <2>1. toMap' \in [Map -> Seq(ToMapMsg)]
    BY <1>3, QueueSteps, MessageTypes DEF GameinSyn, RestOK, QueuesOK
  <2> QED BY <1>3, <2>1 DEF GameinSyn, agentVars, dbVars, RestOK, QueuesOK
<1>4. CASE BackToCharSelSyn
  <2>1. toMap' \in [Map -> Seq(ToMapMsg)]
    BY <1>4, QueueSteps, MessageTypes DEF BackToCharSelSyn, RestOK
  <2> QED BY <1>4, <2>1 DEF BackToCharSelSyn, agentVars, dbVars, RestOK, QueuesOK
<1>5. ASSUME NEW target \in Map, ChangeMapSyn(target) PROVE QueuesOK' /\ RestOK'
  <2>1. toMap' \in [Map -> Seq(ToMapMsg)]
    BY <1>5, QueueSteps, MessageTypes DEF ChangeMapSyn, RestOK, QueuesOK
  <2> QED BY <1>5, <2>1 DEF ChangeMapSyn, agentVars, dbVars, RestOK, QueuesOK
<1>6. CASE Disconnect
  <2>1. toMap' \in [Map -> Seq(ToMapMsg)]
    BY <1>6, QueueSteps, MessageTypes DEF Disconnect, OnDisconnectUser, RestOK, QueuesOK
  <2>2. 0 \in Key
    BY DEF ArrivalAssumption, Key
  <2> QED BY <1>6, <2>1, <2>2 DEF Disconnect, OnDisconnectUser, dbVars, RestOK, QueuesOK
<1> QED BY <1>1, <1>2, <1>3, <1>4, <1>5, <1>6 DEF ClientStep

LEMMA AgentTypes ==
  ASSUME ArrivalAssumption, QueuesOK, RestOK, NEW m \in Map, AgentStep(m)
  PROVE  QueuesOK' /\ RestOK'
<1>1. /\ toAgent[m] # <<>> /\ Head(toAgent[m]) \in ToAgentMsg
      /\ toAgent' \in [Map -> Seq(ToAgentMsg)]
  BY QueueSteps, Heads DEF AgentStep, GameinNack, GameinAck, MapOut, ChangeMapNack, BackToCharSelAck,
     LoginCheckDelete, FromMap
<1>2. UNCHANGED <<hurried, started, player, query, answer, dbMap>>
  BY DEF AgentStep, GameinNack, GameinAck, MapOut, ChangeMapNack, BackToCharSelAck,
     LoginCheckDelete, OnDisconnectUser, agentVars, dbVars
<1>3. CASE GameinNack(m)
  <2>1. toMap' \in [Map -> Seq(ToMapMsg)]
    BY <1>3, QueueSteps, MessageTypes DEF GameinNack, OnDisconnectUser, RestOK, QueuesOK
  <2>2. 0 \in Key
    BY DEF ArrivalAssumption, Key
  <2> QED BY <1>1, <1>2, <1>3, <2>1, <2>2 DEF GameinNack, OnDisconnectUser, RestOK, QueuesOK
<1>4. CASE GameinAck(m)
  <2>1. toMap' \in [Map -> Seq(ToMapMsg)]
    <3>1. CASE SendMap(m, Msg("gameinNack"))
      BY <3>1, QueueSteps, MessageTypes
    <3>2. CASE ~SendMap(m, Msg("gameinNack"))
      <4>1. \A n \in Map : Append(toMap[n], Msg("otherMap")) \in Seq(ToMapMsg)
        BY MessageTypes, AppendHas DEF QueuesOK
      <4>2. toMap' = [n \in Map |-> IF n = m THEN toMap[n] ELSE Append(toMap[n], Msg("otherMap"))]
        BY <1>4, <3>2 DEF GameinAck
      <4> QED BY <4>1, <4>2 DEF QueuesOK
    <3> QED BY <3>1, <3>2
  <2>2. client' \in {"away", "list", "mapChange", "gameIn", "hero", "moving", "leaving"}
    BY <1>4 DEF GameinAck, RestOK
  <2> QED BY <1>1, <1>2, <1>4, <2>1, <2>2 DEF GameinAck, RestOK, QueuesOK
<1>5. CASE MapOut(m)
  <2>1. Head(toAgent[m]).map \in Map
    BY <1>1, <1>5, Carried DEF MapOut, FromMap
  <2>2. /\ at' \in Map \cup {NoMap} /\ backup' \in BOOLEAN
        /\ client' \in {"away", "list", "mapChange", "gameIn", "hero", "moving", "leaving"}
    BY <1>5, <2>1 DEF MapOut, RestOK
  <2> QED BY <1>1, <1>2, <1>5, <2>2 DEF MapOut, RestOK, QueuesOK
<1>6. CASE ChangeMapNack(m) \/ BackToCharSelAck(m) \/ LoginCheckDelete(m)
  <2>1. UNCHANGED <<session, list, backup, toMap>>
    BY <1>6 DEF ChangeMapNack, BackToCharSelAck, LoginCheckDelete, agentVars, clientVars
  <2>2. /\ at' \in Map \cup {NoMap} /\ listing' \in BOOLEAN /\ online' \in BOOLEAN
        /\ client' \in {"away", "list", "mapChange", "gameIn", "hero", "moving", "leaving"}
    BY <1>6 DEF ChangeMapNack, BackToCharSelAck, LoginCheckDelete, agentVars, clientVars, RestOK
  <2> QED BY <1>1, <1>2, <2>1, <2>2 DEF RestOK, QueuesOK
<1> QED BY <1>3, <1>4, <1>5, <1>6 DEF AgentStep

\* The saves and the query that goes with them, in one of the four ways.
LEMMA RemovalTypes ==
  ASSUME QueuesOK, RestOK, NEW m \in Map, NEW target \in Map, Present(m),
         \/ RemovePlayer(m, target, <<>>, <<>>)
         \/ \E d \in Query : RemovePlayer(m, target, <<>>, <<d>>) \/ RemovePlayer(m, target, <<d>>, <<>>)
  PROVE  /\ query' \in [Map -> Seq(Query)]
         /\ player' \in [Map -> [key : Key, info : BOOLEAN, rest : BOOLEAN] \cup {NoPlayer}]
<1>1. PICK s \in Query : s = Save(target, Inited(m))
  BY Removal
<1>2. /\ Append(query[m], s) \in Seq(Query)
      /\ \A d \in Query : /\ Append(Append(query[m], s), d) \in Seq(Query)
                          /\ Append(Append(query[m], d), s) \in Seq(Query)
  BY <1>1, AppendHas DEF QueuesOK
<1>3. query' \in [Map -> Seq(Query)]
  <2> SUFFICES \E q \in Seq(Query) : query' = [query EXCEPT ![m] = q]
    BY DEF QueuesOK
  <2>1. CASE RemovePlayer(m, target, <<>>, <<>>)
    <3>1. query' = [query EXCEPT ![m] = Append(@, s)]
      BY <1>1, <2>1, Removal
    <3> QED BY <1>2, <3>1
  <2>2. ASSUME NEW d \in Query, RemovePlayer(m, target, <<>>, <<d>>)
        PROVE  query' = [query EXCEPT ![m] = Append(Append(@, s), d)]
    BY <1>1, <2>2, Removal
  <2>3. ASSUME NEW d \in Query, RemovePlayer(m, target, <<d>>, <<>>)
        PROVE  query' = [query EXCEPT ![m] = Append(Append(@, d), s)]
    BY <1>1, <2>3, Removal
  <2> QED BY <1>2, <2>1, <2>2, <2>3
<1> QED BY <1>3 DEF RemovePlayer, RestOK

LEMMA MapTypes ==
  ASSUME QueuesOK, RestOK, NEW m \in Map, MapStep(m)
  PROVE  QueuesOK' /\ RestOK'
<1>1. /\ toMap[m] # <<>> /\ Head(toMap[m]) \in ToMapMsg
      /\ toMap' \in [Map -> Seq(ToMapMsg)]
  BY QueueSteps, Heads DEF MapStep, GameInSyn, Removed, Disconnected, ChangeMap, BackToCharSel, HeadOf
<1>2. UNCHANGED <<agentVars, clientVars, answer, dbMap>>
  BY DEF MapStep, GameInSyn, Removed, Disconnected, ChangeMap, BackToCharSel
<1> SUFFICES /\ query' \in [Map -> Seq(Query)] /\ toAgent' \in [Map -> Seq(ToAgentMsg)]
             /\ player' \in [Map -> [key : Key, info : BOOLEAN, rest : BOOLEAN] \cup {NoPlayer}]
  BY <1>1, <1>2 DEF QueuesOK, RestOK, agentVars, clientVars
<1>3. CASE UNCHANGED <<query, player>>
  <2>1. toAgent' \in [Map -> Seq(ToAgentMsg)]
    <3>1. /\ SendAgent(m, Msg("gameinNack")) => toAgent' \in [Map -> Seq(ToAgentMsg)]
          /\ SendAgent(m, Out("loginCheckDelete", TRUE)) => toAgent' \in [Map -> Seq(ToAgentMsg)]
          /\ SendAgent(m, Msg("changeMapNack")) => toAgent' \in [Map -> Seq(ToAgentMsg)]
      BY QueueSteps, MessageTypes
    <3>2. \/ UNCHANGED toAgent \/ SendAgent(m, Msg("gameinNack"))
          \/ SendAgent(m, Out("loginCheckDelete", TRUE)) \/ SendAgent(m, Msg("changeMapNack"))
      BY DEF MapStep, GameInSyn, Removed, Disconnected, ChangeMap, BackToCharSel
    <3> QED BY <3>1, <3>2 DEF QueuesOK
  <2> QED BY <1>3, <2>1 DEF QueuesOK, RestOK
<1>4. CASE GameInSyn(m)
  <2>1. CASE ~Present(m)
    <3>1. Head(toMap[m]).key \in Key
      BY <1>1, <1>4, Carried DEF GameInSyn, HeadOf
    <3>2. query[m] \o <<Msg("info"), Msg("rest")>> \in Seq(Query)
      <4>1. /\ Msg("info") \in Query /\ Msg("rest") \in Query /\ query[m] \in Seq(Query)
        BY MessageTypes DEF QueuesOK
      <4> QED BY <4>1, TwoAppended, AppendHas
    <3>3. query' \in [Map -> Seq(Query)] /\ UNCHANGED toAgent
      BY <1>4, <2>1, <3>2 DEF GameInSyn, QueuesOK
    <3>4. player' \in [Map -> [key : Key, info : BOOLEAN, rest : BOOLEAN] \cup {NoPlayer}]
      <4>1. PICK r \in [key : Key, info : BOOLEAN, rest : BOOLEAN] :
              r = [key |-> Head(toMap[m]).key, info |-> FALSE, rest |-> FALSE]
        BY <3>1
      <4>2. player' = [player EXCEPT ![m] = r]
        BY <1>4, <2>1, <4>1 DEF GameInSyn
      <4> QED BY <4>2 DEF RestOK
    <3> QED BY <3>3, <3>4 DEF QueuesOK
  <2> QED BY <1>3, <1>4, <2>1 DEF GameInSyn
<1>5. CASE Removed(m)
  BY <1>3, <1>5, RemovalTypes DEF Removed, QueuesOK
<1>6. CASE Disconnected(m)
  <2>1. Present(m) => Out("out", player[m].info) \in Query
    BY MessageTypes DEF Present, RestOK
  <2>2. Present(m) => UNCHANGED toAgent
                      /\ \E d \in Query : RemovePlayer(m, m, <<>>, <<d>>)
    BY <1>6, <2>1 DEF Disconnected
  <2>3. ~Present(m) => UNCHANGED <<query, player>>
    BY <1>6 DEF Disconnected
  <2> QED BY <1>3, <2>2, <2>3, RemovalTypes DEF QueuesOK
<1>7. CASE ChangeMap(m)
  <2>1. Head(toMap[m]).map \in Map
    BY <1>1, <1>7, Carried DEF ChangeMap, HeadOf
  <2>2. \/ UNCHANGED <<query, player>>
        \/ Present(m) /\ UNCHANGED toAgent
           /\ \E d \in Query : RemovePlayer(m, Head(toMap[m]).map, <<>>, <<d>>)
    BY <1>7, <2>1, MessageTypes DEF ChangeMap, Inited
  <2> QED BY <1>3, <2>1, <2>2, RemovalTypes DEF QueuesOK
<1>8. CASE BackToCharSel(m)
  <2>1. \/ UNCHANGED <<query, player>>
        \/ Present(m) /\ UNCHANGED toAgent
           /\ \E d \in Query : RemovePlayer(m, m, <<d>>, <<>>)
    BY <1>8, MessageTypes DEF BackToCharSel
  <2> QED BY <1>3, <2>1, RemovalTypes DEF QueuesOK
<1> QED BY <1>4, <1>5, <1>6, <1>7, <1>8 DEF MapStep

LEMMA DatabaseTypes ==
  ASSUME QueuesOK, RestOK, NEW m \in Map, Execute(m) \/ HandleAnswer(m)
  PROVE  QueuesOK' /\ RestOK'
<1>1. CASE Execute(m)
  <2>1. Head(query[m]) \in Query /\ query' \in [Map -> Seq(Query)]
    BY <1>1, Heads DEF Execute, QueuesOK
  <2>2. Head(query[m]).kind # "save" => Append(answer[m], Head(query[m])) \in Seq(Answer)
    BY <2>1, Carried, AppendHas DEF QueuesOK
  <2>3. dbMap' \in Map /\ answer' \in [Map -> Seq(Answer)]
    BY <1>1, <2>1, <2>2, Carried DEF Execute, QueuesOK, RestOK
  <2> QED BY <1>1, <2>1, <2>3 DEF Execute, agentVars, clientVars, msgVars, QueuesOK, RestOK
<1>2. CASE HandleAnswer(m)
  <2>1. Head(answer[m]) \in Answer /\ answer' \in [Map -> Seq(Answer)]
    BY <1>2, Heads DEF HandleAnswer, QueuesOK
  <2>2. CASE UNCHANGED player
    <3>1. /\ Head(answer[m]).kind = "point" => Head(answer[m]).map \in Map
          /\ Head(answer[m]).kind = "out" => Head(answer[m]).known \in BOOLEAN
      BY <2>1, Carried
    <3>2. toAgent' \in [Map -> Seq(ToAgentMsg)] \/ LoadAnswer(m)
      BY <1>2, <3>1, QueueSteps, MessageTypes DEF HandleAnswer
    <3>3. LoadAnswer(m) => toAgent' \in [Map -> Seq(ToAgentMsg)]
      <4>1. Present(m) => player[m].key \in Key
        BY DEF Present, RestOK
      <4>2. LoadAnswer(m) => \/ UNCHANGED toAgent
                             \/ Present(m) /\ SendAgent(m, MsgOf("gameinAck", player[m].key))
        BY DEF LoadAnswer, Present, RestOK
      <4> QED BY <4>1, <4>2, QueueSteps, MessageTypes DEF QueuesOK
    <3> QED BY <1>2, <2>1, <2>2, <3>2, <3>3
            DEF HandleAnswer, agentVars, clientVars, QueuesOK, RestOK
  <2>3. CASE Present(m) /\ LoadAnswer(m)
    <3>1. PICK now : now = [player[m] EXCEPT !.info = @ \/ Head(answer[m]).kind = "info",
                                             !.rest = @ \/ Head(answer[m]).kind = "rest"]
      OBVIOUS
    <3>2. player[m] \in [key : Key, info : BOOLEAN, rest : BOOLEAN]
      BY <2>3 DEF Present, RestOK
    <3>3. now \in [key : Key, info : BOOLEAN, rest : BOOLEAN]
      BY <3>1, <3>2
    <3>4. player' = [player EXCEPT ![m] = now]
          /\ (SendAgent(m, MsgOf("gameinAck", now.key)) \/ UNCHANGED toAgent)
      BY <2>3, <3>1 DEF LoadAnswer
    <3>5. player' \in [Map -> [key : Key, info : BOOLEAN, rest : BOOLEAN] \cup {NoPlayer}]
      BY <3>3, <3>4 DEF RestOK
    <3>6. toAgent' \in [Map -> Seq(ToAgentMsg)]
      BY <3>3, <3>4, QueueSteps, MessageTypes DEF QueuesOK
    <3> QED BY <1>2, <2>1, <3>5, <3>6 DEF HandleAnswer, agentVars, clientVars, QueuesOK, RestOK
  <2>4. UNCHANGED player \/ (Present(m) /\ LoadAnswer(m))
    BY <1>2 DEF HandleAnswer, LoadAnswer
  <2> QED BY <2>2, <2>3, <2>4
<1> QED BY <1>1, <1>2

LEMMA TypesFirst == Init => QueuesOK /\ RestOK
<1> SUFFICES ASSUME Init PROVE QueuesOK /\ RestOK
  OBVIOUS
<1>1. \A T : <<>> \in Seq(T)
  OBVIOUS
<1>2. QueuesOK
  BY <1>1 DEF Init, QueuesOK
<1>3. 0 \in Key
  BY ArrivalAssumption DEF ArrivalAssumption, Key
<1>4. player \in [Map -> [key : Key, info : BOOLEAN, rest : BOOLEAN] \cup {NoPlayer}]
  BY DEF Init
<1> QED BY <1>2, <1>3, <1>4 DEF Init, RestOK

\* Every variable keeps to its type, whichever messages cross.
THEOREM TypeCorrect == SafeSpec => []TypeOK
<1>1. Init => TypeOK
  BY TypesFirst, Types
<1>2. TypeOK /\ [Next]_vars => TypeOK'
  <2> SUFFICES ASSUME QueuesOK, RestOK, [Next]_vars PROVE QueuesOK' /\ RestOK'
    BY Types, TypesToo
  <2>1. CASE UNCHANGED vars
    BY <2>1 DEF vars, QueuesOK, RestOK
  <2> QED BY <2>1, ArrivalAssumption, ClientTypes, AgentTypes, MapTypes, DatabaseTypes DEF Next
<1> QED BY <1>1, <1>2, PTL DEF SafeSpec

(***************************************************************************)
(* The inductive invariant.  At most one request to leave a map is under   *)
(* way; it goes from the map's queue of messages over a query and its      *)
(* answer to the agent.  The character, its data and what the agent and    *)
(* the database think of it are all at one map, its seat.                  *)
(***************************************************************************)

\* Where the request is, those of a change of the map and of a return to the list,
\* and the stages at which the character has been removed.
ToMove  == {"changeMap", "point", "pointAnswer", "mapOut", "changeMapNack"}
ToLeave == {"back", "confirm", "confirmAnswer", "backAck"}
Stage   == ToMove \cup ToLeave
OutStage == {"point", "pointAnswer", "mapOut", "confirm", "confirmAnswer", "backAck"}

Asked(m, t) ==
  \/ t = "changeMap" /\ Has(toMap[m], "changeMap")
  \/ t = "point" /\ Has(query[m], "point")
  \/ t = "pointAnswer" /\ Has(answer[m], "point")
  \/ t = "mapOut" /\ Has(toAgent[m], "mapOut")
  \/ t = "changeMapNack" /\ Has(toAgent[m], "changeMapNack")
  \/ t = "back" /\ Has(toMap[m], "back")
  \/ t = "confirm" /\ Has(query[m], "back")
  \/ t = "confirmAnswer" /\ Has(answer[m], "back")
  \/ t = "backAck" /\ Has(toAgent[m], "backAck")

Comes(m)  == Has(toMap[m], "gameinSyn")
Saving(m) == Has(query[m], "save")

OnceEach ==
  \A m \in Map :
    /\ \A k \in {"changeMap", "back", "gameinSyn"} : Once(toMap[m], k)
    /\ \A k \in {"point", "back"} : Once(query[m], k) /\ Once(answer[m], k)
    /\ \A k \in {"mapOut", "changeMapNack", "backAck"} : Once(toAgent[m], k)

OneRequest ==
  \A m, n \in Map, t, u \in Stage : Asked(m, t) /\ Asked(n, u) => m = n /\ t = u

\* The character is on its way to a map, there, or on its way out.
OneCharacter ==
  /\ \A m \in Map : ~(Present(m) /\ Comes(m))
  /\ \A m, n \in Map, t \in OutStage : Asked(m, t) => ~Present(n) /\ ~Comes(n)

Seat(m) == at = m \/ Present(m) \/ Comes(m) \/ Saving(m) \/ \E t \in Stage : Asked(m, t)

OneSeat == \A m, n \in Map : Seat(m) /\ Seat(n) => m = n

\* Every element of kind k in q names map m.
Says(q, k, m) == \A i \in DOMAIN q : q[i].kind = k => q[i].map = m

\* The query for the new map comes last, after the save that says it, which may
\* have been carried out.
PointLast(q, d) ==
  \A i \in DOMAIN q : q[i].kind = "point" =>
    /\ i = Len(q)
    /\ IF i = 1 THEN q[i].map = d ELSE q[i - 1].kind = "save" /\ q[i - 1].map = q[i].map

\* Where a change of the map will lead to, and that the database says so.
PointAt(m) ==
  /\ PointLast(query[m], dbMap)
  /\ Has(answer[m], "point") => query[m] = <<>> /\ Says(answer[m], "point", dbMap)
  /\ Has(toAgent[m], "mapOut") => query[m] = <<>> /\ Says(toAgent[m], "mapOut", dbMap)

Points == \A m \in Map : PointAt(m)

Goes(m) == Asked(m, "point") \/ Asked(m, "pointAnswer") \/ Asked(m, "mapOut")

\* Otherwise the database has, and keeps, the character at its seat.
Home == \A m \in Map : Seat(m) /\ ~Goes(m) => dbMap = m /\ Says(query[m], "save", m)

NoRequest == \A m \in Map, t \in Stage : ~Asked(m, t)
Nowhere   == NoRequest /\ \A m \in Map : ~Comes(m) /\ ~Present(m)

\* What the agent and the client may ask for in their states.
Clients ==
  /\ session = 0 <=> client = "away"
  /\ session = 0 => at = NoMap /\ ~listing
  /\ listing => client \in {"list", "leaving"}
  /\ client = "gameIn" => ~backup
  /\ client \in {"list", "mapChange"} => Nowhere
  /\ client = "leaving" /\ listing => Nowhere
  /\ client \in {"gameIn", "hero"} => NoRequest
  /\ client = "moving"  => \A m \in Map, t \in ToLeave : ~Asked(m, t)
  /\ client = "leaving" => \A m \in Map, t \in ToMove : ~Asked(m, t)
  /\ client = "list" /\ ~listing /\ list # NoMap => list = dbMap

\* The session a map server will be told of, or has been, and the messages that
\* remove a player whose session it is not.
Expected(m) == IF at = m THEN session ELSE -1
Removing    == {"disconnected", "gameinNack", "otherMap"}

AttendedAt(m) ==
  /\ Behind(toMap[m], Expected(m))
  /\ Present(m) => player[m].key = Expected(m) \/ \E k \in Removing : Has(toMap[m], k)

Attended == \A m \in Map : AttendedAt(m)

Calm == /\ OnceEach /\ OneRequest /\ OneCharacter /\ OneSeat
        /\ Points /\ Home /\ Clients /\ Attended

IInv == TypeOK /\ (~hurried => Calm)
(***************************************************************************)
(* What one step does to the queues, kind by kind.                         *)
(***************************************************************************)

\* A queue of the family after an element has been added, or the first one taken,
\* at m.
Grown(q, r, m, e) ==
  \A n \in Map : /\ \A k : Has(r[n], k) <=> Has(q[n], k) \/ (n = m /\ e.kind = k)
                 /\ \A k : Once(q[n], k) /\ (n = m /\ e.kind = k => ~Has(q[n], k)) => Once(r[n], k)
                 /\ n # m => r[n] = q[n]

Shrunk(q, r, m) ==
  \A n \in Map : /\ \A k : Has(q[n], k) <=> Has(r[n], k) \/ (n = m /\ Head(q[m]).kind = k)
                 /\ \A k : Once(q[n], k) => Once(r[n], k)
                 /\ n # m => r[n] = q[n]
                 /\ \A k : Once(q[m], k) /\ Head(q[m]).kind = k => ~Has(r[m], k)

LEMMA Growing ==
  ASSUME NEW T, NEW q \in [Map -> Seq(T)], NEW m \in Map, NEW e \in T,
         NEW r, r = [q EXCEPT ![m] = Append(@, e)]
  PROVE  Grown(q, r, m, e)
<1>1. /\ \A k : Has(Append(q[m], e), k) <=> Has(q[m], k) \/ e.kind = k
      /\ \A k : Once(q[m], k) /\ (e.kind = k => ~Has(q[m], k)) => Once(Append(q[m], e), k)
  BY AppendHas
<1>2. r[m] = Append(q[m], e) /\ \A n \in Map : n # m => r[n] = q[n]
  OBVIOUS
<1> QED BY <1>1, <1>2 DEF Grown

LEMMA Shrinking ==
  ASSUME NEW T, NEW q \in [Map -> Seq(T)], NEW m \in Map, q[m] # <<>>,
         NEW r, r = [q EXCEPT ![m] = Tail(@)]
  PROVE  Shrunk(q, r, m)
<1>1. /\ \A k : Has(q[m], k) <=> Head(q[m]).kind = k \/ Has(Tail(q[m]), k)
      /\ \A k : Once(q[m], k) => Once(Tail(q[m]), k) /\ (Head(q[m]).kind = k => ~Has(Tail(q[m]), k))
  BY TailHas
<1>2. r[m] = Tail(q[m]) /\ \A n \in Map : n # m => r[n] = q[n]
  OBVIOUS
<1> QED BY <1>1, <1>2 DEF Shrunk

\* The queues of the servers.
LEMMA QueueSizes ==
  ASSUME QueuesOK, NEW m \in Map
  PROVE  /\ \A x \in ToMapMsg : SendMap(m, x) => Grown(toMap, toMap', m, x)
         /\ \A x \in ToAgentMsg : SendAgent(m, x) => Grown(toAgent, toAgent', m, x)
         /\ toMap[m] # <<>> /\ Taken(m) => Shrunk(toMap, toMap', m)
         /\ toAgent[m] # <<>> /\ Received(m) => Shrunk(toAgent, toAgent', m)
         /\ query[m] # <<>> /\ query' = [query EXCEPT ![m] = Tail(@)] => Shrunk(query, query', m)
         /\ answer[m] # <<>> /\ answer' = [answer EXCEPT ![m] = Tail(@)] => Shrunk(answer, answer', m)
         /\ \A x \in Answer : answer' = [answer EXCEPT ![m] = Append(@, x)] => Grown(answer, answer', m, x)
BY Growing, Shrinking DEF QueuesOK, SendMap, SendAgent, Taken, Received

LEMMA Kinds ==
  /\ \A k, s : MsgOf(k, s).kind = k /\ MsgOf(k, s).key = s
  /\ \A k, m : MsgTo(k, m).kind = k /\ MsgTo(k, m).map = m
  /\ \A k, b : Out(k, b).kind = k
  /\ \A k : Msg(k).kind = k
  /\ \A m, b : Save(m, b).kind = "save" /\ Save(m, b).map = m /\ Save(m, b).data = b
BY DEF MsgOf, MsgTo, Out, Msg, Save

LEMMA AskedSame ==
  ASSUME UNCHANGED <<toMap, toAgent, query, answer>>
  PROVE  /\ \A m, t : Asked(m, t)' = Asked(m, t)
         /\ \A m : Comes(m)' = Comes(m) /\ Saving(m)' = Saving(m)
         /\ OnceEach' = OnceEach
BY DEF Asked, Comes, Saving, OnceEach

(***************************************************************************)
(* The seat of the character under the steps of the servers.               *)
(***************************************************************************)

\* What does not depend on the order or the contents of the queues.
Whereabouts == OneRequest /\ OneCharacter /\ OneSeat /\ Clients

\* A step of a map server: nothing new is asked for, a player comes only from its
\* message and leaves with a save.
Settling ==
  \A m \in Map : /\ Comes(m)' => Comes(m)
                 /\ Present(m)' => Present(m) \/ (Comes(m) /\ ~Comes(m)')
                 /\ Saving(m)' => Saving(m) \/ Present(m)

LEMMA Fewer ==
  ASSUME Whereabouts, Settling, \A m \in Map, t \in Stage : Asked(m, t)' => Asked(m, t),
         UNCHANGED <<at, session, listing, client, backup>>,
         client = "list" /\ ~listing /\ list' # NoMap => list' = dbMap'
  PROVE  Whereabouts'
<1>1. OneRequest'
  BY DEF Whereabouts, OneRequest
<1>2. OneCharacter'
  BY DEF Whereabouts, OneCharacter, Settling, OutStage, Stage, ToMove, ToLeave
<1>3. \A m \in Map : Seat(m)' => Seat(m)
  BY DEF Settling, Seat
<1>4. OneSeat'
  BY <1>3 DEF Whereabouts, OneSeat
<1>5. (NoRequest => NoRequest') /\ (Nowhere => Nowhere')
  BY DEF NoRequest, Nowhere, Settling
<1>6. Clients'
  BY <1>5 DEF Whereabouts, Clients, Stage
<1> QED BY <1>1, <1>2, <1>4, <1>6 DEF Whereabouts

\* The request goes one stage further.
LEMMA Onward ==
  ASSUME Whereabouts, Settling, NEW m \in Map, NEW t \in Stage, NEW u \in Stage, Asked(m, t),
         t \in ToMove <=> u \in ToMove,
         u \in OutStage => t \in OutStage \/ (Present(m) /\ ~Present(m)'),
         \A n \in Map, v \in Stage : Asked(n, v)' => \/ n = m /\ v = u
                                                     \/ Asked(n, v) /\ ~(n = m /\ v = t),
         \A n \in Map : Present(n)' => Present(n),
         UNCHANGED <<at, session, listing, client, backup, list>>
  PROVE  Whereabouts' /\ \A n \in Map, v \in Stage : Asked(n, v)' => n = m /\ v = u
<1>1. \A n \in Map, v \in Stage : Asked(n, v)' => n = m /\ v = u
  BY DEF Whereabouts, OneRequest
<1>2. OneRequest'
  BY <1>1 DEF OneRequest
<1>3. OneCharacter'
  <2>1. \A n \in Map : ~(Present(n)' /\ Comes(n)')
    BY DEF Settling, Whereabouts, OneCharacter
  <2>2. ASSUME u \in OutStage, NEW n \in Map PROVE ~Present(n)' /\ ~Comes(n)'
    <3>1. CASE t \in OutStage
      BY <3>1 DEF Settling, Whereabouts, OneCharacter
    <3>2. CASE Present(m) /\ ~Present(m)'
      <4>1. n # m => ~Present(n) /\ ~Comes(n)
        BY <3>2 DEF Whereabouts, OneSeat, Seat
      <4>2. ~Comes(m)
        BY <3>2 DEF Whereabouts, OneCharacter
      <4> QED BY <3>2, <4>1, <4>2 DEF Settling
    <3> QED BY <2>2, <3>1, <3>2
  <2> QED BY <1>1, <2>1, <2>2 DEF OneCharacter, OutStage, Stage, ToMove, ToLeave
<1>4. \A n \in Map : Seat(n)' => Seat(n)
  BY <1>1 DEF Settling, Seat
<1>5. OneSeat'
  BY <1>4 DEF Whereabouts, OneSeat
<1>6. ~NoRequest /\ ~Nowhere
  BY DEF NoRequest, Nowhere
<1>7. Clients'
  BY <1>1, <1>6 DEF Whereabouts, Clients, Stage, ToMove, ToLeave
<1> QED BY <1>1, <1>2, <1>3, <1>5, <1>7 DEF Whereabouts

(***************************************************************************)
(* What the queues say, and the frames of the other parts.                 *)
(***************************************************************************)

LEMMA SaysSteps ==
  ASSUME NEW T, NEW q \in Seq(T), NEW k, NEW m
  PROVE  /\ \A e \in T : Says(q, k, m) /\ (e.kind = k => e.map = m) => Says(Append(q, e), k, m)
         /\ q # <<>> /\ Says(q, k, m) => Says(Tail(q), k, m) /\ (Head(q).kind = k => Head(q).map = m)
         /\ ~Has(q, k) => Says(q, k, m)
<1>1. Len(q) \in Nat /\ DOMAIN q = 1..Len(q)
  BY LenProperties
<1>2. ASSUME NEW e \in T, Says(q, k, m), e.kind = k => e.map = m PROVE Says(Append(q, e), k, m)
  <2>1. /\ Append(q, e) \in Seq(T) /\ Len(Append(q, e)) = Len(q) + 1
        /\ \A i \in 1..Len(q) : Append(q, e)[i] = q[i]
        /\ Append(q, e)[Len(q) + 1] = e
    BY <1>1, AppendProperties
  <2>2. DOMAIN Append(q, e) = 1..(Len(q) + 1)
    BY <2>1, LenProperties
  <2> QED BY <1>1, <1>2, <2>1, <2>2 DEF Says
<1>3. ASSUME q # <<>>, Says(q, k, m) PROVE Says(Tail(q), k, m) /\ (Head(q).kind = k => Head(q).map = m)
  <2>1. Len(q) \in Nat \ {0} /\ Head(q) = q[1]
    BY <1>3, EmptySeq, LenProperties
  <2>2. /\ Tail(q) \in Seq(T) /\ Len(Tail(q)) = Len(q) - 1
        /\ \A i \in 1..(Len(q) - 1) : Tail(q)[i] = q[i + 1]
    BY <1>3, HeadTailProperties
  <2>3. DOMAIN Tail(q) = 1..(Len(q) - 1)
    BY <2>2, LenProperties
  <2> QED BY <1>1, <1>3, <2>1, <2>2, <2>3 DEF Says
<1> QED BY <1>2, <1>3 DEF Says, Has

LEMMA PointSteps ==
  ASSUME NEW T, NEW q \in Seq(T), NEW d
  PROVE  /\ ~Has(q, "point") => PointLast(q, d)
         /\ \A s, p \in T : ~Has(q, "point") /\ s.kind = "save" /\ p.kind = "point" /\ s.map = p.map
                              => PointLast(Append(Append(q, s), p), d)
         /\ q # <<>> /\ PointLast(q, d) =>
              /\ Head(q).kind = "save" => PointLast(Tail(q), Head(q).map)
              /\ Head(q).kind = "point" => Tail(q) = <<>> /\ Head(q).map = d
              /\ Head(q).kind \notin {"save", "point"} => PointLast(Tail(q), d)
<1>1. Len(q) \in Nat /\ DOMAIN q = 1..Len(q)
  BY LenProperties
<1>2. ASSUME NEW s \in T, NEW p \in T, ~Has(q, "point"), s.kind = "save", p.kind = "point", s.map = p.map
      PROVE  PointLast(Append(Append(q, s), p), d)
  <2>1. PICK r : r = Append(q, s)
    OBVIOUS
  <2>2. /\ r \in Seq(T) /\ Len(r) = Len(q) + 1 /\ DOMAIN r = 1..(Len(q) + 1)
        /\ \A i \in 1..Len(q) : r[i] = q[i]
        /\ r[Len(q) + 1] = s
    BY <1>1, <2>1, AppendProperties, LenProperties
  <2>3. PICK z : z = Append(r, p)
    OBVIOUS
  <2>4. /\ z \in Seq(T) /\ Len(z) = Len(q) + 2 /\ DOMAIN z = 1..(Len(q) + 2)
        /\ \A i \in 1..(Len(q) + 1) : z[i] = r[i]
        /\ z[Len(q) + 2] = p
    BY <1>1, <2>2, <2>3, AppendProperties, LenProperties
  <2>5. \A i \in DOMAIN z : z[i].kind = "point" => i = Len(z)
    BY <1>1, <1>2, <2>2, <2>4 DEF Has
  <2>6. Len(z) # 1 /\ z[Len(z)] = p /\ z[Len(z) - 1] = s
    BY <1>1, <2>2, <2>4
  <2>7. PointLast(z, d)
    BY <1>2, <2>5, <2>6 DEF PointLast
  <2> QED BY <2>1, <2>3, <2>7
<1>3. ASSUME q # <<>>, PointLast(q, d)
      PROVE  /\ Head(q).kind = "save" => PointLast(Tail(q), Head(q).map)
             /\ Head(q).kind = "point" => Tail(q) = <<>> /\ Head(q).map = d
             /\ Head(q).kind \notin {"save", "point"} => PointLast(Tail(q), d)
  <2>1. Len(q) \in Nat \ {0} /\ Head(q) = q[1]
    BY <1>3, EmptySeq, LenProperties
  <2>2. /\ Tail(q) \in Seq(T) /\ Len(Tail(q)) = Len(q) - 1
        /\ \A i \in 1..(Len(q) - 1) : Tail(q)[i] = q[i + 1]
    BY <1>3, HeadTailProperties
  <2>3. DOMAIN Tail(q) = 1..(Len(q) - 1)
    BY <2>2, LenProperties
  <2>4. Head(q).kind = "point" => Tail(q) = <<>> /\ Head(q).map = d
    BY <1>1, <1>3, <2>1, <2>2, EmptySeq DEF PointLast
  <2>5. ASSUME NEW i \in 1..(Len(q) - 1), Tail(q)[i].kind = "point"
        PROVE  /\ i = Len(Tail(q))
               /\ i # 1 => Tail(q)[i - 1].kind = "save" /\ Tail(q)[i - 1].map = Tail(q)[i].map
               /\ i = 1 => Head(q).kind = "save" /\ Tail(q)[i].map = Head(q).map
    <3>1. i + 1 \in DOMAIN q /\ q[i + 1] = Tail(q)[i]
      BY <1>1, <2>1, <2>2
    <3>2. /\ i + 1 = Len(q) /\ i + 1 # 1
          /\ q[(i + 1) - 1].kind = "save" /\ q[(i + 1) - 1].map = q[i + 1].map
      BY <1>3, <2>5, <3>1 DEF PointLast
    <3>3. q[i].kind = "save" /\ q[i].map = q[i + 1].map
      BY <3>2
    <3>4. i # 1 => i - 1 \in 1..(Len(q) - 1) /\ Tail(q)[i - 1] = q[i]
      BY <2>2
    <3>5. i = Len(Tail(q))
      <4>1. Len(Tail(q)) = Len(q) - 1
        BY <2>2
      <4>2. i + 1 = Len(q)
        BY <3>2
      <4>3. i \in Int /\ Len(q) \in Int
        BY <1>1
      <4> QED BY <4>1, <4>2, <4>3
    <3>6. i # 1 => Tail(q)[i - 1].kind = "save" /\ Tail(q)[i - 1].map = Tail(q)[i].map
      BY <3>1, <3>3, <3>4
    <3>7. i = 1 => Head(q).kind = "save" /\ Tail(q)[i].map = Head(q).map
      BY <2>1, <3>1, <3>3
    <3> QED BY <3>5, <3>6, <3>7
  <2>6. Head(q).kind = "save" => PointLast(Tail(q), Head(q).map)
    BY <2>3, <2>5 DEF PointLast
  <2>7. Head(q).kind \notin {"save", "point"} => PointLast(Tail(q), d)
    BY <2>3, <2>5 DEF PointLast
  <2> QED BY <2>4, <2>6, <2>7
<1> QED BY <1>2, <1>3 DEF PointLast, Has

LEMMA PointsFrame ==
  ASSUME QueuesOK, Points, UNCHANGED <<query, answer, dbMap>>, NEW m \in Map,
         \/ UNCHANGED toAgent
         \/ toAgent[m] # <<>> /\ Received(m)
         \/ \E x \in ToAgentMsg : x.kind # "mapOut" /\ SendAgent(m, x)
  PROVE  Points'
<1> SUFFICES ASSUME NEW n \in Map
             PROVE  Has(toAgent'[n], "mapOut") =>
                      Has(toAgent[n], "mapOut") /\ \A d : Says(toAgent[n], "mapOut", d) => Says(toAgent'[n], "mapOut", d)
  BY DEF Points, PointAt
<1>1. CASE toAgent[m] # <<>> /\ Received(m)
  <2>1. Shrunk(toAgent, toAgent', m) /\ toAgent[m] \in Seq(ToAgentMsg) /\ toAgent'[m] = Tail(toAgent[m])
    BY <1>1, QueueSizes DEF Received, QueuesOK
  <2>2. \A d : Says(toAgent[m], "mapOut", d) => Says(toAgent'[m], "mapOut", d)
    BY <1>1, <2>1, SaysSteps
  <2> QED BY <2>1, <2>2 DEF Shrunk
<1>2. ASSUME NEW x \in ToAgentMsg, x.kind # "mapOut", SendAgent(m, x)
      PROVE  Has(toAgent'[n], "mapOut") =>
               Has(toAgent[n], "mapOut") /\ \A d : Says(toAgent[n], "mapOut", d) => Says(toAgent'[n], "mapOut", d)
  <2>1. Grown(toAgent, toAgent', m, x) /\ toAgent[m] \in Seq(ToAgentMsg) /\ toAgent'[m] = Append(toAgent[m], x)
    BY <1>2, QueueSizes DEF SendAgent, QueuesOK
  <2>2. \A d : Says(toAgent[m], "mapOut", d) => Says(toAgent'[m], "mapOut", d)
    BY <1>2, <2>1, SaysSteps
  <2> QED BY <1>2, <2>1, <2>2 DEF Grown
<1> QED BY <1>1, <1>2

\* Nothing says where a change of the map leads to if none is under way.
LEMMA NoPoints ==
  ASSUME QueuesOK', \A n \in Map : ~Asked(n, "point")' /\ ~Asked(n, "pointAnswer")' /\ ~Asked(n, "mapOut")'
  PROVE  Points'
<1> SUFFICES ASSUME NEW n \in Map PROVE PointAt(n)'
  BY DEF Points
<1>1. query'[n] \in Seq(Query)
  BY DEF QueuesOK
<1>2. ~Has(query'[n], "point") /\ ~Has(answer'[n], "point") /\ ~Has(toAgent'[n], "mapOut")
  BY DEF Asked
<1>3. PointLast(query'[n], dbMap')
  BY <1>1, <1>2, PointSteps
<1> QED BY <1>2, <1>3 DEF PointAt

LEMMA HomeFrame ==
  ASSUME Home, UNCHANGED <<query, dbMap>>,
         \A n \in Map : (Seat(n)' => Seat(n)) /\ (Goes(n) => Goes(n)')
  PROVE  Home'
BY DEF Home

LEMMA AttendedTaken ==
  ASSUME QueuesOK, Attended, NEW m \in Map, toMap[m] # <<>>, Taken(m), UNCHANGED <<at, session>>,
         \A n \in Map : n # m => player'[n] = player[n],
         Present(m)' => \/ /\ Present(m) /\ player'[m].key = player[m].key
                           /\ Head(toMap[m]).kind \notin Removing
                        \/ Head(toMap[m]).kind = "gameinSyn" /\ player'[m].key = Head(toMap[m]).key
  PROVE  Attended'
<1> SUFFICES ASSUME NEW n \in Map PROVE AttendedAt(n)'
  BY DEF Attended
<1>1. toMap[m] \in Seq(ToMapMsg) /\ toMap'[m] = Tail(toMap[m]) /\ Shrunk(toMap, toMap', m)
  BY QueueSizes DEF Taken, QueuesOK
<1>2. AttendedAt(n) /\ Expected(n)' = Expected(n)
  BY DEF Attended, Expected
<1>3. CASE n # m
  BY <1>1, <1>2, <1>3 DEF AttendedAt, Shrunk, Present
<1>4. CASE n = m
  <2>1. /\ Behind(toMap'[m], Expected(m))
        /\ Head(toMap[m]).kind = "gameinSyn" =>
             Head(toMap[m]).key = Expected(m) \/ Has(toMap'[m], "disconnected")
    BY <1>1, <1>2, <1>4, TailBehind DEF AttendedAt
  <2>2. ASSUME Present(m)'
        PROVE  player'[m].key = Expected(m) \/ \E k \in Removing : Has(toMap'[m], k)
    <3>1. CASE Head(toMap[m]).kind = "gameinSyn" /\ player'[m].key = Head(toMap[m]).key
      BY <2>1, <3>1 DEF Removing
    <3>2. CASE /\ Present(m) /\ player'[m].key = player[m].key
               /\ Head(toMap[m]).kind \notin Removing
      <4>1. \A k \in Removing : Has(toMap[m], k) => Has(toMap'[m], k)
        BY <1>1, <3>2 DEF Shrunk
      <4> QED BY <1>2, <1>4, <3>2, <4>1 DEF AttendedAt
    <3> QED BY <2>2, <3>1, <3>2
  <2> QED BY <1>2, <1>4, <2>1, <2>2 DEF AttendedAt
<1> QED BY <1>3, <1>4

\* A step that leaves the queues to the maps alone.
LEMMA AttendedSame ==
  ASSUME Attended, UNCHANGED <<toMap, at, session>>,
         \A n \in Map : Present(n)' => Present(n) /\ player'[n].key = player[n].key
  PROVE  Attended'
<1> SUFFICES ASSUME NEW n \in Map PROVE AttendedAt(n)'
  BY DEF Attended
<1>1. AttendedAt(n) /\ Expected(n)' = Expected(n)
  BY DEF Attended, Expected
<1> QED BY <1>1 DEF AttendedAt

(***************************************************************************)
(* The map servers.                                                        *)
(***************************************************************************)

\* A map server's first message is taken; the agent may be sent one that is not a
\* request.
LEMMA TakenAsked ==
  ASSUME QueuesOK, OnceEach, NEW m \in Map, toMap[m] # <<>>, Taken(m)
  PROVE  /\ \A n \in Map : /\ \A k : Has(toMap'[n], k) => Has(toMap[n], k)
                           /\ \A k \in {"changeMap", "back", "gameinSyn"} : Once(toMap'[n], k)
                           /\ Comes(n)' => Comes(n)
         /\ Head(toMap[m]).kind = "gameinSyn" => Comes(m) /\ ~Comes(m)'
         /\ Head(toMap[m]).kind = "changeMap" => Has(toMap[m], "changeMap") /\ ~Has(toMap'[m], "changeMap")
         /\ Head(toMap[m]).kind = "back" => Has(toMap[m], "back") /\ ~Has(toMap'[m], "back")
<1>1. Shrunk(toMap, toMap', m)
  BY QueueSizes
<1>2. \A k \in {"changeMap", "back", "gameinSyn"} : Once(toMap[m], k)
  BY DEF OnceEach
<1>3. \A n \in Map, k \in {"changeMap", "back", "gameinSyn"} : Once(toMap'[n], k)
  BY <1>1 DEF Shrunk, OnceEach
<1> QED BY <1>1, <1>2, <1>3 DEF Shrunk, Comes

\* One query (then s is d) or two are added to a map server's queue.
Queued(m, s, d) ==
  \/ query' = [query EXCEPT ![m] = Append(@, s)] /\ d = s
  \/ query' = [query EXCEPT ![m] = Append(Append(@, s), d)] /\ s.kind # d.kind

LEMMA Queries ==
  ASSUME QueuesOK, NEW m \in Map, NEW s \in Query, NEW d \in Query, Queued(m, s, d)
  PROVE  /\ \A n \in Map : n # m => query'[n] = query[n]
         /\ \A k : Has(query'[m], k) <=> Has(query[m], k) \/ s.kind = k \/ d.kind = k
         /\ \A k : Once(query[m], k) /\ (s.kind = k \/ d.kind = k => ~Has(query[m], k))
                   => Once(query'[m], k)
         /\ \A k, n : Says(query[m], k, n) /\ (s.kind = k => s.map = n) /\ (d.kind = k => d.map = n)
                        => Says(query'[m], k, n)
<1>1. query[m] \in Seq(Query)
  BY DEF QueuesOK
<1>2. PICK q \in Seq(Query) : q = Append(query[m], s)
  BY <1>1, AppendHas
<1>3. /\ \A k : Has(q, k) <=> Has(query[m], k) \/ s.kind = k
      /\ \A k : Once(query[m], k) /\ (s.kind = k => ~Has(query[m], k)) => Once(q, k)
      /\ \A k, n : Says(query[m], k, n) /\ (s.kind = k => s.map = n) => Says(q, k, n)
  BY <1>1, <1>2, AppendHas, SaysSteps
<1>4. \A n \in Map : n # m => query'[n] = query[n]
  BY DEF QueuesOK, Queued
<1>5. CASE query' = [query EXCEPT ![m] = Append(@, s)] /\ d = s
  <2>1. query'[m] = q
    BY <1>2, <1>5 DEF QueuesOK
  <2> QED BY <1>3, <1>4, <1>5, <2>1
<1>6. CASE query' = [query EXCEPT ![m] = Append(Append(@, s), d)] /\ s.kind # d.kind
  <2>1. query'[m] = Append(q, d)
    BY <1>2, <1>6 DEF QueuesOK
  <2>2. /\ \A k : Has(Append(q, d), k) <=> Has(q, k) \/ d.kind = k
        /\ \A k : Once(q, k) /\ (d.kind = k => ~Has(q, k)) => Once(Append(q, d), k)
        /\ \A k, n : Says(q, k, n) /\ (d.kind = k => d.map = n) => Says(Append(q, d), k, n)
    BY AppendHas, SaysSteps
  <2> QED BY <1>3, <1>4, <1>6, <2>1, <2>2
<1> QED BY <1>5, <1>6 DEF Queued

LEMMA GameInSynCalm ==
  ASSUME QueuesOK, RestOK, QueuesOK', Calm, NEW m \in Map, GameInSyn(m)
  PROVE  Calm'
<1>1. /\ toMap[m] # <<>> /\ Head(toMap[m]).kind = "gameinSyn" /\ Taken(m)
      /\ UNCHANGED <<agentVars, clientVars, answer, dbMap>>
  BY DEF GameInSyn, HeadOf
<1>2. Comes(m) /\ ~Comes(m)' /\ \A n \in Map : Comes(n)' => Comes(n)
  BY <1>1, TakenAsked DEF Calm
<1>3. ~Present(m) /\ UNCHANGED toAgent
  BY <1>2 DEF Calm, OneCharacter, GameInSyn
<1>4. /\ \A n \in Map : n # m => player'[n] = player[n]
      /\ Present(m)' => player'[m].key = Head(toMap[m]).key
      /\ query' = [query EXCEPT ![m] = Append(Append(@, Msg("info")), Msg("rest"))]
  <2>1. /\ player' = [player EXCEPT ![m] = [key |-> Head(toMap[m]).key, info |-> FALSE, rest |-> FALSE]]
        /\ query' = [query EXCEPT ![m] = @ \o <<Msg("info"), Msg("rest")>>]
    BY <1>3 DEF GameInSyn
  <2>2. query[m] \o <<Msg("info"), Msg("rest")>> = Append(Append(query[m], Msg("info")), Msg("rest"))
    BY MessageTypes, TwoAppended DEF QueuesOK
  <2> QED BY <2>1, <2>2 DEF RestOK
<1>5. /\ \A n \in Map : \A k \in {"point", "back", "save"} : Has(query'[n], k) <=> Has(query[n], k)
      /\ \A n \in Map : \A k \in {"point", "back"} : Once(query[n], k) => Once(query'[n], k)
      /\ \A n, z \in Map : Says(query[n], "save", z) => Says(query'[n], "save", z)
  <2>1. PICK s \in Query, d \in Query : s = Msg("info") /\ d = Msg("rest")
    BY MessageTypes
  <2>2. Queued(m, s, d) /\ s.kind = "info" /\ d.kind = "rest"
    BY <1>4, <2>1, Kinds DEF Queued
  <2>3. /\ \A n \in Map : n # m => query'[n] = query[n]
        /\ \A k \in {"point", "back", "save"} : Has(query'[m], k) <=> Has(query[m], k)
        /\ \A k \in {"point", "back"} : Once(query[m], k) => Once(query'[m], k)
        /\ \A z \in Map : Says(query[m], "save", z) => Says(query'[m], "save", z)
    BY <2>2, Queries
  <2> QED BY <2>3
<1>6. OnceEach'
  BY <1>1, <1>3, <1>5, TakenAsked DEF Calm, OnceEach
<1>7. \A n \in Map, t \in Stage : Asked(n, t)' => Asked(n, t)
  BY <1>1, <1>3, <1>5, TakenAsked DEF Calm, Asked
<1>8. \A n \in Map : Saving(n)' => Saving(n)
  BY <1>5 DEF Saving
<1>9. Settling
  BY <1>2, <1>4, <1>8 DEF Settling, Present
<1>10. Whereabouts'
  BY <1>1, <1>7, <1>9, Fewer DEF Calm, Whereabouts, agentVars, clientVars, Clients
<1>11. Points'
  BY <1>2, <1>7, NoPoints DEF Calm, OneCharacter, OutStage, Stage, ToMove, ToLeave
<1>12. Home'
  <2>1. \A n \in Map : Seat(n)' => Seat(n)
    BY <1>1, <1>7, <1>9 DEF Seat, Settling, agentVars
  <2>2. \A n \in Map : Seat(n) => n = m
    BY <1>2 DEF Calm, OneSeat, Seat
  <2>3. ~Goes(m)
    BY <1>2 DEF Calm, OneCharacter, OutStage, Goes
  <2> QED BY <1>1, <1>5, <2>1, <2>2, <2>3 DEF Calm, Home
<1>13. Attended'
  BY <1>1, <1>3, <1>4, AttendedTaken DEF Calm, agentVars, Removing
<1> QED BY <1>6, <1>10, <1>11, <1>12, <1>13 DEF Calm, Whereabouts

\* A message that leaves the player where it is, or finds none.
LEMMA QuietMessage ==
  ASSUME QueuesOK, RestOK, Calm, NEW m \in Map, toMap[m] # <<>>, Taken(m),
         Head(toMap[m]).kind # "gameinSyn", Present(m) => Head(toMap[m]).kind \notin Removing,
         UNCHANGED <<agentVars, clientVars, player, query, answer, dbMap>>,
         \/ UNCHANGED toAgent
         \/ \E x \in ToAgentMsg : /\ x.kind \in {"gameinNack", "loginCheckDelete"}
                                  /\ SendAgent(m, x)
  PROVE  Calm'
<1>1. \A n \in Map : \A k \in {"mapOut", "changeMapNack", "backAck"} :
        /\ Has(toAgent'[n], k) <=> Has(toAgent[n], k)
        /\ Once(toAgent[n], k) => Once(toAgent'[n], k)
  <2> SUFFICES ASSUME NEW x \in ToAgentMsg, x.kind \in {"gameinNack", "loginCheckDelete"}, SendAgent(m, x)
               PROVE  \A n \in Map : \A k \in {"mapOut", "changeMapNack", "backAck"} :
                        /\ Has(toAgent'[n], k) <=> Has(toAgent[n], k)
                        /\ Once(toAgent[n], k) => Once(toAgent'[n], k)
    OBVIOUS
  <2>1. Grown(toAgent, toAgent', m, x)
    BY QueueSizes
  <2> QED BY <2>1 DEF Grown
<1>2. OnceEach'
  BY <1>1, TakenAsked DEF Calm, OnceEach
<1>3. \A n \in Map, t \in Stage : Asked(n, t)' => Asked(n, t)
  BY <1>1, TakenAsked DEF Calm, Asked
<1>4. Settling
  BY TakenAsked DEF Calm, Settling, Saving, Present
<1>5. Whereabouts'
  BY <1>3, <1>4, Fewer DEF Calm, Whereabouts, agentVars, clientVars, Clients
<1>6. Points'
  BY PointsFrame DEF Calm
<1>7. Home'
  <2>1. \A n \in Map : Seat(n)' => Seat(n)
    BY <1>3, <1>4 DEF Seat, Settling, Present, agentVars
  <2>2. \A n \in Map : Goes(n) => Goes(n)'
    BY <1>1 DEF Goes, Asked
  <2> QED BY <2>1, <2>2, HomeFrame DEF Calm
<1>8. Attended'
  BY AttendedTaken DEF Calm, agentVars, Present
<1> QED BY <1>2, <1>5, <1>6, <1>7, <1>8 DEF Calm, Whereabouts

\* The player goes, with or without a query that is not a request, and the save says
\* this map.
LEMMA LogsOut ==
  ASSUME QueuesOK, RestOK, QueuesOK', Calm, NEW m \in Map, toMap[m] # <<>>, Taken(m),
         Head(toMap[m]).kind # "gameinSyn", Present(m),
         UNCHANGED <<agentVars, clientVars, toAgent, answer, dbMap>>,
         \/ RemovePlayer(m, m, <<>>, <<>>)
         \/ \E d \in Query : d.kind = "out" /\ RemovePlayer(m, m, <<>>, <<d>>)
  PROVE  Calm'
<1>1. PICK s \in Query, d \in Query :
        s.kind = "save" /\ s.map = m /\ (d = s \/ d.kind = "out") /\ Queued(m, s, d)
  <2>1. PICK s \in Query : s = Save(m, Inited(m))
    BY Removal
  <2>2. s.kind = "save" /\ s.map = m
    BY <2>1, Kinds
  <2>3. CASE RemovePlayer(m, m, <<>>, <<>>)
    BY <2>1, <2>2, <2>3, Removal DEF Queued
  <2>4. ASSUME NEW d \in Query, d.kind = "out", RemovePlayer(m, m, <<>>, <<d>>)
        PROVE  Queued(m, s, d)
    BY <2>1, <2>2, <2>4, Removal DEF Queued
  <2> QED BY <2>2, <2>3, <2>4
<1>2. /\ \A n \in Map : n # m => query'[n] = query[n]
      /\ \A n \in Map : \A k \in {"point", "back"} : Has(query'[n], k) <=> Has(query[n], k)
      /\ \A n \in Map : \A k \in {"point", "back"} : Once(query[n], k) => Once(query'[n], k)
      /\ Says(query[m], "save", m) => Says(query'[m], "save", m)
  <2>1. /\ \A n \in Map : n # m => query'[n] = query[n]
        /\ \A k : Has(query'[m], k) <=> Has(query[m], k) \/ s.kind = k \/ d.kind = k
        /\ \A k : Once(query[m], k) /\ (s.kind = k \/ d.kind = k => ~Has(query[m], k))
                  => Once(query'[m], k)
        /\ \A k, n : Says(query[m], k, n) /\ (s.kind = k => s.map = n) /\ (d.kind = k => d.map = n)
                       => Says(query'[m], k, n)
    BY <1>1, Queries
  <2> QED BY <1>1, <2>1
<1>3. ~Present(m)' /\ \A n \in Map : n # m => player'[n] = player[n]
  BY DEF RemovePlayer, RestOK, Present
<1>4. OnceEach'
  BY <1>2, TakenAsked DEF Calm, OnceEach
<1>5. \A n \in Map, t \in Stage : Asked(n, t)' => Asked(n, t)
  BY <1>2, TakenAsked DEF Calm, Asked
<1>6. Settling
  BY <1>2, <1>3, TakenAsked DEF Calm, Settling, Saving, Present
<1>7. Whereabouts'
  BY <1>5, <1>6, Fewer DEF Calm, Whereabouts, agentVars, clientVars, Clients
<1>8. Points'
  BY <1>5, NoPoints DEF Calm, OneCharacter, OutStage, Stage, ToMove, ToLeave
<1>9. Home'
  <2>1. \A n \in Map : Seat(n)' => Seat(n)
    BY <1>5, <1>6 DEF Seat, Settling, agentVars
  <2>2. \A n \in Map : Seat(n) => n = m
    BY DEF Calm, OneSeat, Seat
  <2>3. Seat(m) /\ ~Goes(m)
    BY DEF Calm, OneCharacter, OutStage, Goes, Seat
  <2> QED BY <1>2, <2>1, <2>2, <2>3 DEF Calm, Home
<1>10. Attended'
  BY <1>3, AttendedTaken DEF Calm, agentVars
<1> QED BY <1>4, <1>7, <1>8, <1>9, <1>10 DEF Calm, Whereabouts

LEMMA RemovedCalm ==
  ASSUME QueuesOK, RestOK, QueuesOK', Calm, NEW m \in Map, Removed(m) \/ Disconnected(m)
  PROVE  Calm'
<1>1. /\ toMap[m] # <<>> /\ Taken(m) /\ Head(toMap[m]).kind # "gameinSyn"
      /\ UNCHANGED <<agentVars, clientVars, answer, dbMap>>
  BY DEF Removed, Disconnected, HeadOf
<1>2. CASE ~Present(m)
  <2>1. Out("loginCheckDelete", TRUE) \in ToAgentMsg /\ Out("loginCheckDelete", TRUE).kind = "loginCheckDelete"
    BY MessageTypes, Kinds
  <2>2. /\ UNCHANGED <<player, query>>
        /\ UNCHANGED toAgent \/ SendAgent(m, Out("loginCheckDelete", TRUE))
    BY <1>2 DEF Removed, Disconnected
  <2> QED BY <1>1, <1>2, <2>1, <2>2, QuietMessage
<1>3. CASE Present(m)
  <2>1. Out("out", player[m].info) \in Query /\ Out("out", player[m].info).kind = "out"
    BY <1>3, MessageTypes, Kinds DEF Present, RestOK
  <2>2. /\ UNCHANGED toAgent
        /\ RemovePlayer(m, m, <<>>, <<>>) \/ RemovePlayer(m, m, <<>>, <<Out("out", player[m].info)>>)
    BY <1>3 DEF Removed, Disconnected
  <2> QED BY <1>1, <1>3, <2>1, <2>2, LogsOut
<1> QED BY <1>2, <1>3

\* A map server refuses to change the map.
LEMMA ChangeMapRefused ==
  ASSUME QueuesOK, RestOK, Calm, NEW m \in Map, toMap[m] # <<>>, Taken(m),
         Head(toMap[m]).kind = "changeMap",
         UNCHANGED <<agentVars, clientVars, player, query, answer, dbMap>>,
         SendAgent(m, Msg("changeMapNack"))
  PROVE  Calm'
<1>1. PICK x \in ToAgentMsg : x = Msg("changeMapNack")
  BY MessageTypes
<1>2. x.kind = "changeMapNack" /\ SendAgent(m, x)
  BY <1>1, Kinds
<1>3. Grown(toAgent, toAgent', m, x)
  BY <1>2, QueueSizes
<1>4. Asked(m, "changeMap") /\ ~Has(toMap'[m], "changeMap")
  BY TakenAsked DEF Calm, Asked
<1>5. ~Has(toAgent[m], "changeMapNack")
  BY <1>4 DEF Calm, OneRequest, Asked, Stage, ToMove
<1>6. \A n \in Map : \A k \in {"mapOut", "changeMapNack", "backAck"} :
        /\ Has(toAgent'[n], k) <=> Has(toAgent[n], k) \/ (n = m /\ k = "changeMapNack")
        /\ Once(toAgent[n], k) => Once(toAgent'[n], k)
  BY <1>2, <1>3, <1>5 DEF Grown
<1>7. OnceEach'
  BY <1>6, TakenAsked DEF Calm, OnceEach
<1>8. \A n \in Map, v \in Stage : Asked(n, v)' =>
        (n = m /\ v = "changeMapNack") \/ (Asked(n, v) /\ ~(n = m /\ v = "changeMap"))
  BY <1>4, <1>6, TakenAsked DEF Calm, Asked
<1>9. Settling
  BY TakenAsked DEF Calm, Settling, Saving, Present
<1>10. Whereabouts'
  <2>1. /\ "changeMap" \in Stage /\ "changeMapNack" \in Stage
        /\ "changeMap" \in ToMove /\ "changeMapNack" \in ToMove
        /\ "changeMapNack" \notin OutStage
    BY DEF Stage, ToMove, OutStage
  <2>2. Whereabouts /\ \A n \in Map : Present(n)' => Present(n)
    BY DEF Calm, Whereabouts, Present
  <2> QED BY <1>4, <1>8, <1>9, <2>1, <2>2, Onward DEF agentVars, clientVars
<1>11. Points'
  BY <1>2, PointsFrame DEF Calm
<1>12. Home'
  <2>1. \A n \in Map : Seat(n)' => Seat(n)
    BY <1>4, <1>8, <1>9 DEF Seat, Settling, Present, agentVars, Stage, ToMove
  <2>2. \A n \in Map : Goes(n) => Goes(n)'
    BY <1>6 DEF Goes, Asked
  <2> QED BY <2>1, <2>2, HomeFrame DEF Calm
<1>13. Attended'
  BY AttendedTaken DEF Calm, agentVars, Present, Removing
<1> QED BY <1>7, <1>10, <1>11, <1>12, <1>13 DEF Calm, Whereabouts

\* The player goes with a request: for another map, or for the list.
LEMMA GoesAway ==
  ASSUME QueuesOK, RestOK, QueuesOK', Calm, NEW m \in Map, toMap[m] # <<>>, Taken(m),
         UNCHANGED <<agentVars, clientVars, toAgent, answer, dbMap>>, Present(m),
         player' = [player EXCEPT ![m] = NoPlayer],
         NEW t \in Stage, NEW u \in Stage, NEW k \in {"point", "back"},
         Head(toMap[m]).kind = t,
         \/ t = "changeMap" /\ u = "point" /\ k = "point"
         \/ t = "back" /\ u = "confirm" /\ k = "back",
         NEW s \in Query, NEW d \in Query, Queued(m, s, d),
         \/ s.kind = k /\ d.kind = "save"
         \/ s.kind = "save" /\ d.kind = k
  PROVE  /\ OnceEach' /\ Whereabouts' /\ Attended'
         /\ \A n \in Map, v \in Stage : Asked(n, v)' => n = m /\ v = u
         /\ \A n \in Map : Seat(n)' => n = m
         /\ ~Has(query[m], "point")
<1>1. Asked(m, t) /\ ~Has(toMap'[m], t)
  BY TakenAsked DEF Calm, Asked
<1>2. ~Has(query[m], "point") /\ ~Has(query[m], "back")
  BY <1>1 DEF Calm, OneRequest, Asked, Stage, ToMove, ToLeave
<1>3. /\ \A n \in Map : n # m => query'[n] = query[n]
      /\ \A j : Has(query'[m], j) <=> Has(query[m], j) \/ s.kind = j \/ d.kind = j
      /\ \A j : Once(query[m], j) /\ (s.kind = j \/ d.kind = j => ~Has(query[m], j))
                => Once(query'[m], j)
  BY Queries
<1>4. \A n \in Map : \A j \in {"point", "back"} :
        /\ Has(query'[n], j) <=> Has(query[n], j) \/ (n = m /\ j = k)
        /\ Once(query[n], j) => Once(query'[n], j)
  BY <1>2, <1>3
<1>5. OnceEach'
  BY <1>4, TakenAsked DEF Calm, OnceEach
<1>6. ~Present(m)' /\ \A n \in Map : n # m => player'[n] = player[n]
  BY DEF RestOK, Present
<1>7. \A n \in Map, v \in Stage : Asked(n, v)' => \/ n = m /\ v = u
                                                  \/ Asked(n, v) /\ ~(n = m /\ v = t)
  BY <1>1, <1>4, TakenAsked DEF Calm, Asked
<1>8. Settling
  BY <1>3, <1>6, TakenAsked DEF Calm, Settling, Saving, Present
<1>9. Whereabouts' /\ \A n \in Map, v \in Stage : Asked(n, v)' => n = m /\ v = u
  <2>1. t \in ToMove <=> u \in ToMove
    BY DEF ToMove
  <2>2. Whereabouts /\ \A n \in Map : Present(n)' => Present(n)
    BY <1>6 DEF Calm, Whereabouts, Present
  <2>3. UNCHANGED <<at, session, listing, client, backup, list>>
    BY DEF agentVars, clientVars
  <2> QED BY <1>1, <1>6, <1>7, <1>8, <2>1, <2>2, <2>3, Onward
<1>10. \A n \in Map : Seat(n)' => n = m
  <2>1. \A n \in Map : Seat(n)' => Seat(n)
    BY <1>1, <1>8, <1>9 DEF Seat, Settling, agentVars
  <2> QED BY <2>1 DEF Calm, OneSeat, Seat
<1>11. Attended'
  BY <1>6, AttendedTaken DEF Calm, agentVars, Present, Removing
<1> QED BY <1>2, <1>5, <1>9, <1>10, <1>11

LEMMA ChangeMapCalm ==
  ASSUME QueuesOK, RestOK, QueuesOK', Calm, NEW m \in Map, ChangeMap(m)
  PROVE  Calm'
<1>1. /\ toMap[m] # <<>> /\ Taken(m) /\ Head(toMap[m]).kind = "changeMap"
      /\ UNCHANGED <<agentVars, clientVars, answer, dbMap>>
  BY DEF ChangeMap, HeadOf
<1>2. PICK target \in Map : target = Head(toMap[m]).map
  BY <1>1, Heads, Carried
<1>3. CASE UNCHANGED <<player, query, toAgent>>
  BY <1>1, <1>3, QuietMessage DEF Removing
<1>4. CASE SendAgent(m, Msg("changeMapNack")) /\ UNCHANGED <<player, query>>
  BY <1>1, <1>4, ChangeMapRefused
<1>5. CASE Inited(m) /\ RemovePlayer(m, target, <<>>, <<MsgTo("point", target)>>) /\ UNCHANGED toAgent
  <2>1. PICK s \in Query, d \in Query : s = Save(target, Inited(m)) /\ d = MsgTo("point", target)
    BY <1>5, Removal, MessageTypes DEF Inited
  <2>2. s.kind = "save" /\ s.map = target /\ d.kind = "point" /\ d.map = target
    BY <2>1, Kinds
  <2>3. /\ Present(m) /\ player' = [player EXCEPT ![m] = NoPlayer]
        /\ query' = [query EXCEPT ![m] = Append(Append(@, s), d)]
    <3>1. Present(m) /\ player' = [player EXCEPT ![m] = NoPlayer]
      BY <1>5 DEF Inited, RemovePlayer
    <3>2. RemovePlayer(m, target, <<>>, <<d>>)
      BY <1>5, <2>1
    <3>3. query' = [query EXCEPT ![m] = Append(Append(@, s), d)]
      BY <2>1, <3>1, <3>2, Removal
    <3> QED BY <3>1, <3>3
  <2>4. Queued(m, s, d)
    BY <2>2, <2>3 DEF Queued
  <2>5. "changeMap" \in Stage /\ "point" \in Stage
    BY DEF Stage, ToMove
  <2>6. /\ OnceEach' /\ Whereabouts' /\ Attended' /\ ~Has(query[m], "point")
        /\ \A n \in Map, v \in Stage : Asked(n, v)' => n = m /\ v = "point"
        /\ \A n \in Map : Seat(n)' => n = m
    BY <1>1, <1>5, <2>2, <2>3, <2>4, <2>5, GoesAway
  <2>7. PointLast(query'[m], dbMap')
    <3>1. query[m] \in Seq(Query) /\ query'[m] = Append(Append(query[m], s), d)
      BY <2>3 DEF QueuesOK
    <3> QED BY <2>2, <2>6, <3>1, PointSteps
  <2>8. Points'
    <3> SUFFICES ASSUME NEW n \in Map PROVE PointAt(n)'
      BY DEF Points
    <3>1. ~Has(answer'[n], "point") /\ ~Has(toAgent'[n], "mapOut")
      BY <2>6 DEF Asked, Stage, ToMove
    <3>2. n # m => ~Has(query'[n], "point")
      BY <2>5, <2>6 DEF Asked
    <3>3. n # m => PointLast(query'[n], dbMap')
      BY <3>2, PointSteps DEF QueuesOK
    <3> QED BY <2>7, <3>1, <3>3 DEF PointAt
  <2>9. Goes(m)'
    <3>1. Has(query'[m], "point")
      BY <2>2, <2>4, Queries
    <3> QED BY <3>1 DEF Goes, Asked
  <2>10. Home'
    BY <2>6, <2>9 DEF Home
  <2> QED BY <2>6, <2>8, <2>10 DEF Calm, Whereabouts
<1> QED BY <1>2, <1>3, <1>4, <1>5 DEF ChangeMap

LEMMA BackToCharSelCalm ==
  ASSUME QueuesOK, RestOK, QueuesOK', Calm, NEW m \in Map, BackToCharSel(m)
  PROVE  Calm'
<1>1. /\ toMap[m] # <<>> /\ Taken(m) /\ Head(toMap[m]).kind = "back"
      /\ UNCHANGED <<agentVars, clientVars, toAgent, answer, dbMap>>
  BY DEF BackToCharSel, HeadOf
<1>2. CASE ~Present(m)
  BY <1>1, <1>2, QuietMessage DEF BackToCharSel
<1>3. CASE Present(m)
  <2>1. RemovePlayer(m, m, <<Msg("back")>>, <<>>)
    BY <1>3 DEF BackToCharSel
  <2>2. PICK s \in Query, d \in Query : s = Msg("back") /\ d = Save(m, Inited(m))
    BY <1>3, Removal, MessageTypes
  <2>3. s.kind = "back" /\ d.kind = "save" /\ d.map = m
    BY <2>2, Kinds
  <2>4. /\ player' = [player EXCEPT ![m] = NoPlayer]
        /\ query' = [query EXCEPT ![m] = Append(Append(@, s), d)]
    BY <1>3, <2>1, <2>2, Removal DEF RemovePlayer
  <2>5. Queued(m, s, d)
    BY <2>3, <2>4 DEF Queued
  <2>6. "back" \in Stage /\ "confirm" \in Stage
    BY DEF Stage, ToLeave
  <2>7. /\ OnceEach' /\ Whereabouts' /\ Attended'
        /\ \A n \in Map, v \in Stage : Asked(n, v)' => n = m /\ v = "confirm"
        /\ \A n \in Map : Seat(n)' => n = m
    BY <1>1, <1>3, <2>3, <2>4, <2>5, <2>6, GoesAway
  <2>8. Points'
    BY <2>7, NoPoints DEF Stage, ToMove
  <2>9. Home'
    <3>1. Seat(m) /\ ~Goes(m)
      BY <1>3 DEF Calm, OneCharacter, OutStage, Goes, Seat
    <3>2. Says(query[m], "save", m) => Says(query'[m], "save", m)
      BY <2>3, <2>5, Queries
    <3> QED BY <1>1, <2>7, <3>1, <3>2 DEF Calm, Home
  <2> QED BY <2>7, <2>8, <2>9 DEF Calm, Whereabouts
<1> QED BY <1>2, <1>3

(***************************************************************************)
(* The database and its answers.                                           *)
(***************************************************************************)

LEMMA ExecuteSave ==
  ASSUME QueuesOK, RestOK, Calm, NEW m \in Map, Execute(m), Head(query[m]).kind = "save"
  PROVE  Calm'
<1>1. /\ query[m] # <<>> /\ query[m] \in Seq(Query) /\ query'[m] = Tail(query[m])
      /\ Shrunk(query, query', m) /\ dbMap' = Head(query[m]).map
      /\ UNCHANGED <<agentVars, clientVars, msgVars, player, answer>>
  BY QueueSizes DEF Execute, QueuesOK
<1>2. /\ \A n \in Map : \A k \in {"point", "back"} : Has(query'[n], k) <=> Has(query[n], k)
      /\ \A n \in Map : \A k \in {"point", "back"} : Once(query[n], k) => Once(query'[n], k)
      /\ \A n \in Map : Saving(n)' => Saving(n)
      /\ Saving(m)
  BY <1>1 DEF Shrunk, Saving
<1>3. OnceEach'
  BY <1>1, <1>2 DEF Calm, OnceEach, msgVars
<1>4. \A n \in Map, t \in Stage : Asked(n, t)' <=> Asked(n, t)
  BY <1>1, <1>2 DEF Asked, msgVars
<1>5. Settling
  BY <1>1, <1>2 DEF Settling, Comes, Present, msgVars
<1>6. Seat(m) /\ \A n \in Map : Seat(n)' => n = m
  <2>1. \A n \in Map : Seat(n)' => Seat(n)
    BY <1>1, <1>4, <1>5 DEF Seat, Settling, Present, agentVars
  <2> QED BY <1>2, <2>1 DEF Seat, Calm, OneSeat
<1>7. ~Goes(m) => dbMap = m /\ dbMap' = m /\ Says(query'[m], "save", m)
  <2> SUFFICES ASSUME ~Goes(m) PROVE dbMap = m /\ dbMap' = m /\ Says(query'[m], "save", m)
    OBVIOUS
  <2>1. dbMap = m /\ Says(query[m], "save", m)
    BY <1>6 DEF Calm, Home
  <2>2. Says(query'[m], "save", m) /\ Head(query[m]).map = m
    BY <1>1, <2>1, SaysSteps
  <2> QED BY <1>1, <2>1, <2>2
<1>8. Whereabouts'
  <2>1. client = "list" => ~Goes(m)
    BY DEF Calm, Clients, Nowhere, NoRequest, Goes, Stage, ToMove
  <2>2. client = "list" /\ ~listing /\ list' # NoMap => list' = dbMap'
    BY <1>1, <1>7, <2>1 DEF Calm, Clients, agentVars
  <2> QED BY <1>1, <1>4, <1>5, <2>2, Fewer DEF Calm, Whereabouts, agentVars, clientVars
<1>9. Points'
  <2> SUFFICES ASSUME NEW n \in Map PROVE PointAt(n)'
    BY DEF Points
  <2>1. CASE n = m
    <3>1. PointLast(query[m], dbMap) /\ ~Has(answer[m], "point") /\ ~Has(toAgent[m], "mapOut")
      BY <1>1 DEF Calm, Points, PointAt
    <3>2. PointLast(query'[m], dbMap')
      BY <1>1, <3>1, PointSteps
    <3> QED BY <1>1, <2>1, <3>1, <3>2 DEF PointAt, msgVars
  <2>2. CASE n # m
    <3>1. ~Seat(n)
      BY <1>6, <2>2 DEF Calm, OneSeat
    <3>2. ~Has(query[n], "point") /\ ~Has(answer[n], "point") /\ ~Has(toAgent[n], "mapOut")
      BY <3>1 DEF Seat, Asked, Stage, ToMove
    <3>3. query'[n] = query[n] /\ query[n] \in Seq(Query)
      BY <1>1, <2>2 DEF Shrunk, QueuesOK
    <3>4. PointLast(query'[n], dbMap')
      BY <3>2, <3>3, PointSteps
    <3> QED BY <1>1, <3>2, <3>4 DEF PointAt, msgVars
  <2> QED BY <2>1, <2>2
<1>10. Home'
  <2>1. Goes(m)' <=> Goes(m)
    BY <1>1, <1>2 DEF Goes, Asked, msgVars
  <2> QED BY <1>6, <1>7, <2>1 DEF Home
<1>11. Attended'
  BY <1>1, AttendedSame DEF Calm, agentVars, msgVars, Present
<1> QED BY <1>3, <1>8, <1>9, <1>10, <1>11 DEF Calm, Whereabouts

LEMMA ExecuteOther ==
  ASSUME QueuesOK, RestOK, QueuesOK', Calm, NEW m \in Map, Execute(m), Head(query[m]).kind # "save"
  PROVE  Calm'
<1>1. PICK x \in Answer : x = Head(query[m])
  BY Heads, Carried DEF Execute
<1>2. /\ query[m] # <<>> /\ query[m] \in Seq(Query) /\ query'[m] = Tail(query[m])
      /\ answer[m] \in Seq(Answer) /\ answer'[m] = Append(answer[m], x)
      /\ Shrunk(query, query', m) /\ Grown(answer, answer', m, x)
      /\ UNCHANGED <<agentVars, clientVars, msgVars, player, dbMap>>
  BY <1>1, QueueSizes DEF Execute, QueuesOK
<1>3. \A n \in Map : Saving(n)' <=> Saving(n)
  BY <1>1, <1>2 DEF Shrunk, Saving
<1>4. Settling
  BY <1>2, <1>3 DEF Settling, Comes, Present, msgVars
<1>5. \A k \in {"point", "back"} : x.kind = k => Has(query[m], k) /\ ~Has(query'[m], k) /\ ~Has(answer[m], k)
  <2>1. \A k \in {"point", "back"} : x.kind = k => Has(query[m], k) /\ ~Has(query'[m], k)
    BY <1>1, <1>2 DEF Shrunk, Calm, OnceEach
  <2>2. ~(Has(query[m], "point") /\ Has(answer[m], "point")) /\ ~(Has(query[m], "back") /\ Has(answer[m], "back"))
    BY DEF Calm, OneRequest, Asked, Stage, ToMove, ToLeave
  <2> QED BY <2>1, <2>2
<1>6. OnceEach'
  <2>1. \A n \in Map : \A k \in {"point", "back"} : Once(query'[n], k)
    BY <1>2 DEF Calm, OnceEach, Shrunk
  <2>2. \A n \in Map : \A k \in {"point", "back"} : Once(answer'[n], k)
    BY <1>2, <1>5 DEF Calm, OnceEach, Grown
  <2> QED BY <1>2, <2>1, <2>2 DEF Calm, OnceEach, msgVars
<1>7. \A n \in Map, t \in Stage : Asked(n, t)' =>
        \/ n = m /\ x.kind = "point" /\ t = "pointAnswer"
        \/ n = m /\ x.kind = "back" /\ t = "confirmAnswer"
        \/ Asked(n, t) /\ ~(n = m /\ x.kind = "point" /\ t = "point")
                       /\ ~(n = m /\ x.kind = "back" /\ t = "confirm")
  <2>1. UNCHANGED <<toMap, toAgent>>
    BY <1>2 DEF msgVars
  <2>2. \A n \in Map : \A k \in {"point", "back"} :
          /\ Has(query'[n], k) => Has(query[n], k)
          /\ Has(answer'[n], k) => Has(answer[n], k) \/ (n = m /\ x.kind = k)
    BY <1>1, <1>2 DEF Shrunk, Grown
  <2>3. ASSUME NEW n \in Map, NEW t \in Stage, Asked(n, t)'
        PROVE  \/ n = m /\ x.kind = "point" /\ t = "pointAnswer"
               \/ n = m /\ x.kind = "back" /\ t = "confirmAnswer"
               \/ Asked(n, t)
    <3>1. /\ Has(query'[n], "point") => Has(query[n], "point")
          /\ Has(query'[n], "back") => Has(query[n], "back")
          /\ Has(answer'[n], "point") => Has(answer[n], "point") \/ (n = m /\ x.kind = "point")
          /\ Has(answer'[n], "back") => Has(answer[n], "back") \/ (n = m /\ x.kind = "back")
      BY <2>2
    <3> QED BY <2>1, <2>3, <3>1 DEF Asked
  <2>4. x.kind = "point" => ~Asked(m, "point")'
    BY <1>5 DEF Asked
  <2>5. x.kind = "back" => ~Asked(m, "confirm")'
    BY <1>5 DEF Asked
  <2> QED BY <2>3, <2>4, <2>5
<1>8. /\ Whereabouts' /\ \A n \in Map : Seat(n)' => Seat(n)
      /\ x.kind = "point" => Seat(m)
  <2>1. Whereabouts /\ (client = "list" /\ ~listing /\ list' # NoMap => list' = dbMap')
        /\ UNCHANGED <<at, session, listing, client, backup, list>>
        /\ \A n \in Map : Present(n)' => Present(n)
    BY <1>2 DEF Calm, Whereabouts, Clients, agentVars, clientVars, Present
  <2>2. CASE x.kind = "point"
    <3>1. Asked(m, "point") /\ "point" \in Stage /\ "pointAnswer" \in Stage
          /\ "point" \in ToMove /\ "pointAnswer" \in ToMove /\ "point" \in OutStage
      BY <1>5, <2>2 DEF Asked, Stage, ToMove, OutStage
    <3>2. \A n \in Map, t \in Stage : Asked(n, t)' =>
            (n = m /\ t = "pointAnswer") \/ (Asked(n, t) /\ ~(n = m /\ t = "point"))
      BY <1>7, <2>2
    <3>3. Whereabouts' /\ \A n \in Map, t \in Stage : Asked(n, t)' => n = m /\ t = "pointAnswer"
      BY <1>4, <2>1, <3>1, <3>2, Onward
    <3>4. Seat(m)
      BY <3>1 DEF Seat
    <3>5. \A n \in Map : Seat(n)' => Seat(n)
      BY <1>2, <1>4, <3>3, <3>4 DEF Seat, Settling, Present, agentVars
    <3> QED BY <2>2, <3>3, <3>4, <3>5 DEF Stage, ToMove
  <2>3. CASE x.kind = "back"
    <3>1. Asked(m, "confirm") /\ "confirm" \in Stage /\ "confirmAnswer" \in Stage
          /\ "confirm" \notin ToMove /\ "confirmAnswer" \notin ToMove /\ "confirm" \in OutStage
      BY <1>5, <2>3 DEF Asked, Stage, ToMove, ToLeave, OutStage
    <3>2. \A n \in Map, t \in Stage : Asked(n, t)' =>
            (n = m /\ t = "confirmAnswer") \/ (Asked(n, t) /\ ~(n = m /\ t = "confirm"))
      BY <1>7, <2>3
    <3>3. Whereabouts' /\ \A n \in Map, t \in Stage : Asked(n, t)' => n = m /\ t = "confirmAnswer"
      BY <1>4, <2>1, <3>1, <3>2, Onward
    <3>4. Seat(m)
      BY <3>1 DEF Seat
    <3>5. \A n \in Map : Seat(n)' => Seat(n)
      BY <1>2, <1>4, <3>3, <3>4 DEF Seat, Settling, Present, agentVars
    <3> QED BY <2>3, <3>3, <3>4, <3>5 DEF Stage, ToMove
  <2>4. CASE x.kind \notin {"point", "back"}
    <3>1. \A n \in Map, t \in Stage : Asked(n, t)' => Asked(n, t)
      BY <1>7, <2>4
    <3>2. Whereabouts'
      BY <1>4, <2>1, <3>1, Fewer
    <3>3. \A n \in Map : Seat(n)' => Seat(n)
      BY <1>2, <1>4, <3>1 DEF Seat, Settling, Present, agentVars
    <3> QED BY <2>4, <3>2, <3>3
  <2> QED BY <2>2, <2>3, <2>4
<1>9. Points'
  <2>1. PointLast(query[m], dbMap) /\ ~Has(answer[m], "point") /\ ~Has(toAgent[m], "mapOut")
    BY <1>2 DEF Calm, Points, PointAt
  <2>2. /\ x.kind = "point" => query'[m] = <<>> /\ x.map = dbMap
        /\ x.kind # "point" => PointLast(query'[m], dbMap)
    BY <1>1, <1>2, <2>1, PointSteps
  <2>3. Says(answer[m], "point", dbMap)
    BY <1>2, <2>1, SaysSteps
  <2>4. x.kind = "point" => Says(answer'[m], "point", dbMap)
    BY <1>2, <2>2, <2>3, SaysSteps
  <2>5. PointLast(<<>>, dbMap)
    <3>1. <<>> \in Seq(Query)
      OBVIOUS
    <3> QED BY <3>1, EmptyHas, PointSteps
  <2>6. PointAt(m)'
    <3>1. x.kind # "point" => ~Has(answer'[m], "point")
      BY <1>2, <2>1 DEF Grown
    <3> QED BY <1>2, <2>1, <2>2, <2>4, <2>5, <3>1 DEF PointAt, msgVars
  <2>7. ASSUME NEW n \in Map, n # m PROVE PointAt(n)'
    <3>1. PointAt(n) /\ query'[n] = query[n] /\ answer'[n] = answer[n]
      BY <1>2, <2>7 DEF Calm, Points, Shrunk, Grown
    <3> QED BY <1>2, <3>1 DEF PointAt, msgVars
  <2> QED BY <2>6, <2>7 DEF Points
<1>10. Home'
  <2>1. CASE x.kind = "point"
    <3>1. Has(answer'[m], "point")
      BY <1>2, <2>1 DEF Grown
    <3>2. Goes(m)'
      BY <3>1 DEF Goes, Asked
    <3> QED BY <1>8, <2>1, <3>2 DEF Calm, OneSeat, Home
  <2>2. CASE x.kind # "point"
    <3>1. \A n \in Map : Goes(n) => Goes(n)'
      BY <1>1, <1>2, <2>2 DEF Goes, Asked, Shrunk, Grown, msgVars
    <3>2. \A n \in Map : Says(query[n], "save", n) => Says(query'[n], "save", n)
      <4>1. Says(query[m], "save", m) => Says(query'[m], "save", m)
        BY <1>2, SaysSteps
      <4> QED BY <1>2, <4>1 DEF Shrunk
    <3> QED BY <1>2, <1>8, <3>1, <3>2 DEF Calm, Home
  <2> QED BY <2>1, <2>2
<1>11. Attended'
  BY <1>2, AttendedSame DEF Calm, agentVars, msgVars, Present
<1> QED BY <1>6, <1>8, <1>9, <1>10, <1>11 DEF Calm, Whereabouts

\* The agent is sent the next stage of a request whose answer is taken.
LEMMA AnswersRequest ==
  ASSUME QueuesOK, RestOK, Calm, NEW m \in Map, HandleAnswer(m),
         NEW x \in ToAgentMsg, SendAgent(m, x), UNCHANGED player,
         NEW k \in {"point", "back"}, Head(answer[m]).kind = k,
         NEW t \in Stage, NEW u \in Stage, x.kind = u,
         \/ k = "point" /\ t = "pointAnswer" /\ u = "mapOut" /\ x.map = Head(answer[m]).map
         \/ k = "back" /\ t = "confirmAnswer" /\ u = "backAck"
  PROVE  Calm'
<1>1. /\ answer[m] # <<>> /\ answer[m] \in Seq(Answer) /\ answer'[m] = Tail(answer[m])
      /\ toAgent[m] \in Seq(ToAgentMsg) /\ toAgent'[m] = Append(toAgent[m], x)
      /\ Shrunk(answer, answer', m) /\ Grown(toAgent, toAgent', m, x)
      /\ UNCHANGED <<agentVars, clientVars, toMap, query, dbMap>>
  BY QueueSizes DEF HandleAnswer, SendAgent, QueuesOK
<1>2. Has(answer[m], k) /\ ~Has(answer'[m], k)
  BY <1>1 DEF Shrunk, Calm, OnceEach
<1>3. Asked(m, t)
  BY <1>2 DEF Asked
<1>4. ~Has(toAgent[m], u)
  <2>1. ~Asked(m, u)
    BY <1>3 DEF Calm, OneRequest
  <2> QED BY <2>1 DEF Asked
<1>5. OnceEach'
  <2>1. \A n \in Map : \A j \in {"mapOut", "changeMapNack", "backAck"} : Once(toAgent'[n], j)
    BY <1>1, <1>4 DEF Calm, OnceEach, Grown
  <2>2. \A n \in Map : \A j \in {"point", "back"} : Once(answer'[n], j)
    BY <1>1 DEF Calm, OnceEach, Shrunk
  <2> QED BY <1>1, <2>1, <2>2 DEF Calm, OnceEach
<1>6. \A n \in Map, v \in Stage : Asked(n, v)' => \/ n = m /\ v = u
                                                  \/ Asked(n, v) /\ ~(n = m /\ v = t)
  BY <1>1, <1>2 DEF Asked, Shrunk, Grown
<1>7. Settling
  BY <1>1 DEF Settling, Comes, Saving, Present
<1>8. Whereabouts' /\ \A n \in Map, v \in Stage : Asked(n, v)' => n = m /\ v = u
  <2>1. (t \in ToMove <=> u \in ToMove) /\ t \in OutStage
    BY DEF ToMove, OutStage
  <2>2. Whereabouts /\ UNCHANGED <<at, session, listing, client, backup, list>>
        /\ \A n \in Map : Present(n)' => Present(n)
    BY <1>1 DEF Calm, Whereabouts, agentVars, clientVars, Present
  <2> QED BY <1>3, <1>6, <1>7, <2>1, <2>2, Onward
<1>9. \A n \in Map : Seat(n)' => Seat(n) /\ n = m
  <2>1. \A n \in Map : Seat(n)' => Seat(n)
    BY <1>1, <1>3, <1>7, <1>8 DEF Seat, Settling, Present, agentVars
  <2> QED BY <1>3, <2>1 DEF Calm, OneSeat, Seat
<1>10. k = "point" => query[m] = <<>> /\ Says(toAgent'[m], "mapOut", dbMap)
  <2> SUFFICES ASSUME k = "point" PROVE query[m] = <<>> /\ Says(toAgent'[m], "mapOut", dbMap)
    OBVIOUS
  <2>1. query[m] = <<>> /\ Says(answer[m], "point", dbMap)
    BY <1>2 DEF Calm, Points, PointAt
  <2>2. Head(answer[m]).map = dbMap
    BY <1>1, <2>1, SaysSteps
  <2>3. Says(toAgent[m], "mapOut", dbMap)
    BY <1>1, <1>4, SaysSteps
  <2> QED BY <1>1, <2>1, <2>2, <2>3, SaysSteps
<1>11. Points'
  <2> SUFFICES ASSUME NEW n \in Map PROVE PointAt(n)'
    BY DEF Points
  <2>1. PointLast(query'[n], dbMap')
    BY <1>1 DEF Calm, Points, PointAt
  <2>2. ~Has(answer'[n], "point")
    <3>1. ~Asked(n, "pointAnswer")'
      BY <1>8 DEF Stage, ToMove
    <3> QED BY <3>1 DEF Asked
  <2>3. Has(toAgent'[n], "mapOut") => n = m /\ k = "point"
    <3>1. Asked(n, "mapOut")' => n = m /\ u = "mapOut"
      BY <1>8 DEF Stage, ToMove
    <3> QED BY <3>1 DEF Asked
  <2> QED BY <1>1, <1>10, <2>1, <2>2, <2>3 DEF PointAt
<1>12. Home'
  <2>1. k = "point" => Goes(m)'
    BY <1>1 DEF Goes, Asked, Grown
  <2>2. k = "back" => ~Goes(m)
    BY <1>3 DEF Calm, OneRequest, Goes, Stage, ToMove, ToLeave
  <2> QED BY <1>1, <1>9, <2>1, <2>2 DEF Calm, Home
<1>13. Attended'
  BY <1>1, AttendedSame DEF Calm, agentVars, Present
<1> QED BY <1>5, <1>8, <1>11, <1>12, <1>13 DEF Calm, Whereabouts

\* Any other answer.
LEMMA AnswersOther ==
  ASSUME QueuesOK, RestOK, Calm, NEW m \in Map, HandleAnswer(m),
         Head(answer[m]).kind \notin {"point", "back"},
         \A n \in Map : Present(n)' => Present(n) /\ player'[n].key = player[n].key,
         \/ UNCHANGED toAgent
         \/ \E x \in ToAgentMsg : /\ x.kind \in {"gameinAck", "loginCheckDelete"}
                                  /\ SendAgent(m, x)
  PROVE  Calm'
<1>1. /\ answer[m] # <<>> /\ answer[m] \in Seq(Answer) /\ answer'[m] = Tail(answer[m])
      /\ Shrunk(answer, answer', m)
      /\ UNCHANGED <<agentVars, clientVars, toMap, query, dbMap>>
  BY QueueSizes DEF HandleAnswer, QueuesOK
<1>2. \A n \in Map : \A k \in {"mapOut", "changeMapNack", "backAck"} :
        /\ Has(toAgent'[n], k) <=> Has(toAgent[n], k)
        /\ Once(toAgent[n], k) => Once(toAgent'[n], k)
        /\ \A d : Says(toAgent[n], k, d) => Says(toAgent'[n], k, d)
  <2> SUFFICES ASSUME NEW x \in ToAgentMsg, x.kind \in {"gameinAck", "loginCheckDelete"}, SendAgent(m, x)
               PROVE  \A n \in Map : \A k \in {"mapOut", "changeMapNack", "backAck"} :
                        /\ Has(toAgent'[n], k) <=> Has(toAgent[n], k)
                        /\ Once(toAgent[n], k) => Once(toAgent'[n], k)
                        /\ \A d : Says(toAgent[n], k, d) => Says(toAgent'[n], k, d)
    OBVIOUS
  <2>1. /\ Grown(toAgent, toAgent', m, x) /\ toAgent[m] \in Seq(ToAgentMsg)
        /\ toAgent'[m] = Append(toAgent[m], x)
    BY QueueSizes DEF SendAgent, QueuesOK
  <2>2. \A k \in {"mapOut", "changeMapNack", "backAck"} : \A d :
          Says(toAgent[m], k, d) => Says(toAgent'[m], k, d)
    BY <2>1, SaysSteps
  <2> QED BY <2>1, <2>2 DEF Grown
<1>3. OnceEach'
  BY <1>1, <1>2 DEF Calm, OnceEach, Shrunk
<1>4. \A n \in Map : \A k \in {"point", "back"} : Has(answer'[n], k) <=> Has(answer[n], k)
  BY <1>1 DEF Shrunk
<1>5. \A n \in Map, t \in Stage : Asked(n, t)' <=> Asked(n, t)
  BY <1>1, <1>2, <1>4 DEF Asked
<1>6. Settling
  BY <1>1 DEF Settling, Comes, Saving
<1>7. Whereabouts'
  BY <1>1, <1>5, <1>6, Fewer DEF Calm, Whereabouts, Clients, agentVars, clientVars
<1>8. Points'
  <2> SUFFICES ASSUME NEW n \in Map PROVE PointAt(n)'
    BY DEF Points
  <2>1. \A d : Says(answer[n], "point", d) => Says(answer'[n], "point", d)
    BY <1>1, SaysSteps DEF Shrunk
  <2> QED BY <1>1, <1>2, <1>4, <2>1 DEF Calm, Points, PointAt
<1>9. Home'
  <2>1. \A n \in Map : (Seat(n)' => Seat(n)) /\ (Goes(n) => Goes(n)')
    BY <1>1, <1>5, <1>6 DEF Seat, Goes, Settling, Stage, ToMove, agentVars
  <2> QED BY <1>1, <2>1, HomeFrame DEF Calm
<1>10. Attended'
  BY <1>1, AttendedSame DEF Calm, agentVars
<1> QED BY <1>3, <1>7, <1>8, <1>9, <1>10 DEF Calm, Whereabouts

LEMMA HandleAnswerCalm ==
  ASSUME QueuesOK, RestOK, Calm, NEW m \in Map, HandleAnswer(m)
  PROVE  Calm'
<1>1. PICK x \in Answer : x = Head(answer[m])
  BY Heads DEF HandleAnswer
<1>2. CASE x.kind \in {"info", "rest"} /\ LoadAnswer(m)
  <2>1. Present(m) =>
          /\ \A n \in Map : Present(n)' => Present(n) /\ player'[n].key = player[n].key
          /\ UNCHANGED toAgent \/ \E k \in Key : SendAgent(m, MsgOf("gameinAck", k))
    <3> SUFFICES ASSUME Present(m)
                 PROVE  /\ \A n \in Map : Present(n)' => Present(n) /\ player'[n].key = player[n].key
                        /\ UNCHANGED toAgent \/ \E k \in Key : SendAgent(m, MsgOf("gameinAck", k))
      OBVIOUS
    <3>1. PICK now : now = [player[m] EXCEPT !.info = @ \/ Head(answer[m]).kind = "info",
                                             !.rest = @ \/ Head(answer[m]).kind = "rest"]
      OBVIOUS
    <3>2. player[m] \in [key : Key, info : BOOLEAN, rest : BOOLEAN]
      BY DEF Present, RestOK
    <3>3. now.key = player[m].key /\ player[m].key \in Key
      BY <3>1, <3>2
    <3>4. player' = [player EXCEPT ![m] = now]
          /\ (SendAgent(m, MsgOf("gameinAck", now.key)) \/ UNCHANGED toAgent)
      BY <1>2, <3>1 DEF LoadAnswer
    <3> QED BY <3>3, <3>4 DEF RestOK, Present
  <2>2. ~Present(m) => UNCHANGED <<player, toAgent>>
    BY <1>2 DEF LoadAnswer
  <2>3. \A k \in Key : MsgOf("gameinAck", k) \in ToAgentMsg /\ MsgOf("gameinAck", k).kind = "gameinAck"
    BY MessageTypes, Kinds
  <2>4. \A n \in Map : Present(n)' => Present(n) /\ player'[n].key = player[n].key
    BY <2>1, <2>2 DEF Present
  <2>5. \/ UNCHANGED toAgent
        \/ \E y \in ToAgentMsg : y.kind \in {"gameinAck", "loginCheckDelete"} /\ SendAgent(m, y)
    BY <2>1, <2>2, <2>3
  <2>6. Head(answer[m]).kind \notin {"point", "back"}
    BY <1>1, <1>2
  <2> QED BY <2>4, <2>5, <2>6, AnswersOther
<1>3. CASE x.kind = "point" /\ SendAgent(m, MsgTo("mapOut", x.map)) /\ UNCHANGED player
  <2>1. PICK y \in ToAgentMsg : y = MsgTo("mapOut", x.map)
    BY <1>1, <1>3, Carried, MessageTypes
  <2>2. y.kind = "mapOut" /\ y.map = Head(answer[m]).map /\ SendAgent(m, y)
    BY <1>1, <1>3, <2>1, Kinds
  <2>3. "pointAnswer" \in Stage /\ "mapOut" \in Stage
    BY DEF Stage, ToMove
  <2> QED BY <1>1, <1>3, <2>2, <2>3, AnswersRequest
<1>4. CASE x.kind = "back" /\ SendAgent(m, Msg("backAck")) /\ UNCHANGED player
  <2>1. PICK y \in ToAgentMsg : y = Msg("backAck")
    BY MessageTypes
  <2>2. y.kind = "backAck" /\ SendAgent(m, y)
    BY <1>4, <2>1, Kinds
  <2>3. "confirmAnswer" \in Stage /\ "backAck" \in Stage
    BY DEF Stage, ToLeave
  <2> QED BY <1>1, <1>4, <2>2, <2>3, AnswersRequest
<1>5. CASE x.kind = "out" /\ SendAgent(m, Out("loginCheckDelete", x.known)) /\ UNCHANGED player
  <2>1. PICK y \in ToAgentMsg : y = Out("loginCheckDelete", x.known)
    BY <1>1, <1>5, Carried, MessageTypes
  <2>2. y.kind = "loginCheckDelete" /\ SendAgent(m, y)
    BY <1>5, <2>1, Kinds
  <2>3. \A n \in Map : Present(n)' => Present(n) /\ player'[n].key = player[n].key
    BY <1>5 DEF Present
  <2> QED BY <1>1, <1>5, <2>2, <2>3, AnswersOther
<1> QED BY <1>1, <1>2, <1>3, <1>4, <1>5 DEF HandleAnswer

(***************************************************************************)
(* The agent.                                                              *)
(***************************************************************************)

\* Its handlers take the first message of one map server.
LEMMA ReceivedAsked ==
  ASSUME QueuesOK, OnceEach, NEW m \in Map, toAgent[m] # <<>>, Received(m)
  PROVE  /\ \A n \in Map : /\ \A k : Has(toAgent'[n], k) => Has(toAgent[n], k)
                           /\ \A k \in {"mapOut", "changeMapNack", "backAck"} : Once(toAgent'[n], k)
         /\ \A k \in {"mapOut", "changeMapNack", "backAck"} :
              /\ Head(toAgent[m]).kind = k => Has(toAgent[m], k) /\ ~Has(toAgent'[m], k)
              /\ Head(toAgent[m]).kind # k => \A n \in Map : Has(toAgent[n], k) => Has(toAgent'[n], k)
<1>1. Shrunk(toAgent, toAgent', m)
  BY QueueSizes
<1>2. \A n \in Map : \A k \in {"mapOut", "changeMapNack", "backAck"} : Once(toAgent'[n], k)
  BY <1>1 DEF Shrunk, OnceEach
<1> QED BY <1>1, <1>2 DEF Shrunk, OnceEach

\* Messages for the maps that are no requests, and the end of the session or not.
\* OnDisconnectUser is the case with a session that ends.
LEMMA SentToMaps ==
  ASSUME QueuesOK, Attended, OnceEach, NEW m \in Map, NEW x \in ToMapMsg, SendMap(m, x),
         x.kind \in {"disconnected", "gameinNack", "otherMap"}
  PROVE  \A n \in Map : /\ \A k \in {"changeMap", "back", "gameinSyn"} :
                             Once(toMap'[n], k) /\ (Has(toMap'[n], k) <=> Has(toMap[n], k))
                        /\ \A k : Has(toMap[n], k) => Has(toMap'[n], k)
                        /\ \A e : Behind(toMap[n], e) => Behind(toMap'[n], e)
                        /\ x.kind = "disconnected" /\ n = m =>
                             Has(toMap'[n], "disconnected") /\ \A e : Behind(toMap'[n], e)
<1>1. /\ Grown(toMap, toMap', m, x) /\ toMap[m] \in Seq(ToMapMsg)
      /\ toMap'[m] = Append(toMap[m], x)
  BY QueueSizes DEF SendMap, QueuesOK
<1>2. \A e : /\ Behind(toMap[m], e) => Behind(toMap'[m], e)
             /\ x.kind = "disconnected" => Behind(toMap'[m], e)
  BY <1>1, AppendBehind
<1> QED BY <1>1, <1>2 DEF Grown, OnceEach

\* The agent gives the maps nothing that asks for a character, and takes no message
\* that ends a request.
ToMapsQuietly ==
  \A n \in Map : /\ \A k \in {"changeMap", "back", "gameinSyn"} :
                      Once(toMap'[n], k) /\ (Has(toMap'[n], k) <=> Has(toMap[n], k))
                 /\ \A k : Has(toMap[n], k) => Has(toMap'[n], k)
                 /\ \A e : Behind(toMap[n], e) => Behind(toMap'[n], e)

FromMapsQuietly ==
  \/ UNCHANGED toAgent
  \/ \E m \in Map : /\ toAgent[m] # <<>> /\ Received(m)
                    /\ Head(toAgent[m]).kind \notin {"mapOut", "changeMapNack", "backAck"}

LEMMA QuietAgent ==
  ASSUME QueuesOK, RestOK, Calm, ToMapsQuietly, FromMapsQuietly,
         UNCHANGED <<player, query, answer, dbMap>>
  PROVE  /\ OnceEach' /\ OneRequest' /\ OneCharacter' /\ Points'
         /\ \A n \in Map : \A t \in Stage : Asked(n, t)' <=> Asked(n, t)
         /\ \A n \in Map : /\ Comes(n)' <=> Comes(n)
                           /\ Saving(n)' <=> Saving(n)
                           /\ Present(n)' <=> Present(n)
         /\ NoRequest <=> NoRequest'
         /\ Nowhere <=> Nowhere'
         /\ (\A n \in Map : at' = n => at = n) => OneSeat' /\ Home'
         /\ UNCHANGED <<at, session>> => Attended'
<1>1. \A n \in Map : \A k \in {"mapOut", "changeMapNack", "backAck"} :
        Once(toAgent'[n], k) /\ (Has(toAgent'[n], k) <=> Has(toAgent[n], k))
  <2>1. CASE UNCHANGED toAgent
    BY <2>1 DEF Calm, OnceEach
  <2>2. ASSUME NEW m \in Map, toAgent[m] # <<>>, Received(m),
               Head(toAgent[m]).kind \notin {"mapOut", "changeMapNack", "backAck"}
        PROVE  \A n \in Map : \A k \in {"mapOut", "changeMapNack", "backAck"} :
                 Once(toAgent'[n], k) /\ (Has(toAgent'[n], k) <=> Has(toAgent[n], k))
    BY <2>2, ReceivedAsked DEF Calm
  <2> QED BY <2>1, <2>2 DEF FromMapsQuietly
<1>2. OnceEach'
  BY <1>1 DEF Calm, OnceEach, ToMapsQuietly
<1>3. \A n \in Map : \A t \in Stage : Asked(n, t)' <=> Asked(n, t)
  BY <1>1 DEF Asked, ToMapsQuietly
<1>4. \A n \in Map : /\ Comes(n)' <=> Comes(n)
                     /\ Saving(n)' <=> Saving(n)
                     /\ Present(n)' <=> Present(n)
  BY DEF Comes, Saving, Present, ToMapsQuietly
<1>5. OneRequest'
  BY <1>3 DEF Calm, OneRequest
<1>6. OneCharacter'
  BY <1>3, <1>4 DEF Calm, OneCharacter, OutStage, Stage, ToMove, ToLeave
<1>7. Points'
  <2>1. CASE UNCHANGED toAgent
    BY <2>1 DEF Calm, Points, PointAt
  <2>2. ASSUME NEW m \in Map, toAgent[m] # <<>>, Received(m) PROVE Points'
    BY <2>2, PointsFrame DEF Calm
  <2> QED BY <2>1, <2>2 DEF FromMapsQuietly
<1>8. (NoRequest <=> NoRequest') /\ (Nowhere <=> Nowhere')
  BY <1>3, <1>4 DEF NoRequest, Nowhere
<1>9. ASSUME \A n \in Map : at' = n => at = n PROVE OneSeat' /\ Home'
  <2>1. \A n \in Map : Seat(n)' => Seat(n)
    BY <1>3, <1>4, <1>9 DEF Seat
  <2>2. \A n \in Map : Goes(n) => Goes(n)'
    BY <1>3 DEF Goes, Stage, ToMove
  <2>3. OneSeat'
    BY <2>1 DEF Calm, OneSeat
  <2> QED BY <2>1, <2>2, <2>3, HomeFrame DEF Calm
<1>10. ASSUME UNCHANGED <<at, session>> PROVE Attended'
  <2> SUFFICES ASSUME NEW n \in Map PROVE AttendedAt(n)'
    BY DEF Attended
  <2>1. AttendedAt(n) /\ Expected(n)' = Expected(n)
    BY <1>10 DEF Calm, Attended, Expected
  <2> QED BY <1>4, <2>1 DEF AttendedAt, ToMapsQuietly
<1> QED BY <1>2, <1>3, <1>4, <1>5, <1>6, <1>7, <1>8, <1>9, <1>10

\* The queues to the maps as they are, and with a message that removes a player.
LEMMA QuietQueues ==
  ASSUME QueuesOK, Calm
  PROVE  /\ UNCHANGED toMap => ToMapsQuietly
         /\ \A m \in Map, k \in Removing : SendMap(m, Msg(k)) => ToMapsQuietly
<1>1. UNCHANGED toMap => ToMapsQuietly
  BY DEF ToMapsQuietly, Calm, OnceEach
<1>2. ASSUME NEW m \in Map, NEW k \in Removing, SendMap(m, Msg(k)) PROVE ToMapsQuietly
  <2>1. PICK x \in ToMapMsg : x = Msg(k)
    BY MessageTypes DEF Removing
  <2>2. SendMap(m, x) /\ x.kind \in {"disconnected", "gameinNack", "otherMap"}
    BY <1>2, <2>1, Kinds DEF Removing
  <2> QED BY <2>2, SentToMaps DEF Calm, ToMapsQuietly
<1> QED BY <1>1, <1>2

\* The session ends; the map it is at is told.
LEMMA SessionEnds ==
  ASSUME ArrivalAssumption, QueuesOK, RestOK, Calm, OnDisconnectUser, FromMapsQuietly,
         UNCHANGED <<player, query, answer, dbMap>>
  PROVE  Calm'
<1>1. /\ session' = 0 /\ at' = NoMap /\ listing' = FALSE /\ client' = "away" /\ backup' = FALSE
      /\ \A n \in Map : at' # n
  BY DEF OnDisconnectUser, ArrivalAssumption
<1>2. CASE at = NoMap
  <2>1. UNCHANGED toMap
    BY <1>2 DEF OnDisconnectUser
  <2>2. ToMapsQuietly
    BY <2>1, QuietQueues
  <2>3. OnceEach' /\ OneRequest' /\ OneCharacter' /\ Points' /\ OneSeat' /\ Home'
    BY <1>1, <2>2, QuietAgent
  <2>4. Clients'
    BY <1>1 DEF Clients
  <2>5. Attended'
    <3> SUFFICES ASSUME NEW n \in Map PROVE AttendedAt(n)'
      BY DEF Attended
    <3>1. AttendedAt(n) /\ Expected(n)' = Expected(n)
      BY <1>1, <1>2, ArrivalAssumption DEF Calm, Attended, Expected, ArrivalAssumption
    <3> QED BY <2>1, <3>1 DEF AttendedAt, Present
  <2> QED BY <2>3, <2>4, <2>5 DEF Calm
<1>3. CASE at # NoMap
  <2>1. at \in Map /\ SendMap(at, Msg("disconnected"))
    BY <1>3 DEF OnDisconnectUser, RestOK
  <2>2. ToMapsQuietly
    BY <2>1, QuietQueues DEF Removing
  <2>3. OnceEach' /\ OneRequest' /\ OneCharacter' /\ Points' /\ OneSeat' /\ Home'
    BY <1>1, <2>2, QuietAgent
  <2>4. Clients'
    BY <1>1 DEF Clients
  <2>5. Has(toMap'[at], "disconnected") /\ \A e : Behind(toMap'[at], e)
    <3>1. PICK x \in ToMapMsg : x = Msg("disconnected")
      BY MessageTypes
    <3>2. SendMap(at, x) /\ x.kind = "disconnected"
      BY <2>1, <3>1, Kinds
    <3> QED BY <2>1, <3>2, SentToMaps DEF Calm
  <2>6. Attended'
    <3> SUFFICES ASSUME NEW n \in Map PROVE AttendedAt(n)'
      BY DEF Attended
    <3>1. CASE n = at
      BY <2>5, <3>1 DEF AttendedAt, Removing
    <3>2. CASE n # at
      <4>1. AttendedAt(n) /\ Expected(n)' = Expected(n)
        BY <1>1, <3>2 DEF Calm, Attended, Expected
      <4> QED BY <2>2, <4>1 DEF AttendedAt, Present, ToMapsQuietly
    <3> QED BY <3>1, <3>2
  <2> QED BY <2>3, <2>4, <2>6 DEF Calm
<1> QED BY <1>2, <1>3

\* Messages of a map that leave the agent's user where it is.
LEMMA GameinNackCalm ==
  ASSUME ArrivalAssumption, QueuesOK, RestOK, Calm, NEW m \in Map, GameinNack(m) \/ LoginCheckDelete(m)
  PROVE  Calm'
<1>1. FromMapsQuietly /\ UNCHANGED <<player, query, answer, dbMap>>
  BY DEF GameinNack, LoginCheckDelete, FromMap, FromMapsQuietly, dbVars
<1>2. CASE OnDisconnectUser
  BY <1>1, <1>2, SessionEnds
<1>3. CASE UNCHANGED <<session, at, list, listing, client, backup, toMap>>
  <2>1. ToMapsQuietly
    BY <1>3, QuietQueues
  <2>2. /\ OnceEach' /\ OneRequest' /\ OneCharacter' /\ Points' /\ OneSeat' /\ Home' /\ Attended'
        /\ (NoRequest <=> NoRequest') /\ (Nowhere <=> Nowhere')
        /\ \A n \in Map : \A t \in Stage : Asked(n, t)' <=> Asked(n, t)
    BY <1>1, <1>3, <2>1, QuietAgent
  <2>3. Clients'
    BY <1>1, <1>3, <2>2 DEF Calm, Clients, Stage
  <2> QED BY <2>2, <2>3 DEF Calm
<1> QED BY <1>2, <1>3 DEF GameinNack, LoginCheckDelete, clientVars

LEMMA GameinAckCalm ==
  ASSUME QueuesOK, RestOK, Calm, NEW m \in Map, GameinAck(m)
  PROVE  Calm'
<1>1. /\ FromMapsQuietly /\ UNCHANGED <<session, at, listing, backup, player, query, answer, dbMap>>
  BY DEF GameinAck, FromMap, FromMapsQuietly, dbVars
<1>2. /\ ToMapsQuietly
      /\ \/ UNCHANGED <<list, client>>
         \/ at # NoMap /\ list' = at /\ client' = IF client = "gameIn" THEN "hero" ELSE client
  <2>1. CASE at # NoMap /\ Head(toAgent[m]).key = session
    <3>1. client' = IF client = "gameIn" THEN "hero" ELSE client
      BY <2>1 DEF GameinAck, Calm, Clients
    <3>2. list' = at /\ toMap' = [n \in Map |-> IF n = m THEN toMap[n] ELSE Append(toMap[n], Msg("otherMap"))]
      BY <2>1 DEF GameinAck
    <3>3. PICK x \in ToMapMsg : x = Msg("otherMap")
      BY MessageTypes
    <3>4. x.kind = "otherMap"
      BY <3>3, Kinds
    <3>5. ToMapsQuietly
      <4> SUFFICES ASSUME NEW n \in Map
                   PROVE  /\ \A k \in {"changeMap", "back", "gameinSyn"} :
                               Once(toMap'[n], k) /\ (Has(toMap'[n], k) <=> Has(toMap[n], k))
                          /\ \A k : Has(toMap[n], k) => Has(toMap'[n], k)
                          /\ \A e : Behind(toMap[n], e) => Behind(toMap'[n], e)
        BY DEF ToMapsQuietly
      <4>1. toMap[n] \in Seq(ToMapMsg) /\ \A k \in {"changeMap", "back", "gameinSyn"} : Once(toMap[n], k)
        BY DEF QueuesOK, Calm, OnceEach
      <4>2. CASE n = m
        BY <3>2, <4>1, <4>2
      <4>3. CASE n # m
        <5>1. toMap'[n] = Append(toMap[n], x)
          BY <3>2, <3>3, <4>3
        <5>2. /\ \A k : Has(toMap'[n], k) <=> Has(toMap[n], k) \/ x.kind = k
              /\ \A k : Once(toMap[n], k) /\ (x.kind = k => ~Has(toMap[n], k)) => Once(toMap'[n], k)
          BY <4>1, <5>1, AppendHas
        <5>3. \A e : Behind(toMap[n], e) => Behind(toMap'[n], e)
          BY <3>4, <4>1, <5>1, AppendBehind
        <5> QED BY <3>4, <4>1, <5>2, <5>3
      <4> QED BY <4>2, <4>3
    <3> QED BY <2>1, <3>1, <3>2, <3>5
  <2>2. CASE ~(at # NoMap /\ Head(toAgent[m]).key = session)
    <3>1. SendMap(m, Msg("gameinNack")) /\ UNCHANGED <<list, client>>
      BY <2>2 DEF GameinAck
    <3>2. ToMapsQuietly
      BY <3>1, QuietQueues DEF Removing
    <3> QED BY <3>1, <3>2
  <2> QED BY <2>1, <2>2
<1>3. /\ OnceEach' /\ OneRequest' /\ OneCharacter' /\ Points' /\ OneSeat' /\ Home' /\ Attended'
      /\ (NoRequest <=> NoRequest') /\ (Nowhere <=> Nowhere')
      /\ \A n \in Map : \A t \in Stage : Asked(n, t)' <=> Asked(n, t)
  BY <1>1, <1>2, QuietAgent
<1>4. Clients'
  <2>1. CASE UNCHANGED <<list, client>>
    BY <1>1, <1>3, <2>1 DEF Calm, Clients, Stage
  <2>2. CASE at # NoMap /\ list' = at /\ client' = IF client = "gameIn" THEN "hero" ELSE client
    <3>1. client = "list" => at = dbMap
      <4> SUFFICES ASSUME client = "list" PROVE at = dbMap
        OBVIOUS
      <4>1. at \in Map /\ Seat(at)
        BY <2>2 DEF RestOK, Seat
      <4>2. ~Goes(at)
        BY <4>1 DEF Calm, Clients, Nowhere, NoRequest, Goes, Stage, ToMove
      <4> QED BY <4>1, <4>2 DEF Calm, Home
    <3>2. CASE client = "gameIn"
      BY <1>1, <1>3, <2>2, <3>2 DEF Calm, Clients
    <3>3. CASE client # "gameIn"
      BY <1>1, <1>3, <2>2, <3>1, <3>3 DEF Calm, Clients, Stage
    <3> QED BY <3>2, <3>3
  <2> QED BY <1>2, <2>1, <2>2
<1> QED BY <1>3, <1>4 DEF Calm

\* The request arrives at the agent, and none is left.
LEMMA RequestArrives ==
  ASSUME QueuesOK, RestOK, QueuesOK', Calm, NEW m \in Map, toAgent[m] # <<>>, Received(m),
         NEW k \in {"mapOut", "changeMapNack", "backAck"}, Head(toAgent[m]).kind = k,
         UNCHANGED <<session, list, toMap, player, query, answer, dbMap>>
  PROVE  /\ OnceEach' /\ OneRequest' /\ OneCharacter' /\ Points' /\ NoRequest'
         /\ Asked(m, k) /\ \A n \in Map : \A t \in Stage : Asked(n, t) => n = m /\ t = k
         /\ k \in OutStage => Nowhere'
         /\ \A n \in Map : /\ Comes(n)' <=> Comes(n)
                           /\ Saving(n)' <=> Saving(n)
                           /\ Present(n)' <=> Present(n)
         /\ UNCHANGED at => Attended'
<1>1. /\ Has(toAgent[m], k) /\ ~Has(toAgent'[m], k)
      /\ \A n \in Map : /\ \A j : Has(toAgent'[n], j) => Has(toAgent[n], j)
                        /\ \A j \in {"mapOut", "changeMapNack", "backAck"} : Once(toAgent'[n], j)
  BY ReceivedAsked DEF Calm
<1>2. k \in Stage /\ Asked(m, k)
  <2>1. k \in Stage
    BY DEF Stage, ToMove, ToLeave
  <2>2. Asked(m, k)
    BY <1>1 DEF Asked
  <2> QED BY <2>1, <2>2
<1>3. \A n \in Map : \A t \in Stage : Asked(n, t) => n = m /\ t = k
  BY <1>2 DEF Calm, OneRequest
<1>4. NoRequest'
  <2> SUFFICES ASSUME NEW n \in Map, NEW t \in Stage, Asked(n, t)' PROVE FALSE
    BY DEF NoRequest
  <2>1. Asked(n, t)
    BY <1>1 DEF Asked
  <2>2. n = m /\ t = k
    BY <1>3, <2>1
  <2> QED BY <1>1, <2>2 DEF Asked
<1>5. OnceEach'
  BY <1>1 DEF Calm, OnceEach
<1>6. \A n \in Map : /\ Comes(n)' <=> Comes(n)
                     /\ Saving(n)' <=> Saving(n)
                     /\ Present(n)' <=> Present(n)
  BY DEF Comes, Saving, Present
<1>7. OneRequest'
  BY <1>4 DEF NoRequest, OneRequest
<1>8. OneCharacter'
  BY <1>4, <1>6 DEF NoRequest, Calm, OneCharacter, OutStage, Stage, ToMove, ToLeave
<1>9. Points'
  BY <1>4, NoPoints DEF NoRequest, Stage, ToMove
<1>10. k \in OutStage => Nowhere'
  BY <1>2, <1>4, <1>6 DEF Calm, OneCharacter, Nowhere
<1>11. ASSUME UNCHANGED at PROVE Attended'
  BY <1>11, AttendedSame DEF Calm, Present
<1> QED BY <1>2, <1>3, <1>4, <1>5, <1>6, <1>7, <1>8, <1>9, <1>10, <1>11

LEMMA ChangeMapNackCalm ==
  ASSUME QueuesOK, RestOK, QueuesOK', Calm, NEW m \in Map, ChangeMapNack(m)
  PROVE  Calm'
<1>1. /\ toAgent[m] # <<>> /\ Received(m) /\ Head(toAgent[m]).kind = "changeMapNack"
      /\ UNCHANGED <<session, list, toMap, player, query, answer, dbMap, at, listing, backup>>
      /\ client' = IF at # NoMap /\ client = "moving" THEN "hero" ELSE client
  BY DEF ChangeMapNack, FromMap, agentVars, dbVars
<1>2. /\ OnceEach' /\ OneRequest' /\ OneCharacter' /\ Points' /\ NoRequest' /\ Attended'
      /\ \A n \in Map : \A t \in Stage : Asked(n, t) => n = m /\ t = "changeMapNack"
      /\ \A n \in Map : /\ Comes(n)' <=> Comes(n)
                        /\ Saving(n)' <=> Saving(n)
                        /\ Present(n)' <=> Present(n)
  BY <1>1, RequestArrives
<1>3. \A n \in Map : Seat(n)' => Seat(n)
  BY <1>1, <1>2 DEF Seat, NoRequest
<1>4. OneSeat'
  BY <1>3 DEF Calm, OneSeat
<1>5. Home'
  <2>1. \A n \in Map : ~Goes(n)
    BY <1>2 DEF Goes, Stage, ToMove
  <2> QED BY <1>1, <1>3, <2>1, HomeFrame DEF Calm
<1>6. Clients'
  <2>1. Nowhere => Nowhere'
    BY <1>2 DEF Nowhere
  <2> QED BY <1>1, <1>2, <2>1 DEF Calm, Clients, NoRequest, Stage
<1> QED BY <1>2, <1>4, <1>5, <1>6 DEF Calm

LEMMA BackAckCalm ==
  ASSUME ArrivalAssumption, QueuesOK, RestOK, QueuesOK', Calm, NEW m \in Map, BackToCharSelAck(m)
  PROVE  Calm'
<1>1. /\ toAgent[m] # <<>> /\ Received(m) /\ Head(toAgent[m]).kind = "backAck"
      /\ UNCHANGED <<session, list, toMap, player, query, answer, dbMap, client, backup>>
      /\ \/ at # NoMap /\ at' = NoMap /\ listing' = TRUE
         \/ at = NoMap /\ UNCHANGED <<at, listing>>
  BY DEF BackToCharSelAck, FromMap, clientVars, dbVars
<1>2. /\ OnceEach' /\ OneRequest' /\ OneCharacter' /\ Points' /\ NoRequest'
      /\ Asked(m, "backAck") /\ \A n \in Map : \A t \in Stage : Asked(n, t) => n = m /\ t = "backAck"
      /\ \A n \in Map : /\ Comes(n)' <=> Comes(n)
                        /\ Saving(n)' <=> Saving(n)
                        /\ Present(n)' <=> Present(n)
      /\ "backAck" \in OutStage => Nowhere'
  BY <1>1, RequestArrives
<1>3. Nowhere'
  BY <1>2 DEF OutStage
<1>4. \A n \in Map : Seat(n)' => Seat(n)
  BY <1>1, <1>2, ArrivalAssumption DEF Seat, NoRequest, ArrivalAssumption
<1>5. OneSeat'
  BY <1>4 DEF Calm, OneSeat
<1>6. Home'
  <2>1. \A n \in Map : ~Goes(n)
    BY <1>2 DEF Goes, Stage, ToMove
  <2> QED BY <1>1, <1>4, <2>1, HomeFrame DEF Calm
<1>7. Clients'
  <2>1. client \notin {"list", "mapChange", "gameIn", "hero", "moving"} /\ ~(client = "leaving" /\ listing)
    BY <1>2 DEF Calm, Clients, Nowhere, NoRequest, Stage, ToLeave
  <2>2. at # NoMap => client = "leaving"
    BY <2>1 DEF Calm, Clients, RestOK
  <2> QED BY <1>1, <1>2, <1>3, <2>1, <2>2 DEF Calm, Clients, NoRequest, Stage
<1>8. Attended'
  <2> SUFFICES ASSUME NEW n \in Map PROVE AttendedAt(n)'
    BY DEF Attended
  <2>1. ~Has(toMap'[n], "gameinSyn") /\ ~Present(n)' /\ toMap'[n] \in Seq(ToMapMsg)
    BY <1>3 DEF Nowhere, Comes, QueuesOK
  <2>2. \A e : Behind(toMap'[n], e)
    BY <2>1 DEF Behind, Has
  <2> QED BY <2>1, <2>2 DEF AttendedAt
<1> QED BY <1>2, <1>5, <1>6, <1>7, <1>8 DEF Calm

LEMMA MapOutCalm ==
  ASSUME ArrivalAssumption, QueuesOK, RestOK, QueuesOK', Calm, NEW m \in Map, MapOut(m)
  PROVE  Calm'
<1>1. /\ toAgent[m] # <<>> /\ Received(m) /\ Head(toAgent[m]).kind = "mapOut"
      /\ UNCHANGED <<session, list, toMap, player, query, answer, dbMap, listing>>
      /\ \/ /\ at # NoMap /\ at' = Head(toAgent[m]).map
            /\ client' = IF client \in {"hero", "moving", "leaving"} THEN "mapChange" ELSE client
            /\ backup' = (backup \/ client = "gameIn")
         \/ at = NoMap /\ UNCHANGED <<at, client, backup>>
  BY DEF MapOut, FromMap, dbVars
<1>2. /\ OnceEach' /\ OneRequest' /\ OneCharacter' /\ Points' /\ NoRequest'
      /\ Asked(m, "mapOut") /\ \A n \in Map : \A t \in Stage : Asked(n, t) => n = m /\ t = "mapOut"
      /\ \A n \in Map : /\ Comes(n)' <=> Comes(n)
                        /\ Saving(n)' <=> Saving(n)
                        /\ Present(n)' <=> Present(n)
      /\ "mapOut" \in OutStage => Nowhere'
  BY <1>1, RequestArrives
<1>3. Nowhere'
  BY <1>2 DEF OutStage
<1>4. query[m] = <<>> /\ Head(toAgent[m]).map = dbMap
  <2>1. query[m] = <<>> /\ Says(toAgent[m], "mapOut", dbMap)
    BY <1>2 DEF Calm, Points, PointAt, Asked
  <2>2. toAgent[m] \in Seq(ToAgentMsg)
    BY DEF QueuesOK
  <2>3. Head(toAgent[m]).kind = "mapOut" => Head(toAgent[m]).map = dbMap
    BY <1>1, <2>1, <2>2, SaysSteps
  <2> QED BY <1>1, <2>1, <2>3
<1>5. \A n \in Map : ~Saving(n)'
  <2>1. ~Saving(m)
    BY <1>4, EmptyHas DEF Saving
  <2>2. Seat(m)
    BY <1>2 DEF Seat, Stage, ToMove
  <2>3. \A n \in Map : Saving(n) => n = m
    BY <2>2 DEF Calm, OneSeat, Seat
  <2> QED BY <1>2, <2>1, <2>3
<1>6. \A n \in Map : Seat(n)' => at' = n /\ n = dbMap'
  <2>1. \A n \in Map : Seat(n)' => at' = n
    BY <1>2, <1>3, <1>5 DEF Seat, Nowhere, NoRequest
  <2>2. at' = NoMap \/ at' = dbMap'
    BY <1>1, <1>4
  <2> QED BY <2>1, <2>2, ArrivalAssumption DEF ArrivalAssumption
<1>7. OneSeat'
  BY <1>6 DEF OneSeat
<1>8. Home'
  <2>1. \A n \in Map : Says(query'[n], "save", n)
    BY <1>5 DEF Saving, Has, Says
  <2> QED BY <1>6, <2>1 DEF Home
<1>9. Clients'
  <2>1. client \notin {"list", "mapChange", "gameIn", "hero", "leaving"}
    BY <1>2 DEF Calm, Clients, Nowhere, NoRequest, Stage, ToMove
  <2>2. at # NoMap => client = "moving" /\ ~listing
    BY <2>1 DEF Calm, Clients, RestOK
  <2>3. CASE at # NoMap
    BY <1>1, <1>3, <2>2, <2>3 DEF Calm, Clients
  <2>4. CASE at = NoMap
    BY <1>1, <1>3, <2>1, <2>4 DEF Calm, Clients, Nowhere, NoRequest, Stage
  <2> QED BY <2>3, <2>4
<1>10. Attended'
  <2> SUFFICES ASSUME NEW n \in Map PROVE AttendedAt(n)'
    BY DEF Attended
  <2>1. ~Has(toMap'[n], "gameinSyn") /\ ~Present(n)'
    BY <1>3 DEF Nowhere, Comes
  <2>2. \A e : Behind(toMap'[n], e)
    BY <2>1 DEF Behind, Has
  <2> QED BY <2>1, <2>2 DEF AttendedAt
<1> QED BY <1>2, <1>7, <1>8, <1>9, <1>10 DEF Calm

(***************************************************************************)
(* The client, and the agent's handlers of its messages.                   *)
(***************************************************************************)

LEMMA QueuesStay ==
  ASSUME QueuesOK, RestOK, Calm, UNCHANGED <<msgVars, player, dbVars>>
  PROVE  /\ OnceEach' /\ OneRequest' /\ OneCharacter' /\ Points'
         /\ \A n \in Map : \A t \in Stage : Asked(n, t)' <=> Asked(n, t)
         /\ \A n \in Map : /\ Comes(n)' <=> Comes(n)
                           /\ Saving(n)' <=> Saving(n)
                           /\ Present(n)' <=> Present(n)
         /\ (NoRequest <=> NoRequest') /\ (Nowhere <=> Nowhere')
         /\ UNCHANGED at => OneSeat' /\ Home'
         /\ UNCHANGED <<at, session>> => Attended'
<1>1. UNCHANGED <<toMap, toAgent, player, query, answer, dbMap>>
  BY DEF msgVars, dbVars
<1>2. ToMapsQuietly /\ FromMapsQuietly
  BY <1>1, QuietQueues DEF FromMapsQuietly
<1>3. UNCHANGED at => \A n \in Map : at' = n => at = n
  OBVIOUS
<1> QED BY <1>1, <1>2, <1>3, QuietAgent

\* A session that does not hurry begins when the character is nowhere.
LEMMA AttachCalm ==
  ASSUME ArrivalAssumption, QueuesOK, RestOK, Calm, Attach, Settled
  PROVE  Calm'
<1>1. /\ session = 0 /\ session' = started + 1 /\ listing' = TRUE /\ client' = "list"
      /\ UNCHANGED <<at, list, backup, msgVars, player, dbVars>>
  BY DEF Attach
<1>2. session' # 0
  BY <1>1 DEF RestOK, Key
<1>3. /\ OnceEach' /\ OneRequest' /\ OneCharacter' /\ Points' /\ OneSeat' /\ Home'
      /\ Nowhere <=> Nowhere'
  BY <1>1, QueuesStay
<1>4. Nowhere
  <2>1. \A T : \A q \in Seq(T) : \A k : (\A x \in ToSet(q) : x.kind # k) => ~Has(q, k)
    BY DEF ToSet, Has
  <2>2. ASSUME NEW n \in Map
        PROVE  /\ \A k \in {"gameinSyn", "changeMap", "back"} : ~Has(toMap[n], k)
               /\ \A k \in {"point", "back"} : ~Has(query[n], k) /\ ~Has(answer[n], k)
               /\ \A k : ~Has(toAgent[n], k)
               /\ ~Present(n)
    <3>1. \A k \in {"gameinSyn", "changeMap", "back"} : ~Has(toMap[n], k)
      BY <2>1 DEF Settled, Sent, QueuesOK
    <3>2. \A k \in {"point", "back"} : ~Has(query[n], k) /\ ~Has(answer[n], k)
      BY <2>1 DEF Settled, Pending, QueuesOK
    <3>3. \A k : ~Has(toAgent[n], k)
      BY EmptyHas DEF Settled
    <3> QED BY <3>1, <3>2, <3>3 DEF Settled, Present
  <2> QED BY <2>2 DEF Nowhere, NoRequest, Asked, Comes
<1>5. Clients'
  BY <1>1, <1>2, <1>3, <1>4 DEF Clients
<1>6. Attended'
  <2> SUFFICES ASSUME NEW n \in Map PROVE AttendedAt(n)'
    BY DEF Attended
  <2>1. at # n /\ AttendedAt(n) /\ Expected(n)' = Expected(n)
    BY <1>1, ArrivalAssumption DEF Calm, Clients, Attended, Expected, ArrivalAssumption
  <2> QED BY <1>1, <2>1 DEF AttendedAt, Present, msgVars
<1> QED BY <1>3, <1>5, <1>6 DEF Calm

LEMMA ListReadCalm ==
  ASSUME QueuesOK, RestOK, Calm, ListRead \/ InsistedLogout
  PROVE  Calm'
<1>1. /\ UNCHANGED <<at, session, backup, msgVars, player, dbVars>>
      /\ \/ /\ listing /\ listing' = FALSE /\ list' = dbMap
            /\ client' = IF client = "leaving" THEN "list" ELSE client
         \/ UNCHANGED <<listing, list, client>>
  BY DEF ListRead, InsistedLogout, clientVars
<1>2. /\ OnceEach' /\ OneRequest' /\ OneCharacter' /\ Points' /\ OneSeat' /\ Home' /\ Attended'
      /\ \A n \in Map : \A t \in Stage : Asked(n, t)' <=> Asked(n, t)
      /\ (NoRequest <=> NoRequest') /\ (Nowhere <=> Nowhere') /\ dbMap' = dbMap
  BY <1>1, QueuesStay DEF dbVars
<1>3. Clients'
  <2>1. CASE UNCHANGED <<listing, list, client>>
    BY <1>1, <1>2, <2>1 DEF Calm, Clients, Stage
  <2>2. CASE /\ listing /\ listing' = FALSE /\ list' = dbMap
             /\ client' = IF client = "leaving" THEN "list" ELSE client
    <3>1. Nowhere /\ client' = "list"
      BY <2>2 DEF Calm, Clients
    <3>2. session # 0 /\ session' # 0
      BY <1>1, <2>2 DEF Calm, Clients
    <3> QED BY <1>2, <2>2, <3>1, <3>2 DEF Clients
  <2> QED BY <1>1, <2>1, <2>2
<1> QED BY <1>2, <1>3 DEF Calm

LEMMA CharacterSelectCalm ==
  ASSUME QueuesOK, RestOK, Calm, CharacterSelect
  PROVE  Calm'
<1>1. /\ client = "list" /\ ~listing /\ list # NoMap
      /\ at' = list /\ client' = "mapChange"
      /\ UNCHANGED <<session, list, listing, backup, msgVars, player, dbVars>>
  BY DEF CharacterSelect
<1>2. Nowhere /\ NoRequest /\ list = dbMap /\ session # 0
  BY <1>1 DEF Calm, Clients, Nowhere
<1>3. /\ OnceEach' /\ OneRequest' /\ OneCharacter' /\ Points' /\ Nowhere'
      /\ \A n \in Map : Saving(n)' <=> Saving(n)
  BY <1>1, <1>2, QueuesStay
<1>4. /\ \A n \in Map : Seat(n)' => n = dbMap
      /\ \A n \in Map : Seat(n)' => Says(query[n], "save", n)
  <2>1. ASSUME NEW n \in Map, Saving(n) PROVE n = dbMap /\ Says(query[n], "save", n)
    <3>1. Seat(n) /\ ~Goes(n)
      BY <1>2, <2>1 DEF Seat, Goes, NoRequest, Stage, ToMove
    <3> QED BY <3>1 DEF Calm, Home
  <2>2. \A n \in Map : Seat(n)' => at' = n \/ Saving(n)
    BY <1>3 DEF Seat, Nowhere, NoRequest
  <2>3. \A n \in Map : ~Saving(n) => Says(query[n], "save", n)
    BY DEF Saving, Has, Says
  <2> QED BY <1>1, <1>2, <2>1, <2>2, <2>3
<1>5. OneSeat'
  BY <1>4 DEF OneSeat
<1>6. Home'
  BY <1>1, <1>4 DEF Home, dbVars
<1>7. Clients'
  BY <1>1, <1>2, <1>3 DEF Clients
<1>8. Attended'
  <2> SUFFICES ASSUME NEW n \in Map PROVE AttendedAt(n)'
    BY DEF Attended
  <2>1. ~Has(toMap'[n], "gameinSyn") /\ ~Present(n)'
    BY <1>3 DEF Nowhere, Comes
  <2>2. \A e : Behind(toMap'[n], e)
    BY <2>1 DEF Behind, Has
  <2> QED BY <2>1, <2>2 DEF AttendedAt
<1> QED BY <1>3, <1>5, <1>6, <1>7, <1>8 DEF Calm

LEMMA EnterCalm ==
  ASSUME QueuesOK, RestOK, QueuesOK', Calm, GameinSyn
  PROVE  Calm'
<1>1. /\ client = "mapChange" /\ client' = "gameIn" /\ backup' = FALSE
      /\ UNCHANGED <<session, at, list, listing, toAgent, player, query, answer, dbMap>>
      /\ IF at # NoMap THEN SendMap(at, MsgOf("gameinSyn", session)) ELSE UNCHANGED toMap
  BY DEF GameinSyn, agentVars, dbVars
<1>2. Nowhere /\ NoRequest /\ session # 0 /\ ~listing
  BY <1>1 DEF Calm, Clients, Nowhere
<1>3. CASE at = NoMap
  <2>1. UNCHANGED <<msgVars, player, dbVars>>
    BY <1>1, <1>3 DEF msgVars, dbVars
  <2>2. /\ OnceEach' /\ OneRequest' /\ OneCharacter' /\ Points' /\ OneSeat' /\ Home' /\ Attended'
        /\ NoRequest'
    BY <1>1, <1>2, <2>1, QueuesStay
  <2>3. Clients'
    BY <1>1, <1>2, <2>2 DEF Clients
  <2> QED BY <2>2, <2>3 DEF Calm
<1>4. CASE at # NoMap
  <2>1. at \in Map
    BY <1>4 DEF RestOK
  <2>2. PICK x \in ToMapMsg : x = MsgOf("gameinSyn", session)
    BY MessageTypes DEF RestOK
  <2>3. x.kind = "gameinSyn" /\ x.key = session /\ SendMap(at, x)
    BY <1>1, <1>4, <2>2, Kinds
  <2>4. Grown(toMap, toMap', at, x) /\ toMap[at] \in Seq(ToMapMsg) /\ toMap'[at] = Append(toMap[at], x)
    BY <2>1, <2>3, QueueSizes DEF SendMap, QueuesOK
  <2>5. \A n \in Map : ~Comes(n) /\ ~Present(n) /\ ~Present(n)' /\ ~Has(toMap[n], "gameinSyn")
    BY <1>1, <1>2 DEF Nowhere, Present, Comes
  <2>6. OnceEach'
    <3>1. \A n \in Map : \A k \in {"changeMap", "back", "gameinSyn"} : Once(toMap'[n], k)
      BY <2>3, <2>4, <2>5 DEF Calm, OnceEach, Grown
    <3> QED BY <1>1, <3>1 DEF Calm, OnceEach
  <2>7. \A n \in Map : \A t \in Stage : ~Asked(n, t)'
    BY <1>1, <1>2, <2>3, <2>4 DEF NoRequest, Asked, Grown
  <2>8. OneRequest' /\ OneCharacter' /\ NoRequest'
    BY <2>5, <2>7 DEF OneRequest, OneCharacter, OutStage, Stage, ToMove, ToLeave, NoRequest
  <2>9. Points'
    BY <2>7, NoPoints DEF Stage, ToMove
  <2>10. \A n \in Map : Seat(n)' => Seat(n)
    <3>1. \A n \in Map : Comes(n)' => n = at
      BY <2>4, <2>5 DEF Comes, Grown
    <3> QED BY <1>1, <2>5, <2>7, <3>1 DEF Seat, Saving
  <2>11. OneSeat'
    BY <2>10 DEF Calm, OneSeat
  <2>12. Home'
    <3>1. \A n \in Map : ~Goes(n)
      BY <1>2 DEF Goes, NoRequest, Stage, ToMove
    <3> QED BY <1>1, <2>10, <3>1, HomeFrame DEF Calm
  <2>13. Clients'
    BY <1>1, <1>2, <2>8 DEF Clients
  <2>14. Attended'
    <3> SUFFICES ASSUME NEW n \in Map PROVE AttendedAt(n)'
      BY DEF Attended
    <3>1. AttendedAt(n) /\ Expected(n)' = Expected(n)
      BY <1>1 DEF Calm, Attended, Expected
    <3>2. CASE n = at
      <4>1. Expected(n) = session
        BY <3>2 DEF Expected
      <4>2. Behind(toMap[at], session) => Behind(toMap'[at], session)
        BY <2>3, <2>4, AppendBehind
      <4>3. Behind(toMap'[n], Expected(n)')
        BY <3>1, <3>2, <4>1, <4>2 DEF AttendedAt
      <4> QED BY <2>5, <4>3 DEF AttendedAt
    <3>3. CASE n # at
      <4>1. toMap'[n] = toMap[n]
        BY <2>4, <3>3 DEF Grown
      <4> QED BY <2>5, <3>1, <4>1 DEF AttendedAt
    <3> QED BY <3>2, <3>3
  <2> QED BY <2>6, <2>8, <2>9, <2>11, <2>12, <2>13, <2>14 DEF Calm
<1> QED BY <1>3, <1>4

\* Nothing happens.
LEMMA QuietCalm ==
  ASSUME QueuesOK, RestOK, QueuesOK', Calm, UNCHANGED vars
  PROVE  Calm'
<1>1. UNCHANGED <<msgVars, player, dbVars>> /\ UNCHANGED <<at, session, list, listing, client, backup, hurried>>
  BY DEF vars, msgVars, dbVars
<1>2. /\ OnceEach' /\ OneRequest' /\ OneCharacter' /\ Points' /\ OneSeat' /\ Home' /\ Attended'
      /\ \A n \in Map : \A t \in Stage : Asked(n, t)' <=> Asked(n, t)
      /\ (NoRequest <=> NoRequest') /\ (Nowhere <=> Nowhere') /\ dbMap' = dbMap
  BY <1>1, QueuesStay DEF dbVars
<1>3. Clients'
  BY <1>1, <1>2 DEF Calm, Clients, Stage
<1> QED BY <1>2, <1>3 DEF Calm

\* Whoever has the hero asks for another map, or for the list.
LEMMA RequestCalm ==
  ASSUME QueuesOK, RestOK, QueuesOK', Calm, ~UNCHANGED vars,
         BackToCharSelSyn \/ \E target \in Map : ChangeMapSyn(target)
  PROVE  Calm'
<1>1. /\ client = "hero" /\ at \in Map
      /\ UNCHANGED <<session, at, list, listing, backup, toAgent, player, query, answer, dbMap>>
  BY DEF BackToCharSelSyn, ChangeMapSyn, agentVars, dbVars, RestOK
<1>2. PICK x \in ToMapMsg, k \in {"changeMap", "back"} :
        /\ x.kind = k /\ SendMap(at, x)
        /\ client' = IF k = "changeMap" THEN "moving" ELSE "leaving"
  <2>1. CASE BackToCharSelSyn
    <3>1. PICK x \in ToMapMsg : x = Msg("back")
      BY MessageTypes
    <3>2. x.kind = "back" /\ SendMap(at, x) /\ client' = "leaving"
      BY <2>1, <3>1, Kinds DEF BackToCharSelSyn
    <3> QED BY <3>2
  <2>2. ASSUME NEW target \in Map, ChangeMapSyn(target)
        PROVE  \E x \in ToMapMsg, k \in {"changeMap", "back"} :
                 /\ x.kind = k /\ SendMap(at, x)
                 /\ client' = IF k = "changeMap" THEN "moving" ELSE "leaving"
    <3>1. PICK x \in ToMapMsg : x = MsgTo("changeMap", target)
      BY MessageTypes
    <3>2. ~UNCHANGED <<toMap, client>>
      BY <2>2 DEF ChangeMapSyn, vars, agentVars, dbVars
    <3>3. x.kind = "changeMap" /\ SendMap(at, x) /\ client' = "moving"
      BY <2>2, <3>1, <3>2, Kinds DEF ChangeMapSyn
    <3> QED BY <3>3
  <2> QED BY <2>1, <2>2
<1>3. NoRequest /\ session # 0 /\ ~listing
  BY <1>1 DEF Calm, Clients
<1>4. Grown(toMap, toMap', at, x) /\ toMap[at] \in Seq(ToMapMsg) /\ toMap'[at] = Append(toMap[at], x)
  BY <1>1, <1>2, QueueSizes DEF SendMap, QueuesOK
<1>5. \A n \in Map : ~Has(toMap[n], k)
  <2>1. \A n \in Map : ~Asked(n, "changeMap") /\ ~Asked(n, "back")
    BY <1>3 DEF NoRequest, Stage, ToMove, ToLeave
  <2> QED BY <2>1 DEF Asked
<1>6. OnceEach'
  <2>1. \A n \in Map : \A j \in {"changeMap", "back", "gameinSyn"} : Once(toMap'[n], j)
    BY <1>2, <1>4, <1>5 DEF Calm, OnceEach, Grown
  <2> QED BY <1>1, <2>1 DEF Calm, OnceEach
<1>7. \A n \in Map : \A t \in Stage : Asked(n, t)' => n = at /\ t = k
  BY <1>1, <1>2, <1>3, <1>4 DEF NoRequest, Asked, Grown
<1>8. \A n \in Map : /\ Comes(n)' <=> Comes(n)
                     /\ Saving(n)' <=> Saving(n)
                     /\ Present(n)' <=> Present(n)
  BY <1>1, <1>2, <1>4 DEF Comes, Saving, Present, Grown
<1>9. OneRequest' /\ OneCharacter'
  BY <1>7, <1>8 DEF OneRequest, Calm, OneCharacter, OutStage, Stage, ToMove, ToLeave
<1>10. Points'
  BY <1>7, NoPoints DEF Stage, ToMove
<1>11. \A n \in Map : Seat(n)' => Seat(n)
  BY <1>1, <1>7, <1>8 DEF Seat
<1>12. OneSeat'
  BY <1>11 DEF Calm, OneSeat
<1>13. Home'
  <2>1. \A n \in Map : ~Goes(n)
    BY <1>3 DEF Goes, NoRequest, Stage, ToMove
  <2> QED BY <1>1, <1>11, <2>1, HomeFrame DEF Calm
<1>14. Clients'
  BY <1>1, <1>2, <1>3, <1>7 DEF Calm, Clients, Stage, ToMove, ToLeave
<1>15. Attended'
  <2> SUFFICES ASSUME NEW n \in Map PROVE AttendedAt(n)'
    BY DEF Attended
  <2>1. AttendedAt(n) /\ Expected(n)' = Expected(n)
    BY <1>1 DEF Calm, Attended, Expected
  <2>2. Behind(toMap'[n], Expected(n)')
    <3>1. CASE n = at
      <4>1. \A e : Behind(toMap[at], e) => Behind(toMap'[at], e)
        BY <1>2, <1>4, AppendBehind
      <4> QED BY <2>1, <3>1, <4>1 DEF AttendedAt
    <3>2. CASE n # at
      BY <1>4, <2>1, <3>2 DEF AttendedAt, Grown
    <3> QED BY <3>1, <3>2
  <2>3. \A j : Has(toMap[n], j) => Has(toMap'[n], j)
    BY <1>4 DEF Grown
  <2> QED BY <1>1, <2>1, <2>2, <2>3 DEF AttendedAt, Present
<1> QED BY <1>6, <1>9, <1>10, <1>12, <1>13, <1>14, <1>15 DEF Calm

(***************************************************************************)
(* The invariant holds.                                                    *)
(***************************************************************************)

LEMMA CalmFirst == ArrivalAssumption /\ Init => Calm
<1> SUFFICES ASSUME ArrivalAssumption, Init PROVE Calm
  OBVIOUS
<1>1. \A m \in Map : /\ toMap[m] = <<>> /\ toAgent[m] = <<>> /\ query[m] = <<>> /\ answer[m] = <<>>
                     /\ at # m /\ ~Present(m)
  BY DEF Init, Present, ArrivalAssumption
<1>2. \A m \in Map : /\ \A k : /\ ~Has(toMap[m], k) /\ ~Has(toAgent[m], k)
                               /\ ~Has(query[m], k) /\ ~Has(answer[m], k)
                     /\ \A k : /\ Once(toMap[m], k) /\ Once(toAgent[m], k)
                               /\ Once(query[m], k) /\ Once(answer[m], k)
  BY <1>1, EmptyHas
<1>3. NoRequest /\ Nowhere /\ OnceEach
  BY <1>1, <1>2 DEF NoRequest, Nowhere, OnceEach, Asked, Comes
<1>4. \A m \in Map : ~Seat(m)
  BY <1>1, <1>2, <1>3 DEF Seat, Nowhere, NoRequest, Saving
<1>5. OneRequest /\ OneCharacter /\ OneSeat /\ Home
  BY <1>1, <1>3, <1>4
     DEF OneRequest, OneCharacter, OneSeat, Home, NoRequest, Nowhere, OutStage, Stage, ToMove, ToLeave
<1>6. Points
  <2> SUFFICES ASSUME NEW m \in Map PROVE PointAt(m)
    BY DEF Points
  <2>1. \A i \in DOMAIN query[m] : query[m][i].kind # "point"
    BY <1>2 DEF Has
  <2>2. PointLast(query[m], dbMap)
    BY <2>1 DEF PointLast
  <2> QED BY <1>2, <2>2 DEF PointAt
<1>7. Clients
  BY <1>3 DEF Init, Clients
<1>8. Attended
  <2> SUFFICES ASSUME NEW m \in Map PROVE AttendedAt(m)
    BY DEF Attended
  <2>1. \A e : Behind(toMap[m], e)
    BY <1>2 DEF Behind, Has
  <2> QED BY <1>1, <2>1 DEF AttendedAt
<1> QED BY <1>3, <1>5, <1>6, <1>7, <1>8 DEF Calm

LEMMA CalmLater ==
  ASSUME ArrivalAssumption, QueuesOK, RestOK, QueuesOK', Next, ~hurried => Calm
  PROVE  (~hurried => Calm)'
<1>1. CASE Attach
  <2> SUFFICES ASSUME ~hurried' PROVE Calm'
    OBVIOUS
  <2>1. ~hurried /\ Settled
    BY <1>1 DEF Attach, RestOK
  <2> QED BY <1>1, <2>1, AttachCalm
<1>2. CASE ~Attach
  <2>1. UNCHANGED hurried
    BY <1>2 DEF Next, ClientStep, AgentStep, MapStep, ListRead, InsistedLogout, CharacterSelect,
                GameinSyn, BackToCharSelSyn, Disconnect, ChangeMapSyn, GameinNack, GameinAck, MapOut,
                ChangeMapNack, BackToCharSelAck, LoginCheckDelete, GameInSyn, Removed, Disconnected,
                ChangeMap, BackToCharSel, Execute, HandleAnswer, agentVars
  <2> SUFFICES ASSUME Calm PROVE Calm'
    BY <2>1
  <2>2. CASE ClientStep \/ ListRead \/ InsistedLogout
    <3>1. CASE CharacterSelect \/ ListRead \/ InsistedLogout
      BY <3>1, CharacterSelectCalm, ListReadCalm
    <3>2. CASE GameinSyn \/ BackToCharSelSyn \/ \E target \in Map : ChangeMapSyn(target)
      BY <3>2, EnterCalm, RequestCalm, QuietCalm
    <3>3. CASE Disconnect
      BY <3>3, SessionEnds DEF Disconnect, FromMapsQuietly, dbVars
    <3> QED BY <1>2, <2>2, <3>1, <3>2, <3>3 DEF ClientStep
  <2>3. ASSUME NEW m \in Map, AgentStep(m) PROVE Calm'
    BY <2>3, GameinNackCalm, GameinAckCalm, MapOutCalm, ChangeMapNackCalm, BackAckCalm DEF AgentStep
  <2>4. ASSUME NEW m \in Map, MapStep(m) PROVE Calm'
    BY <2>4, GameInSynCalm, RemovedCalm, ChangeMapCalm, BackToCharSelCalm DEF MapStep
  <2>5. ASSUME NEW m \in Map, Execute(m) PROVE Calm'
    BY <2>5, ExecuteSave, ExecuteOther
  <2>6. ASSUME NEW m \in Map, HandleAnswer(m) PROVE Calm'
    BY <2>6, HandleAnswerCalm
  <2> QED BY <2>2, <2>3, <2>4, <2>5, <2>6 DEF Next
<1> QED BY <1>1, <1>2

\* While no session has begun before the one before it had left everywhere, there is
\* at most one request to leave a map, the character is on its way to a map, there
\* or on its way out, everything that concerns it is at that one map, and the
\* database says the map where it will be found.
THEOREM CharacterHasOneSeat == SafeSpec => []IInv
<1>1. Init => IInv
  BY TypesFirst, Types, ArrivalAssumption, CalmFirst DEF IInv
<1>2. IInv /\ [Next]_vars => IInv'
  <2> SUFFICES ASSUME IInv, [Next]_vars PROVE IInv'
    OBVIOUS
  <2>1. QueuesOK /\ RestOK /\ (~hurried => Calm)
    BY Types DEF IInv
  <2>2. CASE Next
    <3>1. QueuesOK' /\ RestOK'
      BY <2>1, <2>2, ArrivalAssumption, ClientTypes, AgentTypes, MapTypes, DatabaseTypes DEF Next
    <3>2. (~hurried => Calm)'
      BY <2>1, <2>2, <3>1, ArrivalAssumption, CalmLater
    <3> QED BY <3>1, <3>2, TypesToo DEF IInv
  <2>3. CASE UNCHANGED vars
    <3>1. QueuesOK' /\ RestOK'
      BY <2>1, <2>3 DEF vars, QueuesOK, RestOK
    <3>2. (~hurried => Calm)'
      BY <2>1, <2>3, <3>1, QuietCalm DEF vars
    <3> QED BY <3>1, <3>2, TypesToo DEF IInv
  <2> QED BY <2>2, <2>3
<1> QED BY <1>1, <1>2, PTL DEF SafeSpec

\* The character's data, from the moment a map server has them until the save of its
\* departure has been carried out, are at one map server only: what the next one
\* reads is what the last one has saved.
THEOREM OneMapHolds == SafeSpec => []OneHolder
<1>1. IInv => OneHolder
  <2> SUFFICES ASSUME Calm, NEW m \in Map, NEW n \in Map, Holds(m), Holds(n), QueuesOK PROVE m = n
    BY Types DEF IInv, OneHolder
  <2>1. \A z \in Map : Holds(z) => Seat(z)
    <3> SUFFICES ASSUME NEW z \in Map, Holds(z), ~Present(z) PROVE Saving(z)
      BY DEF Seat
    <3>1. PICK x \in ToSet(query[z]) : x.kind = "save"
      BY DEF Holds
    <3> QED BY <3>1 DEF ToSet, Saving, Has
  <2> QED BY <2>1 DEF Calm, OneSeat
<1> QED BY <1>1, CharacterHasOneSeat, PTL

\* A character that is on a map has the session the agent has for that map, or a
\* message that will remove it is under way; the messages and queries are well formed.
THEOREM PlayersStaySound == SafeSpec => []PlayersSound
<1>1. IInv => PlayersSound
  <2> SUFFICES ASSUME IInv PROVE NoOrphan
    BY DEF IInv, PlayersSound
  <2> SUFFICES ASSUME ~hurried, NEW m \in Map, Present(m), ~(at = m /\ session = player[m].key)
               PROVE  \/ Sent(m, "disconnected") \/ Sent(m, "gameinNack") \/ Sent(m, "otherMap")
    BY DEF NoOrphan
  <2>1. QueuesOK /\ RestOK /\ Calm
    BY Types DEF IInv
  <2>2. player[m].key \in Key
    BY <2>1 DEF RestOK, Present
  <2>3. player[m].key # Expected(m)
    BY <2>2, ArrivalAssumption DEF Expected, Key, ArrivalAssumption
  <2>4. PICK k \in Removing : Has(toMap[m], k)
    BY <2>1, <2>3 DEF Calm, Attended, AttendedAt
  <2>5. Sent(m, k)
    BY <2>4 DEF Has, Sent, ToSet
  <2> QED BY <2>4, <2>5 DEF Removing
<1> QED BY <1>1, CharacterHasOneSeat, PTL
=============================================================================
