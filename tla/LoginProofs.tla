----------------------------- MODULE LoginProofs -----------------------------
(* What the log-ins of accounts guarantee for any number of agents,        *)
(* accounts, sessions and USERINFOs.                                       *)
EXTENDS Login, SequenceTheorems, TLAPS

(***************************************************************************)
(* Queues of messages.                                                     *)
(***************************************************************************)

\* Some message of q is one of M; at most one is.
Has(q, M)  == \E i \in DOMAIN q : q[i] \in M
Once(q, M) == \A i, j \in DOMAIN q : q[i] \in M /\ q[j] \in M => i = j

LEMMA AppendHas ==
  ASSUME NEW T, NEW q \in Seq(T), NEW e \in T
  PROVE  /\ Append(q, e) \in Seq(T)
         /\ \A M : Has(Append(q, e), M) <=> Has(q, M) \/ e \in M
         /\ \A M : Once(q, M) /\ (e \in M => ~Has(q, M)) => Once(Append(q, e), M)
<1>1. Len(q) \in Nat /\ DOMAIN q = 1..Len(q)
  BY LenProperties
<1>2. /\ Append(q, e) \in Seq(T) /\ Len(Append(q, e)) = Len(q) + 1
      /\ \A i \in 1..Len(q) : Append(q, e)[i] = q[i]
      /\ Append(q, e)[Len(q) + 1] = e
  BY <1>1, AppendProperties
<1>3. DOMAIN Append(q, e) = 1..(Len(q) + 1)
  BY <1>2, LenProperties
<1>4. ASSUME NEW M PROVE Has(Append(q, e), M) <=> Has(q, M) \/ e \in M
  BY <1>1, <1>2, <1>3 DEF Has
<1>5. ASSUME NEW M, Once(q, M), e \in M => ~Has(q, M) PROVE Once(Append(q, e), M)
  BY <1>1, <1>2, <1>3, <1>5 DEF Has, Once
<1> QED BY <1>2, <1>4, <1>5

LEMMA TailHas ==
  ASSUME NEW T, NEW q \in Seq(T), q # <<>>
  PROVE  /\ Head(q) \in T /\ Tail(q) \in Seq(T)
         /\ \A M : Has(q, M) <=> Head(q) \in M \/ Has(Tail(q), M)
         /\ \A M : Once(q, M) => Once(Tail(q), M) /\ (Head(q) \in M => ~Has(Tail(q), M))
<1>1. Len(q) \in Nat \ {0} /\ DOMAIN q = 1..Len(q) /\ Head(q) = q[1]
  BY LenProperties, EmptySeq
<1>2. /\ Head(q) \in T /\ Tail(q) \in Seq(T) /\ Len(Tail(q)) = Len(q) - 1
      /\ \A i \in 1..(Len(q) - 1) : Tail(q)[i] = q[i + 1]
  BY HeadTailProperties
<1>3. DOMAIN Tail(q) = 1..(Len(q) - 1)
  BY <1>2, LenProperties
<1>4. ASSUME NEW M PROVE Has(q, M) <=> Head(q) \in M \/ Has(Tail(q), M)
  <2>1. ASSUME NEW i \in 1..Len(q), q[i] \in M, i # 1 PROVE Has(Tail(q), M)
    <3>1. i - 1 \in 1..(Len(q) - 1) /\ Tail(q)[i - 1] = q[i]
      BY <1>1, <1>2, <2>1
    <3> QED BY <1>3, <2>1, <3>1 DEF Has
  <2>2. Has(q, M) => Head(q) \in M \/ Has(Tail(q), M)
    BY <1>1, <2>1 DEF Has
  <2>3. Head(q) \in M \/ Has(Tail(q), M) => Has(q, M)
    BY <1>1, <1>2, <1>3 DEF Has
  <2> QED BY <2>2, <2>3
<1>5. ASSUME NEW M, Once(q, M) PROVE Once(Tail(q), M) /\ (Head(q) \in M => ~Has(Tail(q), M))
  BY <1>1, <1>2, <1>3, <1>5 DEF Has, Once
<1> QED BY <1>2, <1>4, <1>5

(***************************************************************************)
(* Types.                                                                  *)
(***************************************************************************)

Query     == {Logout(x) : x \in Account} \cup {LoginOf(s) : s \in Session}
Answer    == [session : Session, state : {1, 4}]
ToAgentMsg == [kind : {"login", "alreadyOut", "disconnectedOnLogin", "force"}, session : Session]
ToDistMsg  == [kind : {"ack", "nack"}, session : Session]

\* The four queues, and everything else.
QueuesOK ==
  /\ query \in Seq(Query) /\ answer \in Seq(Answer)
  /\ toAgent \in [Agent -> Seq(ToAgentMsg)] /\ toDist \in [Agent -> Seq(ToDistMsg)]

UserInfo == [session : Session \cup {NoSession}, connection : Session \cup {NoSession},
             character : BOOLEAN]

PoolOK ==
  /\ used \in [Agent -> SUBSET Block] /\ info \in [Agent -> [Block -> UserInfo]]
  /\ byAccount \in [Agent -> [Account -> Block \cup {NoBlock}]]

CountsOK == logouts \in [Agent -> [Account -> Nat]] /\ saving \in [Agent -> [Account -> Nat]]

ConnectionsOK ==
  /\ byConnection \in [Session -> Block \cup {NoBlock}]
  /\ kicked \in [Session -> BOOLEAN]
  /\ client \in [Session -> {"away", "dist", "told", "agent", "playing", "gone"}]

DistOK ==
  /\ online \in [Account -> BOOLEAN] /\ lost \subseteq Account
  /\ link \in [Session -> {"none", "open", "closing", "left", "broken"}]
  /\ user \in [Session -> [state : {0, 1, 4}, delete : BOOLEAN, distOut : BOOLEAN]]
  /\ waiting \in [Account -> {"no", "recent", "old"}]

AgentOK == /\ PoolOK /\ CountsOK /\ ready \in [Agent -> BOOLEAN] /\ reused \subseteq Session

RestOK == DistOK /\ AgentOK /\ ConnectionsOK /\ agentOf \in [Session -> Agent]

LEMMA Types == TypeOK <=> QueuesOK /\ RestOK
BY DEF TypeOK, QueuesOK, RestOK, DistOK, AgentOK, PoolOK, CountsOK, ConnectionsOK, UserInfo, Query, Answer,
       ToAgentMsg, ToDistMsg

LEMMA TypesAfter == TypeOK' <=> QueuesOK' /\ RestOK'
BY DEF TypeOK, QueuesOK, RestOK, DistOK, AgentOK, PoolOK, CountsOK, ConnectionsOK, UserInfo, Query, Answer,
       ToAgentMsg, ToDistMsg

\* What one message added to a queue, or taken from it, leaves of the types.
LEMMA MessageTypes ==
  /\ \A x \in Account : Logout(x) \in Query
  /\ \A s \in Session :
       /\ LoginOf(s) \in Query
       /\ \A k \in {"login", "alreadyOut", "disconnectedOnLogin", "force"} : Message(k, s) \in ToAgentMsg
       /\ \A k \in {"ack", "nack"} : Message(k, s) \in ToDistMsg
       /\ \A st \in {1, 4} : [session |-> s, state |-> st] \in Answer
BY DEF Query, Message, ToAgentMsg, ToDistMsg, Answer

LEMMA Appended ==
  ASSUME QueuesOK
  PROVE  /\ \A e \in Query : Append(query, e) \in Seq(Query)
         /\ \A e \in Answer : Append(answer, e) \in Seq(Answer)
         /\ \A a \in Agent : \A e \in ToAgentMsg : Append(toAgent[a], e) \in Seq(ToAgentMsg)
         /\ \A a \in Agent : \A e \in ToDistMsg : Append(toDist[a], e) \in Seq(ToDistMsg)
BY AppendHas DEF QueuesOK

LEMMA Tailed ==
  ASSUME QueuesOK
  PROVE  /\ query # <<>> => Head(query) \in Query /\ Tail(query) \in Seq(Query)
         /\ answer # <<>> => Head(answer) \in Answer /\ Tail(answer) \in Seq(Answer)
         /\ \A a \in Agent : toAgent[a] # <<>> =>
              Head(toAgent[a]) \in ToAgentMsg /\ Tail(toAgent[a]) \in Seq(ToAgentMsg)
         /\ \A a \in Agent : toDist[a] # <<>> =>
              Head(toDist[a]) \in ToDistMsg /\ Tail(toDist[a]) \in Seq(ToDistMsg)
BY TailHas DEF QueuesOK

LEMMA NextQueues ==
  ASSUME QueuesOK, RestOK, Next
  PROVE  QueuesOK'
<1>1. CASE UNCHANGED <<query, answer, toAgent, toDist>>
  BY <1>1 DEF QueuesOK
<1>2. ASSUME NEW s \in Session, LoginSyn(s) PROVE QueuesOK'
  BY <1>2, Appended, MessageTypes DEF LoginSyn, msgVars, QueuesOK
<1>3. CASE HandleAnswer
  <2>1. /\ Head(answer) \in Answer /\ Tail(answer) \in Seq(Answer)
        /\ answer' = Tail(answer) /\ UNCHANGED toDist
    BY <1>3, Tailed DEF HandleAnswer
  <2>2. Head(answer).session \in Session
    BY <2>1 DEF Answer
  <2>3. query' = query \/ \E x \in Account : query' = Append(query, Logout(x))
    BY <1>3, <2>2, LoginAssumption DEF HandleAnswer, LoginAssumption
  <2>4. toAgent' = toAgent \/ \E s \in Session :
          toAgent' = [toAgent EXCEPT ![agentOf[s]] = Append(@, Message("login", s))]
    <3> DEFINE s == Head(answer).session
    <3>1. toAgent' = toAgent \/ toAgent' = [toAgent EXCEPT ![agentOf[s]] = Append(@, Message("login", s))]
      BY <1>3 DEF HandleAnswer
    <3> QED BY <2>2, <3>1
  <2>5. query' \in Seq(Query)
    BY <2>3, Appended, MessageTypes DEF QueuesOK
  <2>6. toAgent' \in [Agent -> Seq(ToAgentMsg)]
    <3> SUFFICES ASSUME NEW s \in Session,
                        toAgent' = [toAgent EXCEPT ![agentOf[s]] = Append(@, Message("login", s))]
                 PROVE  toAgent' \in [Agent -> Seq(ToAgentMsg)]
      BY <2>4 DEF QueuesOK
    <3>1. agentOf[s] \in Agent
      BY DEF RestOK
    <3>2. Append(toAgent[agentOf[s]], Message("login", s)) \in Seq(ToAgentMsg)
      BY <3>1, Appended, MessageTypes
    <3> QED BY <3>1, <3>2 DEF QueuesOK
  <2> QED BY <2>1, <2>5, <2>6 DEF QueuesOK
<1>4. ASSUME NEW s \in Session, NEW k \in {"disconnectedOnLogin", "force"}, Broadcast(Message(k, s))
      PROVE  toAgent' \in [Agent -> Seq(ToAgentMsg)]
  BY <1>4, Appended, MessageTypes DEF Broadcast
<1>5. ASSUME NEW s \in Session, ForceSyn(s) PROVE QueuesOK'
  <2>1. query' \in Seq(Query)
    BY <1>5, Appended, MessageTypes, LoginAssumption DEF ForceSyn, QueuesOK, LoginAssumption
  <2> QED BY <1>4, <1>5, <2>1 DEF ForceSyn, QueuesOK
<1>6. ASSUME NEW s \in Session, OnDisconnectUser(s) PROVE QueuesOK'
  <2>1. query' \in Seq(Query)
    BY <1>6, Appended, MessageTypes, LoginAssumption DEF OnDisconnectUser, QueuesOK, LoginAssumption
  <2>2. toAgent' \in [Agent -> Seq(ToAgentMsg)]
    BY <1>4, <1>6 DEF OnDisconnectUser, QueuesOK
  <2> QED BY <1>6, <2>1, <2>2 DEF OnDisconnectUser, QueuesOK
<1>7. ASSUME NEW a \in Agent, NotifyAck(a) \/ NotifyNack(a) PROVE QueuesOK'
  <2>1. /\ Head(toDist[a]) \in ToDistMsg /\ toDist' \in [Agent -> Seq(ToDistMsg)]
        /\ UNCHANGED <<query, answer>>
    BY <1>7, Tailed DEF NotifyAck, NotifyNack, dbVars, QueuesOK
  <2>2. Head(toDist[a]).session \in Session
    BY <2>1 DEF ToDistMsg
  <2>3. toAgent' \in [Agent -> Seq(ToAgentMsg)]
    BY <1>7, <2>2, Appended, MessageTypes DEF NotifyAck, NotifyNack, QueuesOK
  <2> QED BY <2>1, <2>3 DEF QueuesOK
<1>8. CASE ExecuteQuery
  <2>1. /\ Head(query) \in Query /\ Tail(query) \in Seq(Query) /\ query' = Tail(query)
        /\ UNCHANGED <<toAgent, toDist>>
    BY <1>8, Tailed DEF ExecuteQuery, msgVars
  <2>2. CASE Head(query).kind = "logout"
    BY <1>8, <2>1, <2>2 DEF ExecuteQuery, QueuesOK
  <2>3. CASE Head(query).kind # "logout"
    <3>1. PICK s \in Session : Head(query) = LoginOf(s)
      BY <2>1, <2>3 DEF Query, Logout
    <3>2. \E st \in {1, 4} : answer' = Append(answer, [session |-> s, state |-> st])
      BY <1>8, <2>3, <3>1 DEF ExecuteQuery, LoginOf
    <3>3. answer' \in Seq(Answer)
      BY <3>2, Appended, MessageTypes
    <3> QED BY <2>1, <3>3 DEF QueuesOK
  <2> QED BY <2>2, <2>3
<1>9. ASSUME NEW a \in Agent, toAgent[a] # <<>>, Received(a)
      PROVE  /\ Head(toAgent[a]).session \in Session
             /\ toAgent' \in [Agent -> Seq(ToAgentMsg)]
  <2>1. Head(toAgent[a]) \in ToAgentMsg /\ Tail(toAgent[a]) \in Seq(ToAgentMsg)
    BY <1>9, Tailed
  <2> QED BY <1>9, <2>1 DEF Received, QueuesOK, ToAgentMsg
<1>10. ASSUME NEW a \in Agent, NotifyLogin(a) PROVE QueuesOK'
  <2>1. toDist' \in [Agent -> Seq(ToDistMsg)]
    <3> DEFINE s == Head(toAgent[a]).session
    <3>1. s \in Session
      BY <1>9, <1>10 DEF NotifyLogin, HeadIs
    <3>2. toDist' = toDist \/ \E k \in {"ack", "nack"} : Reply(a, k, s)
      BY <1>10 DEF NotifyLogin, RefuseLogin, TakeLogin
    <3> HIDE DEF s
    <3>3. ASSUME NEW k \in {"ack", "nack"}, Reply(a, k, s) PROVE toDist' \in [Agent -> Seq(ToDistMsg)]
      <4>1. Append(toDist[a], Message(k, s)) \in Seq(ToDistMsg)
        BY <3>1, Appended, MessageTypes DEF QueuesOK
      <4> QED BY <3>3, <4>1 DEF Reply, QueuesOK
    <3> QED BY <3>2, <3>3 DEF QueuesOK
  <2> QED BY <1>9, <1>10, <2>1 DEF NotifyLogin, HeadIs, dbVars, QueuesOK
<1>11. ASSUME NEW a \in Agent, AlreadyOut(a) \/ DisconnectedOnLogin(a) \/ ForceOut(a) PROVE QueuesOK'
  BY <1>9, <1>11 DEF AlreadyOut, DisconnectedOnLogin, ForceOut, HeadIs, QueuesOK
<1>12. ASSUME NEW s \in Session,
              \/ Connect(s) \/ LoginAck(s) \/ DistOut(s) \/ Break(s) \/ AgentAccept(s)
              \/ CharacterList(s) \/ CharacterSelect(s) \/ BackToCharSel(s)
              \/ AgentDisconnect(s) \/ ConnectionCheck(s) \/ GiveUp(s)
       PROVE  UNCHANGED <<query, answer, toAgent, toDist>>
  BY <1>12 DEF Connect, LoginAck, DistOut, Break, AgentAccept, CharacterList, CharacterSelect,
               BackToCharSel, AgentDisconnect, ConnectionCheck, GiveUp, dbVars, msgVars
<1>13. ASSUME \/ \E x \in Account : TenSeconds(x)
              \/ \E a \in Agent : Start(a)
              \/ \E a \in Agent, x \in Account : ExecuteLogout(a, x) \/ LoginCheckDeleted(a, x)
       PROVE  UNCHANGED <<query, answer, toAgent, toDist>>
  BY <1>13 DEF TenSeconds, Start, ExecuteLogout, LoginCheckDeleted, dbVars, msgVars
<1> QED BY <1>1, <1>2, <1>3, <1>5, <1>6, <1>7, <1>8, <1>10, <1>11, <1>12, <1>13
     DEF Next, ClientStep, DistStep, AgentStep, DatabaseStep

\* The messages that carry a session.
LEMMA HeadSessions ==
  ASSUME QueuesOK
  PROVE  /\ answer # <<>> => Head(answer).session \in Session /\ Head(answer).state \in {1, 4}
         /\ \A a \in Agent : toAgent[a] # <<>> => Head(toAgent[a]).session \in Session
         /\ \A a \in Agent : toDist[a] # <<>> => Head(toDist[a]).session \in Session
BY Tailed DEF Answer, ToAgentMsg, ToDistMsg

LEMMA DeleteTurned ==
  ASSUME RestOK, NEW s \in Session
  PROVE  [user EXCEPT ![s].delete = ~@]
           \in [Session -> [state : {0, 1, 4}, delete : BOOLEAN, distOut : BOOLEAN]]
<1>1. PICK b \in BOOLEAN : b = ~user[s].delete
  OBVIOUS
<1>2. [user EXCEPT ![s].delete = b]
           \in [Session -> [state : {0, 1, 4}, delete : BOOLEAN, distOut : BOOLEAN]]
  BY DEF RestOK, DistOK
<1> QED BY <1>1, <1>2

LEMMA DistRest ==
  ASSUME QueuesOK, RestOK, DistStep \/ \E s \in Session : ForceSyn(s) \/ Break(s) \/ DistOut(s)
  PROVE  RestOK'
<1>1. UNCHANGED <<online, logouts, agentVars, agentOf>>
  BY DEF DistStep, HandleAnswer, OnDisconnectUser, NotifyAck, NotifyNack, ForceSyn, Break, DistOut,
         DistDisconnect, dbVars, clientVars
<1>2. AgentOK' /\ agentOf' \in [Session -> Agent]
      /\ byConnection' \in [Session -> Block \cup {NoBlock}] /\ kicked' \in [Session -> BOOLEAN]
  BY <1>1 DEF agentVars, RestOK, AgentOK, PoolOK, CountsOK, ConnectionsOK
<1> SUFFICES /\ lost' \subseteq Account
             /\ link' \in [Session -> {"none", "open", "closing", "left", "broken"}]
             /\ client' \in [Session -> {"away", "dist", "told", "agent", "playing", "gone"}]
             /\ user' \in [Session -> [state : {0, 1, 4}, delete : BOOLEAN, distOut : BOOLEAN]]
             /\ waiting' \in [Account -> {"no", "recent", "old"}]
  BY <1>1, <1>2 DEF RestOK, DistOK, ConnectionsOK
<1> USE DEF RestOK, DistOK, ConnectionsOK
<1>3. CASE HandleAnswer
  <2> DEFINE s == Head(answer).session
  <2>1. s \in Session /\ AccountOf[s] \in Account
    BY <1>3, HeadSessions, LoginAssumption DEF HandleAnswer, LoginAssumption
  <2>2. UNCHANGED <<link, client>>
    BY <1>3 DEF HandleAnswer, clientVars
  <2>3. \/ user' = user
        \/ user' = [user EXCEPT ![s].state = 1, ![s].delete = TRUE]
        \/ user' = [user EXCEPT ![s].state = 4]
    BY <1>3 DEF HandleAnswer
  <2>4. /\ waiting' = waiting \/ waiting' = [waiting EXCEPT ![AccountOf[s]] = "no"]
        /\ lost' = lost \/ lost' = lost \cup {AccountOf[s]}
    BY <1>3 DEF HandleAnswer
  <2> HIDE DEF s
  <2>5. user' \in [Session -> [state : {0, 1, 4}, delete : BOOLEAN, distOut : BOOLEAN]]
    BY <2>1, <2>3
  <2>6. waiting' \in [Account -> {"no", "recent", "old"}] /\ lost' \subseteq Account
    BY <2>1, <2>4
  <2> QED BY <2>2, <2>5, <2>6
<1>4. ASSUME NEW s \in Session, OnDisconnectUser(s) PROVE RestOK'
  <2>1. /\ link' = [link EXCEPT ![s] = IF user[s].distOut THEN "left" ELSE "broken"]
        /\ user' = [user EXCEPT ![s] = FreshUser] /\ UNCHANGED <<lost, waiting, client>>
    BY <1>4 DEF OnDisconnectUser, clientVars
  <2> QED BY <1>1, <1>2, <2>1 DEF FreshUser
<1>5. ASSUME NEW a \in Agent, NotifyAck(a) \/ NotifyNack(a) PROVE RestOK'
  <2> DEFINE s == Head(toDist[a]).session
  <2>1. s \in Session
    BY <1>5, HeadSessions DEF NotifyAck, NotifyNack
  <2>2. /\ user' = user \/ user' = [user EXCEPT ![s].delete = ~@]
        /\ UNCHANGED <<link, client>> \/ DistDisconnect(s)
        /\ UNCHANGED <<lost, waiting>>
    BY <1>5 DEF NotifyAck, NotifyNack, clientVars, dbVars
  <2> HIDE DEF s
  <2>3. user' \in [Session -> [state : {0, 1, 4}, delete : BOOLEAN, distOut : BOOLEAN]]
    <3>1. CASE user' = user
      BY <3>1
    <3>2. CASE user' = [user EXCEPT ![s].delete = ~@]
      BY <2>1, <3>2, DeleteTurned
    <3> QED BY <2>2, <3>1, <3>2
  <2>4. /\ link' \in [Session -> {"none", "open", "closing", "left", "broken"}]
        /\ client' \in [Session -> {"away", "dist", "told", "agent", "playing", "gone"}]
    BY <2>1, <2>2 DEF DistDisconnect
  <2> QED BY <1>1, <1>2, <2>2, <2>3, <2>4
<1>6. ASSUME NEW s \in Session, ForceSyn(s) PROVE RestOK'
  <2>1. /\ link' = [link EXCEPT ![s] = "closing"] /\ client' = [client EXCEPT ![s] = "gone"]
        /\ UNCHANGED <<user, lost>>
    BY <1>6 DEF ForceSyn
  <2>2. waiting' \in [Account -> {"no", "recent", "old"}]
    BY <1>6, LoginAssumption DEF ForceSyn, LoginAssumption
  <2> QED BY <1>1, <1>2, <2>1, <2>2
<1>7. ASSUME NEW s \in Session, Break(s) \/ DistOut(s) PROVE RestOK'
  <2>1. /\ user' = user \/ user' = [user EXCEPT ![s].distOut = TRUE]
        /\ client' = client \/ client' = [client EXCEPT ![s] = IF @ = "dist" THEN "gone" ELSE @]
        /\ link' = [link EXCEPT ![s] = "closing"] /\ UNCHANGED <<lost, waiting>>
    BY <1>7 DEF Break, DistOut, DistDisconnect, clientVars, dbVars
  <2>2. user' \in [Session -> [state : {0, 1, 4}, delete : BOOLEAN, distOut : BOOLEAN]]
    <3>1. [user EXCEPT ![s].distOut = TRUE]
            \in [Session -> [state : {0, 1, 4}, delete : BOOLEAN, distOut : BOOLEAN]]
      OBVIOUS
    <3> QED BY <2>1, <3>1
  <2>3. /\ link' \in [Session -> {"none", "open", "closing", "left", "broken"}]
        /\ client' \in [Session -> {"away", "dist", "told", "agent", "playing", "gone"}]
    BY <2>1
  <2> QED BY <1>1, <1>2, <2>1, <2>2, <2>3
<1> QED BY <1>3, <1>4, <1>5, <1>6, <1>7 DEF DistStep

\* The blocks: what they hold, and what taking and freeing one leaves of the types.
LEMMA Blocks ==
  ASSUME RestOK
  PROVE  /\ \A a \in Agent : \A s \in Session : Found(a, s) \in Block \cup {NoBlock}
         /\ \A a \in Agent : \A b \in Block :
              /\ info[a][b] \in UserInfo
              /\ info[a][b].session # NoSession =>
                   info[a][b].session \in Session /\ AccountOf[info[a][b].session] \in Account
              /\ info[a][b].connection # NoSession => info[a][b].connection \in Session
<1>1. \A a \in Agent : \A x \in Account : byAccount[a][x] \in Block \cup {NoBlock}
  BY DEF RestOK, AgentOK, PoolOK
<1>2. ASSUME NEW a \in Agent, NEW b \in Block PROVE info[a][b] \in UserInfo
  BY DEF RestOK, AgentOK, PoolOK
<1> QED BY <1>1, <1>2, LoginAssumption DEF Found, LoginAssumption, UserInfo

LEMMA ZeroedTypes ==
  /\ Zeroed \in UserInfo
  /\ \A s \in Session : [Zeroed EXCEPT !.session = s] \in UserInfo
                        /\ [Zeroed EXCEPT !.connection = s] \in UserInfo
BY DEF Zeroed, UserInfo

LEMMA FreeTypes ==
  ASSUME RestOK, NEW a \in Agent, NEW b \in Block, Free(a, b)
  PROVE  used' \in [Agent -> SUBSET Block] /\ info' \in [Agent -> [Block -> UserInfo]]
<1>1. used \in [Agent -> SUBSET Block] /\ info \in [Agent -> [Block -> UserInfo]]
  BY DEF RestOK, AgentOK, PoolOK
<1> QED BY <1>1, ZeroedTypes DEF Free

LEMMA AllocTypes ==
  ASSUME RestOK, NEW a \in Agent, NEW b, NEW freed, NEW u \in UserInfo, Alloc(a, b, freed, u)
  PROVE  /\ b \in Block /\ reused' \subseteq Session
         /\ used' \in [Agent -> SUBSET Block] /\ info' \in [Agent -> [Block -> UserInfo]]
<1>1. /\ used \in [Agent -> SUBSET Block] /\ info \in [Agent -> [Block -> UserInfo]]
      /\ reused \subseteq Session
  BY DEF RestOK, AgentOK, PoolOK
<1>2. b \in Block /\ reused' \subseteq Session /\ used' \in [Agent -> SUBSET Block]
  BY <1>1 DEF Alloc, Naming
<1>3. [c \in Block |-> IF c = b THEN u ELSE IF c \in freed THEN Zeroed ELSE info[a][c]]
        \in [Block -> UserInfo]
  BY <1>1, ZeroedTypes
<1>4. info' = [info EXCEPT ![a] = [c \in Block |-> IF c = b THEN u
                                     ELSE IF c \in freed THEN Zeroed ELSE info[a][c]]]
  BY DEF Alloc
<1> QED BY <1>1, <1>2, <1>3, <1>4

LEMMA CountTypes ==
  ASSUME RestOK, NEW a \in Agent, NEW x \in Account
  PROVE  /\ LoginCheckDelete(a, x) => logouts' \in [Agent -> [Account -> Nat]]
         /\ [saving EXCEPT ![a][x] = @ + 1] \in [Agent -> [Account -> Nat]]
         /\ saving[a][x] > 0 => [saving EXCEPT ![a][x] = @ - 1] \in [Agent -> [Account -> Nat]]
         /\ [byAccount EXCEPT ![a][x] = NoBlock] \in [Agent -> [Account -> Block \cup {NoBlock}]]
<1>1. /\ logouts \in [Agent -> [Account -> Nat]] /\ saving \in [Agent -> [Account -> Nat]]
      /\ byAccount \in [Agent -> [Account -> Block \cup {NoBlock}]]
  BY DEF RestOK, AgentOK, PoolOK, CountsOK
<1>2. [logouts EXCEPT ![a][x] = @ + 1] \in [Agent -> [Account -> Nat]]
  <2>1. [logouts[a] EXCEPT ![x] = @ + 1] \in [Account -> Nat]
    BY <1>1
  <2> QED BY <1>1, <2>1
<1>3. [saving EXCEPT ![a][x] = @ + 1] \in [Agent -> [Account -> Nat]]
  <2>1. [saving[a] EXCEPT ![x] = @ + 1] \in [Account -> Nat]
    BY <1>1
  <2> QED BY <1>1, <2>1
<1>4. [byAccount EXCEPT ![a][x] = NoBlock] \in [Agent -> [Account -> Block \cup {NoBlock}]]
  <2>1. [byAccount[a] EXCEPT ![x] = NoBlock] \in [Account -> Block \cup {NoBlock}]
    BY <1>1
  <2> QED BY <1>1, <2>1
<1>5. saving[a][x] > 0 => [saving EXCEPT ![a][x] = @ - 1] \in [Agent -> [Account -> Nat]]
  <2>1. saving[a][x] > 0 => [saving[a] EXCEPT ![x] = @ - 1] \in [Account -> Nat]
    BY <1>1
  <2> QED BY <1>1, <2>1
<1> QED BY <1>2, <1>3, <1>4, <1>5 DEF LoginCheckDelete

\* The ways the end of connection c changes the agent.
LeftAlone(c) == /\ byConnection[c] = NoBlock
                /\ UNCHANGED <<used, info, byAccount, logouts, saving>>
LeftFirst(a, c) == /\ byConnection[c] \in Block /\ info[a][byConnection[c]].session = NoSession
                   /\ Free(a, byConnection[c]) /\ UNCHANGED <<byAccount, logouts, saving>>
LeftAccount(a, c, x) ==
  /\ byConnection[c] \in Block /\ info[a][byConnection[c]].session # NoSession
  /\ x = AccountOf[info[a][byConnection[c]].session]
  /\ byAccount' = [byAccount EXCEPT ![a][x] = NoBlock]
  /\ \/ LoginCheckDelete(a, x) /\ UNCHANGED saving
     \/ saving' = [saving EXCEPT ![a][x] = @ + 1] /\ UNCHANGED logouts
  /\ Free(a, byConnection[c])

LEMMA LeaveCases ==
  ASSUME RestOK, NEW a \in Agent, NEW c \in Session, Leave(a, c)
  PROVE  /\ byConnection' = [byConnection EXCEPT ![c] = NoBlock]
         /\ kicked' = [kicked EXCEPT ![c] = FALSE] /\ client' = [client EXCEPT ![c] = "gone"]
         /\ LeftAlone(c) \/ LeftFirst(a, c) \/ \E x \in Account : LeftAccount(a, c, x)
<1>1. byConnection[c] \in Block \cup {NoBlock}
  BY DEF RestOK, ConnectionsOK
<1>2. CASE byConnection[c] = NoBlock
  BY <1>2 DEF Leave, LeftAlone
<1>3. CASE byConnection[c] \in Block /\ info[a][byConnection[c]].session = NoSession
  BY <1>3, LoginAssumption DEF Leave, LeftFirst, LoginAssumption
<1>4. CASE byConnection[c] \in Block /\ info[a][byConnection[c]].session # NoSession
  <2> DEFINE x == AccountOf[info[a][byConnection[c]].session]
  <2>1. x \in Account
    BY <1>4, Blocks
  <2>2. LeftAccount(a, c, x)
    BY <1>4, LoginAssumption DEF Leave, LeftAccount, LoginAssumption
  <2> QED BY <2>1, <2>2 DEF Leave
<1> QED BY <1>1, <1>2, <1>3, <1>4

LEMMA LeaveTypes ==
  ASSUME RestOK, NEW a \in Agent, NEW c \in Session, Leave(a, c), UNCHANGED <<ready, reused>>
  PROVE  AgentOK' /\ ConnectionsOK'
<1>1. PoolOK' /\ CountsOK'
  <2>1. CASE LeftAlone(c)
    BY <2>1 DEF LeftAlone, RestOK, AgentOK, PoolOK, CountsOK
  <2>2. CASE LeftFirst(a, c)
    BY <2>2, FreeTypes DEF LeftFirst, RestOK, AgentOK, PoolOK, CountsOK
  <2>3. ASSUME NEW x \in Account, LeftAccount(a, c, x) PROVE PoolOK' /\ CountsOK'
    <3>1. used' \in [Agent -> SUBSET Block] /\ info' \in [Agent -> [Block -> UserInfo]]
      BY <2>3, FreeTypes DEF LeftAccount
    <3>2. byAccount' \in [Agent -> [Account -> Block \cup {NoBlock}]]
      BY <2>3, CountTypes DEF LeftAccount
    <3>3. logouts' \in [Agent -> [Account -> Nat]] /\ saving' \in [Agent -> [Account -> Nat]]
      <4>1. \/ LoginCheckDelete(a, x) /\ UNCHANGED saving
            \/ saving' = [saving EXCEPT ![a][x] = @ + 1] /\ UNCHANGED logouts
        BY <2>3 DEF LeftAccount
      <4>2. logouts \in [Agent -> [Account -> Nat]] /\ saving \in [Agent -> [Account -> Nat]]
        BY DEF RestOK, AgentOK, CountsOK
      <4>3. CASE LoginCheckDelete(a, x) /\ UNCHANGED saving
        BY <4>2, <4>3, CountTypes
      <4>4. CASE saving' = [saving EXCEPT ![a][x] = @ + 1] /\ UNCHANGED logouts
        BY <4>2, <4>4, CountTypes
      <4> QED BY <4>1, <4>3, <4>4
    <3> QED BY <3>1, <3>2, <3>3 DEF PoolOK, CountsOK
  <2> QED BY <2>1, <2>2, <2>3, LeaveCases
<1> QED BY <1>1, LeaveCases DEF RestOK, AgentOK, ConnectionsOK

LEMMA FreeInfoTypes ==
  ASSUME RestOK, NEW a \in Agent, NEW x \in Account, byAccount[a][x] \in Block, FreeInfo(a, x),
         UNCHANGED <<ready, reused, saving>>
  PROVE  AgentOK'
BY FreeTypes, CountTypes DEF FreeInfo, RestOK, AgentOK, PoolOK, CountsOK

LEMMA TakeLoginTypes ==
  ASSUME RestOK, NEW a \in Agent, NEW s \in Session, TakeLogin(a, s), UNCHANGED <<ready, logouts, saving>>
  PROVE  AgentOK'
<1>1. CASE UNCHANGED <<used, info, byAccount, reused>>
  BY <1>1 DEF RestOK, AgentOK, PoolOK, CountsOK
<1>2. ASSUME NEW b \in Block, Alloc(a, b, {Found(a, s)} \ {NoBlock}, [Zeroed EXCEPT !.session = s]),
             byAccount' = [byAccount EXCEPT ![a][AccountOf[s]] = b]
      PROVE  AgentOK'
  <2>1. byAccount' \in [Agent -> [Account -> Block \cup {NoBlock}]]
    BY <1>2, LoginAssumption DEF RestOK, AgentOK, PoolOK, LoginAssumption
  <2> QED BY <1>2, <2>1, AllocTypes, ZeroedTypes DEF RestOK, AgentOK, PoolOK, CountsOK
<1> QED BY <1>1, <1>2 DEF TakeLogin

LEMMA AgentRest ==
  ASSUME QueuesOK, RestOK, NEW a \in Agent, AgentStep(a)
  PROVE  RestOK'
<1>1. DistOK' /\ agentOf' \in [Session -> Agent]
  <2>1. UNCHANGED <<online, lost, link, user, waiting, agentOf>>
    BY DEF AgentStep, Start, NotifyLogin, AlreadyOut, DisconnectedOnLogin, ForceOut, LoginCheckDeleted,
           dbVars, distVars, clientVars
  <2> QED BY <2>1 DEF RestOK, DistOK
<1> SUFFICES AgentOK' /\ ConnectionsOK'
  BY <1>1 DEF RestOK
<1>2. CASE Start(a)
  BY <1>2 DEF Start, dbVars, clientVars, RestOK, AgentOK, PoolOK, CountsOK, ConnectionsOK
<1>3. CASE NotifyLogin(a)
  <2> DEFINE s == Head(toAgent[a]).session
  <2>1. s \in Session
    BY <1>3, HeadSessions DEF NotifyLogin, HeadIs
  <2>2. /\ RefuseLogin(a, s) \/ TakeLogin(a, s)
        /\ UNCHANGED <<logouts, client, ready, byConnection, saving>>
    BY <1>3 DEF NotifyLogin, dbVars, clientVars
  <2> HIDE DEF s
  <2>3. CASE RefuseLogin(a, s)
    <3>1. AgentOK'
      BY <2>2, <2>3 DEF RefuseLogin, RestOK, AgentOK, PoolOK, CountsOK
    <3>2. kicked' = kicked \/ \E c \in Session : kicked' = [kicked EXCEPT ![c] = TRUE]
      BY <2>1, <2>3, Blocks DEF RefuseLogin
    <3> QED BY <2>2, <3>1, <3>2 DEF RestOK, ConnectionsOK
  <2>4. CASE TakeLogin(a, s)
    BY <2>1, <2>2, <2>4, TakeLoginTypes DEF TakeLogin, RestOK, ConnectionsOK
  <2> QED BY <2>2, <2>3, <2>4
<1>4. CASE AlreadyOut(a) \/ DisconnectedOnLogin(a)
  <2> DEFINE s == Head(toAgent[a]).session
  <2>1. s \in Session /\ AccountOf[s] \in Account
    BY <1>4, HeadSessions, LoginAssumption DEF AlreadyOut, DisconnectedOnLogin, HeadIs, LoginAssumption
  <2>2. /\ \/ Its(a, s) /\ FreeInfo(a, AccountOf[s])
           \/ UNCHANGED <<logouts, used, info, byAccount>>
        /\ UNCHANGED <<ready, reused, saving, client, byConnection, kicked>>
    BY <1>4 DEF AlreadyOut, DisconnectedOnLogin, clientVars
  <2> HIDE DEF s
  <2>3. Its(a, s) => byAccount[a][AccountOf[s]] \in Block
    BY <2>1, Blocks DEF Its, Found
  <2>4. AgentOK'
    <3>1. CASE UNCHANGED <<logouts, used, info, byAccount>>
      BY <2>2, <3>1 DEF RestOK, AgentOK, PoolOK, CountsOK
    <3> QED BY <2>1, <2>2, <2>3, <3>1, FreeInfoTypes
  <2> QED BY <2>2, <2>4 DEF RestOK, ConnectionsOK
<1>5. CASE ForceOut(a)
  <2> DEFINE s == Head(toAgent[a]).session  b == Found(a, s)
  <2>1. s \in Session /\ AccountOf[s] \in Account
    BY <1>5, HeadSessions, LoginAssumption DEF ForceOut, HeadIs, LoginAssumption
  <2>2. /\ \/ UNCHANGED <<logouts, client, used, info, byAccount, byConnection, kicked, saving>>
           \/ b # NoBlock /\ info[a][b].connection # NoSession /\ Leave(a, info[a][b].connection)
           \/ b # NoBlock /\ FreeInfo(a, AccountOf[s]) /\ UNCHANGED <<client, byConnection, kicked, saving>>
        /\ UNCHANGED <<ready, reused>>
    BY <1>5 DEF ForceOut
  <2>3. b \in Block \cup {NoBlock} /\ b = byAccount[a][AccountOf[s]]
    BY <2>1, Blocks DEF Found
  <2> HIDE DEF s, b
  <2>4. CASE UNCHANGED <<logouts, client, used, info, byAccount, byConnection, kicked, saving>>
    BY <2>2, <2>4 DEF RestOK, AgentOK, PoolOK, CountsOK, ConnectionsOK
  <2>5. CASE b # NoBlock /\ info[a][b].connection # NoSession /\ Leave(a, info[a][b].connection)
    BY <2>2, <2>3, <2>5, Blocks, LeaveTypes
  <2>6. CASE b # NoBlock /\ FreeInfo(a, AccountOf[s]) /\ UNCHANGED <<client, byConnection, kicked, saving>>
    BY <2>1, <2>2, <2>3, <2>6, FreeInfoTypes DEF RestOK, ConnectionsOK
  <2> QED BY <2>2, <2>4, <2>5, <2>6
<1>6. ASSUME NEW x \in Account, LoginCheckDeleted(a, x) PROVE AgentOK' /\ ConnectionsOK'
  <2>1. saving' \in [Agent -> [Account -> Nat]] /\ logouts' \in [Agent -> [Account -> Nat]]
    BY <1>6, CountTypes DEF LoginCheckDeleted, RestOK, AgentOK, CountsOK
  <2> QED BY <1>6, <2>1 DEF LoginCheckDeleted, clientVars, RestOK, AgentOK, PoolOK, CountsOK, ConnectionsOK
<1> QED BY <1>2, <1>3, <1>4, <1>5, <1>6 DEF AgentStep

LEMMA ClientRest ==
  ASSUME QueuesOK, RestOK, NEW s \in Session, ClientStep(s)
  PROVE  RestOK'
<1>a. PICK a \in Agent : a = agentOf[s]
  BY DEF RestOK
<1>1. CASE Connect(s) \/ LoginSyn(s) \/ LoginAck(s) \/ GiveUp(s)
  <2>1. /\ UNCHANGED <<online, lost, logouts, user, waiting, agentOf, agentVars>>
        /\ link' = link \/ link' = [link EXCEPT ![s] = "open"]
        /\ client' = client \/ \E v \in {"dist", "told", "gone"} : client' = [client EXCEPT ![s] = v]
    BY <1>1 DEF Connect, LoginSyn, LoginAck, GiveUp, dbVars, distVars, clientVars
  <2>2. link' \in [Session -> {"none", "open", "closing", "left", "broken"}]
    BY <2>1 DEF RestOK, DistOK
  <2>3. client' \in [Session -> {"away", "dist", "told", "agent", "playing", "gone"}]
    BY <2>1 DEF RestOK, ConnectionsOK
  <2>4. DistOK' /\ agentOf' \in [Session -> Agent]
    BY <2>1, <2>2 DEF RestOK, DistOK
  <2>5. AgentOK' /\ ConnectionsOK'
    BY <2>1, <2>3 DEF agentVars, RestOK, AgentOK, PoolOK, CountsOK, ConnectionsOK
  <2> QED BY <2>4, <2>5 DEF RestOK
<1>2. CASE \/ AgentAccept(s) \/ CharacterList(s) \/ CharacterSelect(s) \/ BackToCharSel(s)
           \/ AgentDisconnect(s) \/ ConnectionCheck(s)
  <2>1. DistOK' /\ agentOf' \in [Session -> Agent]
    <3>1. UNCHANGED <<online, lost, link, user, waiting, agentOf>>
      BY <1>2 DEF AgentAccept, CharacterList, CharacterSelect, BackToCharSel, AgentDisconnect,
                  ConnectionCheck, dbVars, distVars, clientVars
    <3> QED BY <3>1 DEF RestOK, DistOK
  <2> SUFFICES AgentOK' /\ ConnectionsOK'
    BY <2>1 DEF RestOK
  <2>2. CASE AgentAccept(s)
    <3>1. /\ UNCHANGED <<logouts, ready, byAccount, kicked, saving>>
          /\ \/ UNCHANGED <<used, info, byConnection, reused>>
             \/ \E b \in Block : /\ Alloc(a, b, {}, [Zeroed EXCEPT !.connection = s])
                                 /\ byConnection' = [byConnection EXCEPT ![s] = b]
          /\ client' \in {[client EXCEPT ![s] = v] : v \in {"agent", "gone"}}
      BY <1>a, <2>2 DEF AgentAccept, dbVars
    <3>2. CASE UNCHANGED <<used, info, byConnection, reused>>
      BY <3>1, <3>2 DEF RestOK, AgentOK, PoolOK, CountsOK, ConnectionsOK
    <3>3. ASSUME NEW b \in Block, Alloc(a, b, {}, [Zeroed EXCEPT !.connection = s]),
                 byConnection' = [byConnection EXCEPT ![s] = b]
          PROVE  AgentOK' /\ ConnectionsOK'
      BY <3>1, <3>3, AllocTypes, ZeroedTypes DEF RestOK, AgentOK, PoolOK, CountsOK, ConnectionsOK
    <3> QED BY <3>1, <3>2, <3>3
  <2>3. CASE CharacterList(s) \/ AgentDisconnect(s)
    <3>1. /\ UNCHANGED <<ready, reused>>
          /\ Leave(a, s) \/ (Its(a, s) /\ Attach(a, s, Found(a, s)))
      BY <1>a, <2>3 DEF CharacterList, AgentDisconnect
    <3>2. ASSUME NEW b \in Block, Attach(a, s, b) PROVE AgentOK' /\ ConnectionsOK'
      <4>1. info' \in [Agent -> [Block -> UserInfo]]
        <5>1. info \in [Agent -> [Block -> UserInfo]]
          BY DEF RestOK, AgentOK, PoolOK
        <5>2. [info[a][b] EXCEPT !.connection = s] \in UserInfo
          <6>1. info[a][b] \in UserInfo
            BY <5>1
          <6> QED BY <6>1 DEF UserInfo
        <5>3. info' = [info EXCEPT ![a][b] = [info[a][b] EXCEPT !.connection = s]]
          BY <3>2, <5>1 DEF Attach
        <5> QED BY <5>1, <5>2, <5>3
      <4>2. used' \in [Agent -> SUBSET Block]
        BY <3>2 DEF Attach, RestOK, AgentOK, PoolOK
      <4> QED BY <3>1, <3>2, <4>1, <4>2 DEF Attach, RestOK, AgentOK, PoolOK, CountsOK, ConnectionsOK
    <3> QED BY <3>1, <3>2, LeaveTypes, Blocks DEF Its
  <2>4. CASE CharacterSelect(s) \/ BackToCharSel(s)
    <3> DEFINE b == byConnection[s]
    <3>1. PICK v \in BOOLEAN : info' = [info EXCEPT ![a][b].character = v]
      BY <1>a, <2>4 DEF CharacterSelect, BackToCharSel
    <3>2. info \in [Agent -> [Block -> UserInfo]]
      BY DEF RestOK, AgentOK, PoolOK
    <3> HIDE DEF b
    <3>3. info' \in [Agent -> [Block -> UserInfo]]
      <4>1. CASE b \in Block
        <5>1. [info[a][b] EXCEPT !.character = v] \in UserInfo
          <6>1. info[a][b] \in UserInfo
            BY <3>2, <4>1
          <6> QED BY <6>1 DEF UserInfo
        <5>2. info' = [info EXCEPT ![a][b] = [info[a][b] EXCEPT !.character = v]]
          BY <3>1, <3>2, <4>1
        <5> QED BY <3>2, <4>1, <5>1, <5>2
      <4>2. CASE b \notin Block
        BY <3>1, <3>2, <4>2
      <4> QED BY <4>1, <4>2
    <3>4. UNCHANGED <<logouts, client, ready, used, byAccount, byConnection, kicked, saving, reused>>
      BY <2>4 DEF CharacterSelect, BackToCharSel, dbVars, clientVars
    <3> QED BY <3>3, <3>4 DEF RestOK, AgentOK, PoolOK, CountsOK, ConnectionsOK
  <2>5. CASE ConnectionCheck(s)
    <3> DEFINE b == byConnection[s]  x == AccountOf[info[a][b].session]
    <3>1. /\ LoginCheckDelete(a, x) /\ Free(a, b) /\ info[a][b].session # NoSession
          /\ byAccount' = [byAccount EXCEPT ![a][x] = NoBlock]
          /\ UNCHANGED <<client, ready, byConnection, kicked, saving, reused>>
      BY <1>a, <2>5 DEF ConnectionCheck, Named, clientVars
    <3>2. b \in Block
      <4>1. b # NoBlock
        BY <2>5 DEF ConnectionCheck
      <4> QED BY <4>1 DEF RestOK, ConnectionsOK
    <3>3. x \in Account
      BY <3>1, <3>2, Blocks
    <3> HIDE DEF b, x
    <3> QED BY <3>1, <3>2, <3>3, FreeTypes, CountTypes DEF RestOK, AgentOK, PoolOK, CountsOK, ConnectionsOK
  <2> QED BY <1>2, <2>2, <2>3, <2>4, <2>5
<1> QED BY <1>1, <1>2, DistRest DEF ClientStep

\* Every table and every counter of the servers keeps to its type.
THEOREM TypeCorrect == SafeSpec => []TypeOK
<1>1. Init => TypeOK
  <2> SUFFICES ASSUME Init PROVE QueuesOK /\ RestOK
    BY Types
  <2>1. <<>> \in Seq(Query) /\ <<>> \in Seq(Answer) /\ <<>> \in Seq(ToAgentMsg) /\ <<>> \in Seq(ToDistMsg)
    BY EmptySeq
  <2>2. QueuesOK
    BY <2>1 DEF Init, QueuesOK
  <2>3. DistOK /\ ConnectionsOK /\ agentOf \in [Session -> Agent]
    BY DEF Init, DistOK, ConnectionsOK, FreshUser
  <2>4. AgentOK
    BY ZeroedTypes DEF Init, AgentOK, PoolOK, CountsOK
  <2> QED BY <2>2, <2>3, <2>4 DEF RestOK
<1>2. TypeOK /\ [Next]_vars => TypeOK'
  <2> SUFFICES ASSUME QueuesOK, RestOK, [Next]_vars PROVE QueuesOK' /\ RestOK'
    BY Types, TypesAfter
  <2>1. CASE UNCHANGED vars
    BY <2>1 DEF vars, QueuesOK, RestOK, DistOK, AgentOK, PoolOK, CountsOK, ConnectionsOK
  <2>2. CASE DatabaseStep \/ \E x \in Account : TenSeconds(x)
    <3>1. UNCHANGED <<link, user, client, agentOf, agentVars>>
      BY <2>2 DEF DatabaseStep, TenSeconds, ExecuteQuery, ExecuteLogout, distVars, clientVars
    <3>2. ASSUME NEW a \in Agent, NEW x \in Account, ExecuteLogout(a, x)
          PROVE  logouts' \in [Agent -> [Account -> Nat]]
      BY <3>2 DEF ExecuteLogout, RestOK, AgentOK, CountsOK
    <3>3. logouts' \in [Agent -> [Account -> Nat]]
      BY <2>2, <3>2 DEF DatabaseStep, TenSeconds, ExecuteQuery, dbVars, RestOK, AgentOK, CountsOK
    <3>4. waiting' \in [Account -> {"no", "recent", "old"}]
      BY <2>2 DEF DatabaseStep, TenSeconds, ExecuteQuery, ExecuteLogout, distVars, RestOK, DistOK
    <3>5. online' \in [Account -> BOOLEAN] /\ lost' \subseteq Account
      <4>1. \/ UNCHANGED <<online, lost>>
            \/ \E x : LogOut(x)
            \/ \E x : online' = [online EXCEPT ![x] = TRUE] /\ lost' = lost
        BY <2>2 DEF DatabaseStep, TenSeconds, ExecuteQuery, ExecuteLogout, dbVars
      <4> QED BY <4>1 DEF LogOut, RestOK, DistOK
    <3>6. AgentOK' /\ ConnectionsOK'
      BY <3>1, <3>3 DEF agentVars, RestOK, AgentOK, PoolOK, CountsOK, ConnectionsOK
    <3>7. QueuesOK'
      BY <2>2, NextQueues DEF Next
    <3> QED BY <3>1, <3>4, <3>5, <3>6, <3>7 DEF RestOK, DistOK
  <2> QED BY <2>1, <2>2, NextQueues, DistRest, AgentRest, ClientRest DEF Next
<1> QED BY <1>1, <1>2, PTL DEF SafeSpec

(***************************************************************************)
(* One log-in at a time.  A session has at most one attempt under way: a   *)
(* query, or its answer, or the notice to its agent, or the agent's reply. *)
(***************************************************************************)

Answers(s) == {[session |-> s, state |-> 1], [session |-> s, state |-> 4]}
Replies(s) == {Message("ack", s), Message("nack", s)}
Breaks(s)  == {Message("disconnectedOnLogin", s), Message("alreadyOut", s)}

InQuery(s)     == Has(query, {LoginOf(s)})
InAnswer(s)    == Has(answer, Answers(s))
InLogin(a, s)  == Has(toAgent[a], {Message("login", s)})
InReply(a, s)  == Has(toDist[a], Replies(s))
InBreaks(a, s) == Has(toAgent[a], Breaks(s))

OneAttempt(s) ==
  /\ Once(query, {LoginOf(s)}) /\ Once(answer, Answers(s))
  /\ ~(InQuery(s) /\ InAnswer(s))

OneNotice(s) ==
  \A a \in Agent :
    /\ Once(toAgent[a], {Message("login", s)}) /\ Once(toDist[a], Replies(s))
    /\ InLogin(a, s) \/ InReply(a, s) => a = agentOf[s] /\ ~InQuery(s) /\ ~InAnswer(s)
    /\ ~(InLogin(a, s) /\ InReply(a, s))

\* How far the connection is when such a message is under way.
Staged(s) ==
  /\ client[s] = "away" => link[s] = "none"
  /\ InQuery(s) \/ InAnswer(s) => link[s] # "none" /\ (Known(s) => user[s].state # 1)
  /\ \A a \in Agent : InLogin(a, s) \/ InReply(a, s) =>
       \/ link[s] = "broken"
       \/ Known(s) /\ user[s].state = 1 /\ user[s].delete /\ ~user[s].distOut
  /\ client[s] = "told" /\ Known(s) => user[s].state = 1 /\ ~user[s].delete
  /\ user[s].distOut => Known(s) /\ user[s].state = 1
  /\ \A a \in Agent : InBreaks(a, s) => link[s] = "broken"

Fine(s) == OneAttempt(s) /\ OneNotice(s) /\ Staged(s)

InOrder == \A s \in Session : Fine(s)

IInv == TypeOK /\ InOrder

\* No message of session z is added to the queue.
QuietQuery(z)  == Once(query, {LoginOf(z)})' /\ (InQuery(z)' => InQuery(z))
QuietAnswer(z) == Once(answer, Answers(z))' /\ (InAnswer(z)' => InAnswer(z))
QuietToAgent(z) ==
  \A a \in Agent :
    /\ Once(toAgent'[a], {Message("login", z)})
    /\ Has(toAgent'[a], {Message("login", z)}) => InLogin(a, z)
    /\ Has(toAgent'[a], Breaks(z)) => InBreaks(a, z)
QuietToDist(z) ==
  \A a \in Agent : /\ Once(toDist'[a], Replies(z))
                   /\ Has(toDist'[a], Replies(z)) => InReply(a, z)

LEMMA Distinct ==
  ASSUME NEW s, NEW z
  PROVE  /\ \A x : Logout(x) # LoginOf(s)
         /\ (LoginOf(s) = LoginOf(z) => s = z)
         /\ \A k, l \in STRING : Message(k, s) = Message(l, z) => k = l /\ s = z
         /\ \A m, n : [session |-> s, state |-> m] = [session |-> z, state |-> n] => s = z /\ m = n
<1>1. \A x : Logout(x).kind = "logout" /\ LoginOf(s).kind = "login"
  BY DEF Logout, LoginOf
<1>2. LoginOf(s) = LoginOf(z) => s = z
  <2>1. LoginOf(s).session = s /\ LoginOf(z).session = z
    BY DEF LoginOf
  <2> QED BY <2>1
<1>3. ASSUME NEW k \in STRING, NEW l \in STRING, Message(k, s) = Message(l, z)
      PROVE  k = l /\ s = z
  <2>1. Message(k, s).kind = k /\ Message(l, z).kind = l /\ Message(k, s).session = s
        /\ Message(l, z).session = z
    BY DEF Message
  <2> QED BY <1>3, <2>1
<1>4. ASSUME NEW m, NEW n, [session |-> s, state |-> m] = [session |-> z, state |-> n]
      PROVE  s = z /\ m = n
  BY <1>4
<1> QED BY <1>1, <1>2, <1>3, <1>4

\* What a queue may gain without one of the messages in M.
Added(q, r, T, M) ==
  \/ r = q
  \/ q # <<>> /\ r = Tail(q)
  \/ \E e \in T : e \notin M /\ r = Append(q, e)

LEMMA AddedQuiet ==
  ASSUME NEW T, NEW q \in Seq(T), NEW r, NEW M, Added(q, r, T, M)
  PROVE  (Once(q, M) => Once(r, M)) /\ (Has(r, M) => Has(q, M))
<1>1. ASSUME NEW e \in T, e \notin M, r = Append(q, e)
      PROVE  (Once(q, M) => Once(r, M)) /\ (Has(r, M) => Has(q, M))
  BY <1>1, AppendHas
<1>2. CASE q # <<>> /\ r = Tail(q)
  BY <1>2, TailHas
<1> QED BY <1>1, <1>2 DEF Added

LEMMA QueryQuiet ==
  ASSUME QueuesOK, NEW z \in Session, OneAttempt(z),
         \/ query' = query
         \/ query # <<>> /\ query' = Tail(query)
         \/ \E x \in Account : query' = Append(query, Logout(x))
         \/ \E s \in Session : s # z /\ query' = Append(query, LoginOf(s))
  PROVE  QuietQuery(z)
<1>1. query \in Seq(Query) /\ Once(query, {LoginOf(z)})
  BY DEF QueuesOK, OneAttempt
<1>2. (\A x \in Account : Logout(x) \in Query) /\ \A s \in Session : LoginOf(s) \in Query
  BY MessageTypes
<1>3. (\A x \in Account : Logout(x) \notin {LoginOf(z)}) /\ \A s \in Session : s # z => LoginOf(s) \notin {LoginOf(z)}
  BY Distinct
<1>4. Added(query, query', Query, {LoginOf(z)})
  BY <1>2, <1>3 DEF Added
<1> QED BY <1>1, <1>4, AddedQuiet DEF QuietQuery, InQuery

LEMMA AnswerQuiet ==
  ASSUME QueuesOK, NEW z \in Session, OneAttempt(z),
         \/ answer' = answer
         \/ answer # <<>> /\ answer' = Tail(answer)
         \/ \E e \in Answer : e.session # z /\ answer' = Append(answer, e)
  PROVE  QuietAnswer(z)
<1>1. answer \in Seq(Answer) /\ Once(answer, Answers(z))
  BY DEF QueuesOK, OneAttempt
<1>2. \A e \in Answer : e.session # z => e \notin Answers(z)
  BY DEF Answers
<1>3. Added(answer, answer', Answer, Answers(z))
  BY <1>2 DEF Added
<1> QED BY <1>1, <1>3, AddedQuiet DEF QuietAnswer, InAnswer

LEMMA ToAgentQuiet ==
  ASSUME QueuesOK, NEW z \in Session, OneNotice(z),
         \A a \in Agent : Added(toAgent[a], toAgent'[a], ToAgentMsg, {Message("login", z)} \cup Breaks(z))
  PROVE  QuietToAgent(z)
<1> SUFFICES ASSUME NEW a \in Agent
             PROVE  /\ Once(toAgent'[a], {Message("login", z)})
                    /\ Has(toAgent'[a], {Message("login", z)}) => InLogin(a, z)
                    /\ Has(toAgent'[a], Breaks(z)) => InBreaks(a, z)
  BY DEF QuietToAgent
<1>1. toAgent[a] \in Seq(ToAgentMsg) /\ Once(toAgent[a], {Message("login", z)})
  BY DEF QueuesOK, OneNotice
<1>2. /\ Added(toAgent[a], toAgent'[a], ToAgentMsg, {Message("login", z)})
      /\ Added(toAgent[a], toAgent'[a], ToAgentMsg, Breaks(z))
  BY DEF Added
<1> QED BY <1>1, <1>2, AddedQuiet DEF InLogin, InBreaks

LEMMA ToDistQuiet ==
  ASSUME QueuesOK, NEW z \in Session, OneNotice(z),
         \A a \in Agent : Added(toDist[a], toDist'[a], ToDistMsg, Replies(z))
  PROVE  QuietToDist(z)
<1> SUFFICES ASSUME NEW a \in Agent
             PROVE  Once(toDist'[a], Replies(z)) /\ (Has(toDist'[a], Replies(z)) => InReply(a, z))
  BY DEF QuietToDist
<1>1. toDist[a] \in Seq(ToDistMsg) /\ Once(toDist[a], Replies(z))
  BY DEF QueuesOK, OneNotice
<1> QED BY <1>1, AddedQuiet DEF InReply

QuietMail(z) == QuietQuery(z) /\ QuietAnswer(z) /\ QuietToAgent(z) /\ QuietToDist(z)

\* A session without new messages stays in order, if it stays where it is.
LEMMA CalmMail ==
  ASSUME NEW z \in Session, OneAttempt(z), OneNotice(z), QuietMail(z), UNCHANGED agentOf
  PROVE  OneAttempt(z)' /\ OneNotice(z)'
<1>1. OneAttempt(z)'
  BY DEF OneAttempt, QuietMail, QuietQuery, QuietAnswer
<1>2. OneNotice(z)'
  BY DEF OneNotice, QuietMail, QuietQuery, QuietAnswer, QuietToAgent, QuietToDist, InLogin, InReply
<1> QED BY <1>1, <1>2

LEMMA QuietLess ==
  ASSUME NEW z \in Session, QuietMail(z)
  PROVE  /\ InQuery(z)' => InQuery(z)
         /\ InAnswer(z)' => InAnswer(z)
         /\ \A a \in Agent : /\ InLogin(a, z)' => InLogin(a, z)
                             /\ InReply(a, z)' => InReply(a, z)
                             /\ InBreaks(a, z)' => InBreaks(a, z)
BY DEF QuietMail, QuietQuery, QuietAnswer, QuietToAgent, QuietToDist, InLogin, InReply, InBreaks

LEMMA CalmStage ==
  ASSUME NEW z \in Session, Staged(z), QuietMail(z),
         link'[z] = link[z], user'[z] = user[z], client'[z] \in {client[z], "agent", "playing", "gone"}
  PROVE  Staged(z)'
<1>1. Known(z)' <=> Known(z)
  BY DEF Known
<1> QED BY <1>1, QuietLess DEF Staged

\* The ways a step leaves the four queues quiet for session z.
LEMMA QuietQueues ==
  ASSUME QueuesOK, NEW z \in Session, Fine(z),
         \/ query' = query
         \/ query # <<>> /\ query' = Tail(query)
         \/ \E x \in Account : query' = Append(query, Logout(x))
         \/ \E s \in Session : s # z /\ query' = Append(query, LoginOf(s)),
         \/ answer' = answer
         \/ answer # <<>> /\ answer' = Tail(answer)
         \/ \E e \in Answer : e.session # z /\ answer' = Append(answer, e),
         \/ toAgent' = toAgent
         \/ \E a \in Agent : toAgent[a] # <<>> /\ toAgent' = [toAgent EXCEPT ![a] = Tail(@)]
         \/ \E a \in Agent : \E m \in ToAgentMsg :
              m.session # z /\ toAgent' = [toAgent EXCEPT ![a] = Append(@, m)]
         \/ \E m \in ToAgentMsg : m \notin {Message("login", z)} \cup Breaks(z) /\ Broadcast(m),
         \/ toDist' = toDist
         \/ \E a \in Agent : toDist[a] # <<>> /\ toDist' = [toDist EXCEPT ![a] = Tail(@)]
         \/ \E a \in Agent : \E m \in ToDistMsg :
              m.session # z /\ toDist' = [toDist EXCEPT ![a] = Append(@, m)]
  PROVE  QuietMail(z)
<1>1. QuietQuery(z)
  BY QueryQuiet DEF Fine
<1>2. QuietAnswer(z)
  BY AnswerQuiet DEF Fine
<1>3. \A m : m.session # z => m \notin {Message("login", z)} \cup Breaks(z) /\ m \notin Replies(z)
  BY DEF Message, Breaks, Replies
<1>4. ASSUME NEW a \in Agent
      PROVE  Added(toAgent[a], toAgent'[a], ToAgentMsg, {Message("login", z)} \cup Breaks(z))
  BY <1>3 DEF Added, Broadcast, QueuesOK
<1>5. ASSUME NEW a \in Agent PROVE Added(toDist[a], toDist'[a], ToDistMsg, Replies(z))
  BY <1>3 DEF Added, QueuesOK
<1> QED BY <1>1, <1>2, <1>4, <1>5, ToAgentQuiet, ToDistQuiet DEF QuietMail, Fine

LEMMA Calm ==
  ASSUME NEW z \in Session, Fine(z), QuietMail(z), UNCHANGED agentOf,
         link'[z] = link[z], user'[z] = user[z], client'[z] \in {client[z], "agent", "playing", "gone"}
  PROVE  Fine(z)'
BY CalmMail, CalmStage DEF Fine

\* A session whose connection changes hands, its messages staying as they are.
LEMMA Moved ==
  ASSUME NEW z \in Session, Fine(z), QuietMail(z), UNCHANGED agentOf, Staged(z)'
  PROVE  Fine(z)'
BY CalmMail DEF Fine

LEMMA ClientFine ==
  ASSUME QueuesOK, RestOK, InOrder, NEW s \in Session,
         \/ Connect(s) \/ LoginAck(s) \/ DistOut(s) \/ Break(s) \/ AgentAccept(s) \/ CharacterList(s)
         \/ CharacterSelect(s) \/ BackToCharSel(s) \/ AgentDisconnect(s) \/ ConnectionCheck(s) \/ GiveUp(s),
         NEW z \in Session
  PROVE  Fine(z)'
<1>1. UNCHANGED <<query, answer, toAgent, toDist, agentOf>>
  BY DEF Connect, LoginAck, DistOut, Break, AgentAccept, CharacterList, CharacterSelect, BackToCharSel,
         AgentDisconnect, ConnectionCheck, GiveUp, dbVars, msgVars, clientVars
<1>2. Fine(z) /\ QuietMail(z)
  BY <1>1, QuietQueues DEF InOrder
<1>3. CASE \/ AgentAccept(s) \/ CharacterList(s) \/ CharacterSelect(s) \/ BackToCharSel(s)
           \/ AgentDisconnect(s) \/ ConnectionCheck(s) \/ GiveUp(s)
  <2>1. link'[z] = link[z] /\ user'[z] = user[z]
    BY <1>3 DEF AgentAccept, CharacterList, CharacterSelect, BackToCharSel, AgentDisconnect, ConnectionCheck, GiveUp, distVars
  <2>2. client' = client \/ \E v \in {"agent", "playing", "gone"} : client' = [client EXCEPT ![s] = v]
    BY <1>3 DEF AgentAccept, CharacterList, CharacterSelect, BackToCharSel, AgentDisconnect, ConnectionCheck,
                GiveUp, Leave, Attach, clientVars
  <2>3. client'[z] \in {client[z], "agent", "playing", "gone"}
    BY <2>2 DEF RestOK, DistOK, ConnectionsOK, ConnectionsOK
  <2> QED BY <1>1, <1>2, <2>1, <2>3, Calm
<1>4. CASE Connect(s) \/ LoginAck(s) \/ DistOut(s) \/ Break(s)
  <2>2. CASE z # s
    <3>1. link'[z] = link[z] /\ user'[z] = user[z] /\ client'[z] = client[z]
      BY <1>4, <2>2 DEF Connect, LoginAck, DistOut, Break, DistDisconnect, distVars, clientVars, RestOK, DistOK, ConnectionsOK
    <3> QED BY <1>1, <1>2, <3>1, Calm
  <2>3. CASE z = s
    <3>1. Staged(z)
      BY <1>2 DEF Fine
    <3>2. ASSUME Connect(s) PROVE Staged(z)'
      <4>1. client[z] = "away" /\ link'[z] = "open" /\ client'[z] = "dist" /\ user'[z] = user[z]
        BY <2>3, <3>2 DEF Connect, RestOK, DistOK, ConnectionsOK
      <4> QED BY <1>2, <3>1, <4>1, QuietLess DEF Staged, Known
    <3>3. ASSUME LoginAck(s) PROVE Staged(z)'
      <4>1. /\ link[z] = "open" /\ user[z].state = 1 /\ ~user[z].delete
            /\ link'[z] = link[z] /\ client'[z] = "told" /\ user'[z] = user[z]
        BY <2>3, <3>3 DEF LoginAck, RestOK, DistOK, ConnectionsOK, distVars
      <4> QED BY <1>2, <3>1, <4>1, QuietLess DEF Staged, Known
    <3>4. ASSUME DistOut(s) PROVE Staged(z)'
      <4>1. /\ client[z] = "told" /\ link[z] = "open" /\ link'[z] = "closing" /\ client'[z] = client[z]
            /\ user'[z].state = user[z].state /\ user'[z].delete = user[z].delete
        BY <2>3, <3>4 DEF DistOut, RestOK, DistOK, ConnectionsOK, clientVars
      <4> QED BY <1>2, <3>1, <4>1, QuietLess DEF Staged, Known
    <3>5. ASSUME Break(s) PROVE Staged(z)'
      <4>1. /\ link[z] = "open" /\ link'[z] = "closing" /\ user'[z] = user[z]
            /\ client'[z] = "told" => client[z] = "told"
            /\ client'[z] = "away" => client[z] = "away"
        BY <2>3, <3>5 DEF Break, DistDisconnect, RestOK, DistOK, ConnectionsOK
      <4> QED BY <1>2, <3>1, <4>1, QuietLess DEF Staged, Known
    <3> QED BY <1>1, <1>2, <1>4, <3>2, <3>3, <3>4, <3>5, Moved
  <2> QED BY <2>2, <2>3
<1> QED BY <1>3, <1>4

LEMMA LoginSynFine ==
  ASSUME QueuesOK, RestOK, InOrder, NEW s \in Session, LoginSyn(s), NEW z \in Session
  PROVE  Fine(z)'
<1>1. /\ client[s] = "dist" /\ link[s] = "open" /\ user[s].state # 1
      /\ query' = Append(query, LoginOf(s))
      /\ UNCHANGED <<answer, toAgent, toDist, agentOf, link, user, client>>
  BY DEF LoginSyn, distVars, clientVars, msgVars, agentVars
<1>2. Fine(z) /\ LoginOf(s) \in Query
  BY MessageTypes DEF InOrder
<1>3. CASE z # s
  <2>1. QuietMail(z)
    BY <1>1, <1>2, <1>3, QuietQueues
  <2> QED BY <1>1, <1>2, <2>1, Calm
<1>4. CASE z = s
  <2>1. ~InQuery(z) /\ ~InAnswer(z)
    BY <1>4 DEF LoginSyn, Asked, InQuery, InAnswer, Has, ToSet, Answers
  <2>2. \A a \in Agent : ~InLogin(a, z) /\ ~InReply(a, z)
    BY <1>1, <1>2, <1>4 DEF Fine, Staged
  <2>3. Once(query', {LoginOf(z)})
    BY <1>1, <1>2, <1>4, <2>1, AppendHas DEF QueuesOK, InQuery, Fine, OneAttempt
  <2>4. ~InAnswer(z)' /\ \A a \in Agent : ~InLogin(a, z)' /\ ~InReply(a, z)' /\ InBreaks(a, z)' = InBreaks(a, z)
    BY <1>1, <2>1, <2>2 DEF InAnswer, InLogin, InReply, InBreaks
  <2>5. OneAttempt(z)'
    BY <1>1, <1>2, <2>3, <2>4 DEF Fine, OneAttempt
  <2>6. OneNotice(z)'
    BY <1>1, <1>2, <2>4 DEF Fine, OneNotice
  <2>7. Staged(z)'
    BY <1>1, <1>2, <1>4, <2>4 DEF Fine, Staged, Known
  <2> QED BY <2>5, <2>6, <2>7 DEF Fine
<1> QED BY <1>3, <1>4

LEMMA HandleAnswerFine ==
  ASSUME QueuesOK, RestOK, InOrder, HandleAnswer, NEW z \in Session
  PROVE  Fine(z)'
<1>s. PICK s \in Session, state \in {1, 4} : Head(answer).session = s /\ Head(answer).state = state
  BY HeadSessions DEF HandleAnswer
<1>1. /\ answer # <<>> /\ answer' = Tail(answer)
      /\ UNCHANGED <<toDist, agentOf, link, client>>
  BY DEF HandleAnswer, clientVars, agentVars
<1>2. /\ Fine(s) /\ Fine(z) /\ agentOf[s] \in Agent
      /\ Message("login", s) \in ToAgentMsg /\ Head(answer) \in Answers(s)
  <2>1. Head(answer) \in Answer
    BY <1>1, Tailed
  <2>2. Head(answer) = [session |-> s, state |-> state]
    BY <1>s, <2>1 DEF Answer
  <2> QED BY <2>2, MessageTypes DEF InOrder, RestOK, DistOK, ConnectionsOK, Answers
<1>3. \/ ~Known(s) /\ (query' = query \/ \E x \in Account : query' = Append(query, Logout(x))) /\ UNCHANGED <<user, toAgent>>
      \/ Known(s) /\ UNCHANGED <<query, user, toAgent>>
      \/ Known(s) /\ UNCHANGED query /\ user' = [user EXCEPT ![s].state = 1, ![s].delete = TRUE]
         /\ toAgent' = [toAgent EXCEPT ![agentOf[s]] = Append(@, Message("login", s))]
      \/ Known(s) /\ UNCHANGED <<query, toAgent>> /\ user' = [user EXCEPT ![s].state = 4]
  <2>1. AccountOf[s] \in Account
    BY LoginAssumption DEF LoginAssumption
  <2> QED BY <1>s, <2>1 DEF HandleAnswer
<1>4. InAnswer(s) /\ ~InAnswer(s)'
  <2>1. Once(answer, Answers(s)) /\ answer \in Seq(Answer)
    BY <1>2 DEF Fine, OneAttempt, QueuesOK
  <2> QED BY <1>1, <1>2, <2>1, TailHas DEF InAnswer
<1>5. /\ ~InQuery(s) /\ \A a \in Agent : ~InLogin(a, s) /\ ~InReply(a, s)
      /\ link[s] # "none" /\ (Known(s) => user[s].state # 1 /\ ~user[s].distOut /\ client[s] # "told")
  BY <1>2, <1>4 DEF Fine, OneAttempt, OneNotice, Staged
<1>6. QuietMail(z) \/ (z = s /\ toAgent' = [toAgent EXCEPT ![agentOf[s]] = Append(@, Message("login", s))])
  <2>1. CASE UNCHANGED toAgent
    BY <1>1, <1>2, <1>3, <2>1, QuietQueues
  <2>2. CASE z # s /\ toAgent' = [toAgent EXCEPT ![agentOf[s]] = Append(@, Message("login", s))]
    <3>1. Message("login", s).session # z
      BY <2>2 DEF Message
    <3>2. \E a \in Agent : \E m \in ToAgentMsg :
            m.session # z /\ toAgent' = [toAgent EXCEPT ![a] = Append(@, m)]
      BY <1>2, <2>2, <3>1
    <3>3. (query' = query \/ \E x \in Account : query' = Append(query, Logout(x)))
      BY <1>3
    <3> QED BY <1>1, <1>2, <3>2, <3>3, QuietQueues
  <2> QED BY <1>3, <2>1, <2>2
<1>7. CASE z # s
  <2>1. link'[z] = link[z] /\ user'[z] = user[z] /\ client'[z] = client[z]
    BY <1>1, <1>3, <1>7 DEF RestOK, DistOK, ConnectionsOK
  <2> QED BY <1>1, <1>2, <1>6, <1>7, <2>1, Calm
<1>8. CASE z = s /\ QuietMail(z)
  <2>1. ~InQuery(z)' /\ ~InAnswer(z)' /\ \A a \in Agent : ~InLogin(a, z)' /\ ~InReply(a, z)'
    BY <1>4, <1>5, <1>8, QuietLess
  <2>2. /\ user'[z].delete = user[z].delete /\ user'[z].distOut = user[z].distOut
        /\ user'[z].state = user[z].state \/ (Known(z) /\ user'[z].state = 4)
        \/ (Known(z) /\ user'[z].distOut = user[z].distOut)
    BY <1>2, <1>3, <1>8 DEF RestOK, DistOK, ConnectionsOK
  <2>3. Staged(z)'
    BY <1>1, <1>2, <1>5, <1>8, <2>1, <2>2, QuietLess DEF Fine, Staged, Known
  <2> QED BY <1>1, <1>2, <1>8, <2>3, Moved
<1>9. CASE z = s /\ toAgent' = [toAgent EXCEPT ![agentOf[s]] = Append(@, Message("login", s))]
  <2>a. PICK a \in Agent : a = agentOf[s]
    BY <1>2
  <2> DEFINE M == {Message("login", s)}
  <2>1. toAgent[a] \in Seq(ToAgentMsg)
    BY DEF QueuesOK
  <2>2. Once(toAgent[a], M) /\ ~Has(toAgent[a], M)
    BY <1>2, <1>5, <2>1 DEF Fine, OneNotice, InLogin
  <2>3. toAgent'[a] = Append(toAgent[a], Message("login", s))
    BY <1>9, <2>a DEF QueuesOK
  <2>4. Once(toAgent'[a], M) /\ (Has(toAgent'[a], Breaks(s)) => Has(toAgent[a], Breaks(s)))
    <3>1. Message("login", s) \notin Breaks(s)
      BY DEF Message, Breaks
    <3> QED BY <1>2, <2>1, <2>2, <2>3, <3>1, AppendHas
  <2>5. \A b \in Agent : b # a => toAgent'[b] = toAgent[b]
    BY <1>9, <2>a DEF QueuesOK
  <2>6. query' = query /\ Known(s) /\ user' = [user EXCEPT ![s].state = 1, ![s].delete = TRUE]
    <3>1. toAgent' # toAgent
      <4>1. Len(toAgent'[a]) = Len(toAgent[a]) + 1 /\ Len(toAgent[a]) \in Nat
        BY <1>2, <2>1, <2>3, AppendProperties, LenProperties
      <4> QED BY <4>1
    <3> QED BY <1>3, <3>1
  <2>7. user'[s].state = 1 /\ user'[s].delete /\ ~user'[s].distOut
    BY <1>2, <1>5, <2>6 DEF RestOK, DistOK, ConnectionsOK
  <2>8. ~InQuery(z)' /\ ~InAnswer(z)' /\ \A b \in Agent : ~InReply(b, z)'
    BY <1>1, <1>4, <1>5, <1>9, <2>6 DEF InQuery, InReply
  <2>9. /\ \A b \in Agent : InLogin(b, z)' => b = a
        /\ \A b \in Agent : InBreaks(b, z)' => InBreaks(b, z)
    BY <1>5, <1>9, <2>4, <2>5 DEF InLogin, InBreaks
  <2>10. \A b \in Agent : Once(toAgent'[b], M) /\ Once(toDist'[b], Replies(z))
    BY <1>1, <1>2, <1>9, <2>4, <2>5 DEF Fine, OneNotice
  <2>11. OneAttempt(z)'
    <3>1. Once(answer', Answers(z))
      BY <1>1, <1>2, <1>9, TailHas DEF QueuesOK, Fine, OneAttempt
    <3> QED BY <1>2, <2>6, <2>8, <3>1 DEF Fine, OneAttempt
  <2>12. OneNotice(z)'
    BY <1>1, <1>9, <2>a, <2>8, <2>9, <2>10 DEF OneNotice
  <2>13. Staged(z)'
    BY <1>1, <1>2, <1>5, <1>9, <2>6, <2>7, <2>8, <2>9 DEF Fine, Staged, Known
  <2> QED BY <2>11, <2>12, <2>13 DEF Fine
<1> QED BY <1>6, <1>7, <1>8, <1>9

LEMMA ForceSynFine ==
  ASSUME QueuesOK, RestOK, InOrder, NEW s \in Session, ForceSyn(s), NEW z \in Session
  PROVE  Fine(z)'
<1>1. /\ client[s] = "dist" /\ link[s] = "open"
      /\ client' = [client EXCEPT ![s] = "gone"] /\ link' = [link EXCEPT ![s] = "closing"]
      /\ Broadcast(Message("force", s)) /\ (query' = query \/ \E x \in Account : query' = Append(query, Logout(x)))
      /\ UNCHANGED <<answer, toDist, agentOf, user>>
  BY LoginAssumption DEF ForceSyn, agentVars, LoginAssumption
<1>2. Message("force", s) \in ToAgentMsg
      /\ Message("force", s) \notin {Message("login", z)} \cup Breaks(z)
  BY MessageTypes DEF Message, Breaks
<1>3. Fine(z) /\ QuietMail(z)
  BY <1>1, <1>2, QuietQueues DEF InOrder
<1>4. CASE z # s
  <2>1. link'[z] = link[z] /\ client'[z] = client[z]
    BY <1>1, <1>4 DEF RestOK, DistOK, ConnectionsOK
  <2> QED BY <1>1, <1>3, <2>1, Calm
<1>5. CASE z = s
  <2>1. link[z] = "open" /\ link'[z] = "closing" /\ client'[z] = "gone"
    BY <1>1, <1>5 DEF RestOK, DistOK, ConnectionsOK
  <2>2. Staged(z)'
    BY <1>1, <1>3, <2>1, QuietLess DEF Fine, Staged, Known
  <2> QED BY <1>1, <1>3, <2>2, Moved
<1> QED BY <1>4, <1>5

LEMMA NotifyAckFine ==
  ASSUME QueuesOK, RestOK, InOrder, NEW a \in Agent, NotifyAck(a), NEW z \in Session
  PROVE  Fine(z)'
<1>s. PICK s \in Session : Head(toDist[a]).session = s
  BY HeadSessions DEF NotifyAck
<1>1. /\ toDist[a] # <<>> /\ toDist' = [toDist EXCEPT ![a] = Tail(@)]
      /\ UNCHANGED <<query, answer, agentOf, link, client>>
      /\ Fine(z) /\ Fine(s)
  BY DEF NotifyAck, dbVars, clientVars, agentVars, InOrder
<1>2. Head(toDist[a]) = Message("ack", s) /\ toDist[a] \in Seq(ToDistMsg)
  <2>1. Head(toDist[a]) \in ToDistMsg /\ Head(toDist[a]).kind = "ack"
    BY Tailed DEF NotifyAck
  <2>2. Head(toDist[a]) = [kind |-> "ack", session |-> s]
    BY <1>s, <2>1 DEF ToDistMsg
  <2> QED BY <2>2 DEF Message, QueuesOK
<1>3. InReply(a, s) /\ ~Has(Tail(toDist[a]), Replies(s))
  <2>1. Once(toDist[a], Replies(s)) /\ Head(toDist[a]) \in Replies(s)
    BY <1>1, <1>2 DEF Fine, OneNotice, Replies
  <2> QED BY <1>1, <1>2, <2>1, TailHas DEF InReply
<1>4. \/ ~Known(s) /\ link[s] = "broken" /\ UNCHANGED user
         /\ toAgent' = [toAgent EXCEPT ![a] = Append(@, Message("alreadyOut", s))]
      \/ Known(s) /\ user[s].state = 1 /\ user[s].delete /\ user' = [user EXCEPT ![s].delete = ~@]
         /\ UNCHANGED toAgent
  <2>1. link[s] = "broken" \/ (Known(s) /\ user[s].state = 1 /\ user[s].delete)
    BY <1>1, <1>3 DEF Fine, Staged
  <2>2. \/ Known(s) /\ user' = [user EXCEPT ![s].delete = ~@] /\ UNCHANGED toAgent
        \/ ~Known(s) /\ UNCHANGED user /\ toAgent' = [toAgent EXCEPT ![a] = Append(@, Message("alreadyOut", s))]
    BY <1>s DEF NotifyAck
  <2> QED BY <2>1, <2>2 DEF Known
<1>5. Message("alreadyOut", s) \in ToAgentMsg /\ Message("alreadyOut", s).session = s
  BY MessageTypes DEF Message
<1>6. z # s \/ UNCHANGED toAgent => QuietMail(z)
  <2>1. \/ toAgent' = toAgent
        \/ \E b \in Agent : \E m \in ToAgentMsg :
             m.session = s /\ toAgent' = [toAgent EXCEPT ![b] = Append(@, m)]
    BY <1>4, <1>5
  <2> QED BY <1>1, <2>1, QuietQueues
<1>7. CASE z # s
  <2>1. user'[z] = user[z]
    BY <1>4, <1>7 DEF RestOK, DistOK, ConnectionsOK
  <2> QED BY <1>1, <1>6, <1>7, <2>1, Calm
<1>8. CASE z = s /\ Known(s)
  <2>1. /\ user'[s].state = user[s].state /\ ~user'[s].delete /\ user'[s].distOut = user[s].distOut
        /\ UNCHANGED toAgent
    <3>1. user' = [user EXCEPT ![s].delete = FALSE]
      <4>1. PICK b \in BOOLEAN : b = ~user[s].delete
        OBVIOUS
      <4>2. b = FALSE
        BY <1>4, <1>8, <4>1
      <4>3. user' = [user EXCEPT ![s].delete = b]
        BY <1>4, <1>8, <4>1
      <4> QED BY <4>2, <4>3
    <3> QED BY <1>4, <1>8, <3>1 DEF RestOK, DistOK, ConnectionsOK
  <2>2. \A b \in Agent : ~InLogin(b, z)' /\ ~InReply(b, z)'
    <3>1. \A b \in Agent : InLogin(b, z) \/ InReply(b, z) => b = a
      BY <1>1, <1>3, <1>8 DEF Fine, OneNotice
    <3>2. ~InLogin(a, z) /\ ~InReply(a, z)'
      BY <1>1, <1>3, <1>8 DEF Fine, OneNotice, InReply, QueuesOK
    <3> QED BY <1>1, <1>6, <2>1, <3>1, <3>2, QuietLess
  <2>3. ~InQuery(z)' /\ ~InAnswer(z)'
    BY <1>1, <1>3, <1>6, <1>8, <2>1, QuietLess DEF Fine, OneNotice
  <2>4. Staged(z)'
    BY <1>1, <1>6, <1>8, <2>1, <2>2, <2>3, QuietLess DEF Fine, Staged, Known
  <2> QED BY <1>1, <1>6, <2>1, <2>4, Moved
<1>9. CASE z = s /\ ~Known(s)
  <2>1. /\ \A b \in Agent : toAgent'[b] = toAgent[b] \/ toAgent'[b] = Append(toAgent[b], Message("alreadyOut", s))
        /\ link'[z] = "broken" /\ link[z] = "broken"
    BY <1>1, <1>4, <1>9 DEF QueuesOK
  <2>2. Message("alreadyOut", s) \notin {Message("login", z)}
    BY DEF Message
  <2>3. \A b \in Agent : Added(toAgent[b], toAgent'[b], ToAgentMsg, {Message("login", z)})
    BY <1>5, <2>1, <2>2 DEF Added
  <2>4. \A b \in Agent : Once(toAgent'[b], {Message("login", z)}) /\ (InLogin(b, z)' => InLogin(b, z))
    BY <1>1, <2>3, AddedQuiet DEF QueuesOK, Fine, OneNotice, InLogin
  <2>5. \A b \in Agent : Added(toDist[b], toDist'[b], ToDistMsg, Replies(z))
    BY <1>1 DEF Added, QueuesOK
  <2>6. \A b \in Agent : Once(toDist'[b], Replies(z)) /\ (InReply(b, z)' => InReply(b, z))
    BY <1>1, <2>5, AddedQuiet DEF QueuesOK, Fine, OneNotice, InReply
  <2>7. InQuery(z)' = InQuery(z) /\ InAnswer(z)' = InAnswer(z)
    BY <1>1 DEF InQuery, InAnswer
  <2>8. OneAttempt(z)'
    BY <1>1, <2>7 DEF Fine, OneAttempt
  <2>9. OneNotice(z)'
    BY <1>1, <2>4, <2>6, <2>7 DEF Fine, OneNotice
  <2>10. Staged(z)'
    BY <1>1, <1>4, <1>9, <2>1, <2>4, <2>6, <2>7 DEF Fine, Staged, Known
  <2> QED BY <2>8, <2>9, <2>10 DEF Fine
<1> QED BY <1>7, <1>8, <1>9

LEMMA NotifyNackFine ==
  ASSUME QueuesOK, RestOK, InOrder, NEW a \in Agent, NotifyNack(a), NEW z \in Session
  PROVE  Fine(z)'
<1>s. PICK s \in Session : Head(toDist[a]).session = s
  BY HeadSessions DEF NotifyNack
<1>1. /\ toDist[a] # <<>> /\ toDist' = [toDist EXCEPT ![a] = Tail(@)]
      /\ UNCHANGED <<query, answer, toAgent, agentOf, user>>
      /\ \/ UNCHANGED <<link, client>>
         \/ Known(s) /\ DistDisconnect(s)
  BY <1>s DEF NotifyNack, dbVars, agentVars
<1>2. Fine(z) /\ QuietMail(z)
  BY <1>1, QuietQueues DEF InOrder
<1>3. CASE z # s \/ UNCHANGED <<link, client>>
  <2>1. link'[z] = link[z] /\ client'[z] = client[z]
    BY <1>1, <1>3 DEF DistDisconnect, RestOK, DistOK, ConnectionsOK
  <2> QED BY <1>1, <1>2, <2>1, Calm
<1>4. CASE z = s /\ Known(s) /\ DistDisconnect(s)
  <2>1. /\ Known(z) /\ link'[z] = "closing"
        /\ client'[z] = "told" => client[z] = "told"
        /\ client'[z] = "away" => client[z] = "away"
    BY <1>4 DEF DistDisconnect, RestOK, DistOK, ConnectionsOK
  <2>2. Staged(z)'
    BY <1>1, <1>2, <2>1, QuietLess DEF Fine, Staged, Known
  <2> QED BY <1>1, <1>2, <2>2, Moved
<1> QED BY <1>1, <1>3, <1>4

LEMMA OnDisconnectFine ==
  ASSUME QueuesOK, RestOK, InOrder, NEW s \in Session, OnDisconnectUser(s), NEW z \in Session
  PROVE  Fine(z)'
<1>1. /\ link[s] = "closing" /\ (query' = query \/ \E x \in Account : query' = Append(query, Logout(x)))
      /\ link' = [link EXCEPT ![s] = IF user[s].distOut THEN "left" ELSE "broken"]
      /\ user' = [user EXCEPT ![s] = FreshUser]
      /\ \/ toAgent' = toAgent
         \/ ~user[s].distOut /\ Broadcast(Message("disconnectedOnLogin", s))
      /\ UNCHANGED <<answer, toDist, agentOf, client>>
  BY LoginAssumption DEF OnDisconnectUser, clientVars, agentVars, LoginAssumption
<1>2. /\ Message("disconnectedOnLogin", s) \in ToAgentMsg
      /\ z # s => Message("disconnectedOnLogin", s) \notin {Message("login", z)} \cup Breaks(z)
      /\ Message("disconnectedOnLogin", s) \notin {Message("login", z)}
  BY MessageTypes DEF Message, Breaks
<1>3. Fine(z)
  BY DEF InOrder
<1>4. CASE z # s
  <2>1. link'[z] = link[z] /\ user'[z] = user[z]
    BY <1>1, <1>4 DEF RestOK, DistOK, ConnectionsOK
  <2>2. QuietMail(z)
    BY <1>1, <1>2, <1>3, <1>4, QuietQueues
  <2> QED BY <1>1, <1>3, <2>1, <2>2, Calm
<1>5. CASE z = s
  <2>1. /\ user'[z] = FreshUser /\ link[z] = "closing"
        /\ link'[z] = "broken" \/ (link'[z] = "left" /\ user[z].distOut)
    BY <1>1, <1>5 DEF RestOK, DistOK, ConnectionsOK
  <2>2. \A b \in Agent : Added(toAgent[b], toAgent'[b], ToAgentMsg, {Message("login", z)})
    BY <1>1, <1>2 DEF Added, Broadcast
  <2>3. \A b \in Agent : Once(toAgent'[b], {Message("login", z)}) /\ (InLogin(b, z)' => InLogin(b, z))
    BY <1>3, <2>2, AddedQuiet DEF QueuesOK, Fine, OneNotice, InLogin
  <2>4. /\ QuietQuery(z) /\ InAnswer(z)' = InAnswer(z)
        /\ \A b \in Agent : Once(toDist'[b], Replies(z)) /\ InReply(b, z)' = InReply(b, z)
    BY <1>1, <1>3, QueryQuiet DEF InAnswer, InReply, Fine, OneNotice
  <2>5. OneAttempt(z)'
    BY <1>1, <1>3, <2>4 DEF Fine, OneAttempt, QuietQuery
  <2>6. OneNotice(z)'
    BY <1>1, <1>3, <2>3, <2>4 DEF Fine, OneNotice, QuietQuery
  <2>7. \A b \in Agent : InBreaks(b, z)' => link'[z] = "broken"
    <3>1. CASE link'[z] = "left"
      <4>1. toAgent' = toAgent
        BY <1>1, <1>5, <2>1, <3>1
      <4> QED BY <1>3, <2>1, <4>1 DEF InBreaks, Fine, Staged
    <3> QED BY <2>1, <3>1
  <2>8. \A b \in Agent : InLogin(b, z)' \/ InReply(b, z)' => link'[z] = "broken"
    BY <1>3, <2>1, <2>3, <2>4 DEF Fine, Staged
  <2>9. Staged(z)'
    BY <1>1, <1>3, <2>1, <2>4, <2>7, <2>8 DEF Fine, Staged, Known, FreshUser, QuietQuery
  <2> QED BY <2>5, <2>6, <2>9 DEF Fine
<1> QED BY <1>4, <1>5

LEMMA ExecuteQueryFine ==
  ASSUME QueuesOK, RestOK, InOrder, ExecuteQuery, NEW z \in Session
  PROVE  Fine(z)'
<1>1. /\ query # <<>> /\ query' = Tail(query) /\ query \in Seq(Query) /\ Fine(z)
      /\ UNCHANGED <<toAgent, toDist, agentOf, link, user, client>>
  BY DEF ExecuteQuery, distVars, clientVars, msgVars, agentVars, QueuesOK, InOrder
<1>2. CASE UNCHANGED answer
  <2>1. QuietMail(z)
    BY <1>1, <1>2, QuietQueues
  <2> QED BY <1>1, <2>1, Calm
<1>3. CASE answer' # answer
  <2>1. Head(query).kind # "logout" /\ Head(query) \in Query
    BY <1>1, <1>3, Tailed DEF ExecuteQuery
  <2>2. PICK s \in Session : Head(query) = LoginOf(s)
    BY <2>1 DEF Query, Logout
  <2>3. PICK e \in Answer : e \in Answers(s) /\ answer' = Append(answer, e)
    <3>1. PICK st \in {1, 4} : answer' = Append(answer, [session |-> s, state |-> st])
      BY <1>3, <2>1, <2>2 DEF ExecuteQuery, LoginOf
    <3> QED BY <3>1, MessageTypes DEF Answers
  <2>4. CASE z # s
    <3>1. e.session # z
      BY <2>3, <2>4 DEF Answers
    <3>2. QuietMail(z)
      BY <1>1, <2>3, <3>1, QuietQueues
    <3> QED BY <1>1, <3>2, Calm
  <2>5. CASE z = s
    <3>1. InQuery(z) /\ ~InAnswer(z)
      <4>1. Head(query) \in {LoginOf(z)}
        BY <2>2, <2>5
      <4> QED BY <1>1, <4>1, TailHas DEF InQuery, Fine, OneAttempt
    <3>2. Once(query', {LoginOf(z)}) /\ ~InQuery(z)'
      BY <1>1, <2>2, <2>5, TailHas DEF Fine, OneAttempt, InQuery
    <3>3. Once(answer', Answers(z))
      BY <1>1, <2>3, <2>5, <3>1, AppendHas DEF QueuesOK, Fine, OneAttempt, InAnswer
    <3>4. \A b \in Agent : ~InLogin(b, z)' /\ ~InReply(b, z)' /\ InBreaks(b, z)' = InBreaks(b, z)
      BY <1>1, <3>1 DEF Fine, OneNotice, InLogin, InReply, InBreaks
    <3>5. OneAttempt(z)'
      BY <3>2, <3>3 DEF OneAttempt
    <3>6. OneNotice(z)'
      BY <1>1, <3>4 DEF Fine, OneNotice
    <3>7. Staged(z)'
      BY <1>1, <3>1, <3>4 DEF Fine, Staged, Known
    <3> QED BY <3>5, <3>6, <3>7 DEF Fine
  <2> QED BY <2>4, <2>5
<1> QED BY <1>2, <1>3

LEMMA NotifyLoginFine ==
  ASSUME QueuesOK, RestOK, InOrder, NEW a \in Agent, NotifyLogin(a), NEW z \in Session
  PROVE  Fine(z)'
<1>s. PICK s \in Session : Head(toAgent[a]).session = s
  BY HeadSessions DEF NotifyLogin, HeadIs
<1>1. /\ toAgent[a] # <<>> /\ toAgent' = [toAgent EXCEPT ![a] = Tail(@)]
      /\ toAgent[a] \in Seq(ToAgentMsg) /\ toDist[a] \in Seq(ToDistMsg) /\ Fine(z)
      /\ UNCHANGED <<query, answer, agentOf, link, user, client>>
  BY DEF NotifyLogin, HeadIs, Received, dbVars, distVars, clientVars, QueuesOK, InOrder
<1>2. \/ toDist' = toDist
      \/ \E m \in ToDistMsg : /\ m \in Replies(s) /\ m.session = s
                              /\ toDist' = [toDist EXCEPT ![a] = Append(@, m)]
  <2>1. toDist' = toDist \/ \E k \in {"ack", "nack"} : Reply(a, k, s)
    BY <1>s DEF NotifyLogin, RefuseLogin, TakeLogin
  <2>2. toDist' = toDist \/ \E k \in {"ack", "nack"} : toDist' = [toDist EXCEPT ![a] = Append(@, Message(k, s))]
    BY <2>1 DEF Reply
  <2> QED BY <2>2, MessageTypes DEF Replies, Message
<1>3. CASE z # s
  <2>1. QuietMail(z)
    BY <1>1, <1>2, <1>3, QuietQueues
  <2> QED BY <1>1, <2>1, Calm
<1>4. CASE z = s
  <2>1. Head(toAgent[a]) \in {Message("login", z)}
    <3>1. Head(toAgent[a]) \in ToAgentMsg /\ Head(toAgent[a]).kind = "login"
      BY <1>1, Tailed DEF NotifyLogin, HeadIs
    <3>2. Head(toAgent[a]) = [kind |-> "login", session |-> s]
      BY <1>s, <3>1 DEF ToAgentMsg
    <3> QED BY <1>4, <3>2 DEF Message
  <2>2. InLogin(a, z) /\ ~Has(Tail(toAgent[a]), {Message("login", z)})
    BY <1>1, <2>1, TailHas DEF InLogin, Fine, OneNotice
  <2>3. \A b \in Agent : Added(toAgent[b], toAgent'[b], ToAgentMsg, {Message("login", z)})
                         /\ Added(toAgent[b], toAgent'[b], ToAgentMsg, Breaks(z))
    BY <1>1 DEF Added, QueuesOK
  <2>4. \A b \in Agent : /\ Once(toAgent'[b], {Message("login", z)}) /\ (InLogin(b, z)' => InLogin(b, z))
                         /\ InBreaks(b, z)' => InBreaks(b, z)
    BY <1>1, <2>3, AddedQuiet DEF QueuesOK, Fine, OneNotice, InLogin, InBreaks
  <2>5. \A b \in Agent : ~InLogin(b, z)'
    <3>1. \A b \in Agent : InLogin(b, z) => b = a
      BY <1>1, <2>2 DEF Fine, OneNotice
    <3>2. ~InLogin(a, z)'
      BY <1>1, <2>2 DEF InLogin, QueuesOK
    <3> QED BY <2>4, <3>1, <3>2
  <2>6. \A b \in Agent : ~InReply(b, z)
    BY <1>1, <2>2 DEF Fine, OneNotice
  <2>7. /\ toDist'[a] = toDist[a] \/ \E m \in ToDistMsg : toDist'[a] = Append(toDist[a], m)
        /\ \A b \in Agent : b # a => toDist'[b] = toDist[b]
    BY <1>2 DEF QueuesOK
  <2>8. Once(toDist'[a], Replies(z))
    <3>1. Once(toDist[a], Replies(z)) /\ ~Has(toDist[a], Replies(z))
      BY <1>1, <2>6 DEF Fine, OneNotice, InReply
    <3>2. ASSUME NEW m \in ToDistMsg PROVE Once(Append(toDist[a], m), Replies(z))
      BY <1>1, <3>1, AppendHas
    <3> QED BY <2>7, <3>1, <3>2
  <2>9. \A b \in Agent : Once(toDist'[b], Replies(z)) /\ (InReply(b, z)' => b = a)
    BY <1>1, <2>6, <2>7, <2>8 DEF Fine, OneNotice, InReply
  <2>10. InQuery(z)' = InQuery(z) /\ InAnswer(z)' = InAnswer(z) /\ ~InQuery(z) /\ ~InAnswer(z)
         /\ a = agentOf[z]
    BY <1>1, <2>2 DEF InQuery, InAnswer, Fine, OneNotice
  <2>11. OneAttempt(z)'
    BY <1>1, <2>10 DEF Fine, OneAttempt
  <2>12. OneNotice(z)'
    BY <1>1, <2>4, <2>5, <2>9, <2>10 DEF OneNotice
  <2>13. Staged(z)'
    BY <1>1, <2>2, <2>4, <2>5, <2>10 DEF Fine, Staged, Known
  <2> QED BY <2>11, <2>12, <2>13 DEF Fine
<1> QED BY <1>3, <1>4

\* A break that an agent hears of is of a connection that is broken.
LEMMA BrokenHead ==
  ASSUME QueuesOK, InOrder, NEW a \in Agent, HeadIs(a, "alreadyOut") \/ HeadIs(a, "disconnectedOnLogin")
  PROVE  link[Head(toAgent[a]).session] = "broken"
<1>s. PICK s \in Session : Head(toAgent[a]).session = s
  BY HeadSessions DEF HeadIs
<1>1. toAgent[a] \in Seq(ToAgentMsg) /\ toAgent[a] # <<>>
  BY DEF HeadIs, QueuesOK
<1>2. Head(toAgent[a]) \in ToAgentMsg /\ Head(toAgent[a]).kind \in {"alreadyOut", "disconnectedOnLogin"}
  BY <1>1, Tailed DEF HeadIs
<1>3. Head(toAgent[a]) = [kind |-> Head(toAgent[a]).kind, session |-> s]
  BY <1>s, <1>2 DEF ToAgentMsg
<1>4. Head(toAgent[a]) \in Breaks(s)
  BY <1>2, <1>3 DEF Breaks, Message
<1> QED BY <1>s, <1>1, <1>4, TailHas DEF InOrder, Fine, Staged, InBreaks

LEMMA AgentFine ==
  ASSUME QueuesOK, RestOK, InOrder, NEW a \in Agent, AgentStep(a), ~NotifyLogin(a), NEW z \in Session
  PROVE  Fine(z)'
<1>1. /\ UNCHANGED <<query, answer, toDist, agentOf, link, user>>
      /\ \/ UNCHANGED toAgent
         \/ toAgent[a] # <<>> /\ toAgent' = [toAgent EXCEPT ![a] = Tail(@)]
  BY DEF AgentStep, Start, AlreadyOut, DisconnectedOnLogin, ForceOut, LoginCheckDeleted, HeadIs, Received,
         dbVars, distVars, clientVars, msgVars
<1>2. Fine(z) /\ QuietMail(z)
  BY <1>1, QuietQueues DEF InOrder
<1>3. client' = client \/ \E c : client' = [client EXCEPT ![c] = "gone"]
  BY DEF AgentStep, Start, AlreadyOut, DisconnectedOnLogin, ForceOut, Leave, LoginCheckDeleted, clientVars
<1>4. client'[z] \in {client[z], "gone"}
  BY <1>3 DEF RestOK, ConnectionsOK
<1> QED BY <1>1, <1>2, <1>4, Calm

\* A session has one attempt to log in under way at most - a query, its answer,
\* the notice to its agent or the reply - and its connection and USERINFO are as far
\* as that says, whatever breaks, insists or comes late.
THEOREM AttemptsStayInOrder == SafeSpec => []IInv
<1>1. Init => InOrder
  <2> SUFFICES ASSUME Init, NEW z \in Session PROVE Fine(z)
    BY DEF InOrder
  <2>1. \A M : ~Has(<<>>, M) /\ Once(<<>>, M)
    BY DEF Has, Once
  <2>2. /\ Once(query, {LoginOf(z)}) /\ Once(answer, Answers(z)) /\ ~InQuery(z) /\ ~InAnswer(z)
        /\ \A a \in Agent : /\ Once(toAgent[a], {Message("login", z)}) /\ Once(toDist[a], Replies(z))
                            /\ ~InLogin(a, z) /\ ~InReply(a, z) /\ ~InBreaks(a, z)
    BY <2>1 DEF Init, InQuery, InAnswer, InLogin, InReply, InBreaks
  <2>3. link[z] = "none" /\ user[z] = FreshUser /\ client[z] = "away"
    BY DEF Init
  <2> QED BY <2>2, <2>3 DEF Fine, OneAttempt, OneNotice, Staged, Known, FreshUser
<1>2. TypeOK /\ InOrder /\ [Next]_vars => InOrder'
  <2> SUFFICES ASSUME QueuesOK, RestOK, InOrder, [Next]_vars, NEW z \in Session PROVE Fine(z)'
    BY Types DEF InOrder
  <2>1. CASE \/ UNCHANGED vars \/ \E x \in Account : TenSeconds(x)
             \/ \E a \in Agent, x \in Account : ExecuteLogout(a, x)
    <3>1. UNCHANGED <<query, answer, toAgent, toDist, agentOf, link, user, client>>
      BY <2>1 DEF vars, TenSeconds, ExecuteLogout, clientVars, distVars, msgVars, agentVars, dbVars
    <3>2. Fine(z) /\ QuietMail(z)
      BY <3>1, QuietQueues DEF InOrder
    <3> QED BY <3>1, <3>2, Calm
  <2>2. CASE DistStep
    BY <2>2, HandleAnswerFine, OnDisconnectFine, NotifyAckFine, NotifyNackFine DEF DistStep
  <2>3. ASSUME NEW a \in Agent, AgentStep(a) PROVE Fine(z)'
    BY <2>3, NotifyLoginFine, AgentFine DEF AgentStep
  <2>4. ASSUME NEW s \in Session, ClientStep(s) PROVE Fine(z)'
    BY <2>4, ClientFine, LoginSynFine, ForceSynFine DEF ClientStep
  <2> QED BY <2>1, <2>2, <2>3, <2>4, ExecuteQueryFine DEF Next, DatabaseStep
<1> QED BY <1>1, <1>2, TypeCorrect, PTL DEF SafeSpec, IInv

(***************************************************************************)
(* Somebody is responsible for a logged-in account.  A connection with     *)
(* DELETELOGINCHECK counts as long as no agent's ack is on the way: with   *)
(* the ack the agent's USERINFO has taken the responsibility over, or a    *)
(* log-out is under way already.                                           *)
(***************************************************************************)

Grant(x)           == {[session |-> s, state |-> 1] : s \in {z \in Session : AccountOf[z] = x}}
InAck(a, s)        == Has(toDist[a], {Message("ack", s)})

LogoutUnderWay(x)  == Has(query, {Logout(x)})
Granted(x)         == Has(answer, Grant(x))
AtAgent(a, x)      == logouts[a][x] > 0 \/ saving[a][x] > 0 \/ byAccount[a][x] # NoBlock
AtLogin(s)         == user[s].delete /\ \A a \in Agent : ~InAck(a, s)

Responsible(x) == \/ LogoutUnderWay(x) \/ Granted(x) \/ x \in lost
                  \/ \E a \in Agent : AtAgent(a, x)
                  \/ \E s \in Session : AccountOf[s] = x /\ AtLogin(s)

Strong == \A x \in Account : online[x] => Responsible(x)

LEMMA StrongEnough == TypeOK /\ Strong => SomebodyResponsible
<1> SUFFICES ASSUME Strong, NEW x \in Account, online[x]
             PROVE \/ Logout(x) \in ToSet(query)
                   \/ \E a \in Agent : logouts[a][x] > 0 \/ saving[a][x] > 0 \/ byAccount[a][x] # NoBlock
                   \/ \E i \in DOMAIN answer : AccountOf[answer[i].session] = x /\ answer[i].state = 1
                   \/ \E s \in Session : AccountOf[s] = x /\ user[s].delete
                   \/ x \in lost
  BY DEF SomebodyResponsible
<1>1. LogoutUnderWay(x) => Logout(x) \in ToSet(query)
  BY DEF LogoutUnderWay, Has, ToSet
<1>2. Granted(x) => \E i \in DOMAIN answer : AccountOf[answer[i].session] = x /\ answer[i].state = 1
  BY DEF Granted, Has, Grant
<1> QED BY <1>1, <1>2 DEF Strong, Responsible, AtAgent, AtLogin

\* An append keeps every message; a tail loses one.
LEMMA Gained ==
  ASSUME QueuesOK, NEW x \in Account
  PROVE  /\ \A e \in Query : query' = Append(query, e) =>
              (LogoutUnderWay(x)' <=> LogoutUnderWay(x) \/ e = Logout(x))
         /\ \A e \in Answer : answer' = Append(answer, e) =>
              (Granted(x)' <=> Granted(x) \/ e \in Grant(x))
<1>1. ASSUME NEW e \in Query, query' = Append(query, e)
      PROVE  LogoutUnderWay(x)' <=> LogoutUnderWay(x) \/ e = Logout(x)
  BY <1>1, AppendHas DEF QueuesOK, LogoutUnderWay
<1>2. ASSUME NEW e \in Answer, answer' = Append(answer, e)
      PROVE  Granted(x)' <=> Granted(x) \/ e \in Grant(x)
  BY <1>2, AppendHas DEF QueuesOK, Granted
<1> QED BY <1>1, <1>2

\* An agent's counters and its table: one account's entry changes at a time.
LEMMA AtAgentKept ==
  ASSUME RestOK, NEW a \in Agent, NEW y \in Account,
         \/ byAccount' = byAccount /\ UNCHANGED <<logouts, saving>>
         \/ byAccount' = byAccount /\ LoginCheckDelete(a, y) /\ UNCHANGED saving
         \/ byAccount' = byAccount /\ saving' = [saving EXCEPT ![a][y] = @ + 1] /\ UNCHANGED logouts
         \/ byAccount' = [byAccount EXCEPT ![a][y] = NoBlock] /\ LoginCheckDelete(a, y) /\ UNCHANGED saving
         \/ byAccount' = [byAccount EXCEPT ![a][y] = NoBlock]
            /\ saving' = [saving EXCEPT ![a][y] = @ + 1] /\ UNCHANGED logouts,
         NEW b \in Agent, NEW x \in Account, AtAgent(b, x)
  PROVE  AtAgent(b, x)'
<1>1. /\ logouts \in [Agent -> [Account -> Nat]] /\ saving \in [Agent -> [Account -> Nat]]
      /\ byAccount \in [Agent -> [Account -> Block \cup {NoBlock}]]
  BY DEF RestOK, AgentOK, PoolOK, CountsOK
<1>2. LoginCheckDelete(a, y) => logouts'[a][y] > 0 /\ logouts'[b][x] >= logouts[b][x]
  BY <1>1 DEF LoginCheckDelete
<1>3. saving' = [saving EXCEPT ![a][y] = @ + 1] => saving'[a][y] > 0 /\ saving'[b][x] >= saving[b][x]
  BY <1>1
<1>4. /\ logouts[b][x] \in Nat /\ saving[b][x] \in Nat
      /\ LoginCheckDelete(a, y) => logouts'[b][x] \in Nat
      /\ saving' = [saving EXCEPT ![a][y] = @ + 1] => saving'[b][x] \in Nat
  BY <1>1, CountTypes
<1>5. byAccount' = [byAccount EXCEPT ![a][y] = NoBlock] => byAccount'[b][x] = byAccount[b][x] \/ (b = a /\ x = y)
  BY <1>1
<1> QED BY <1>2, <1>3, <1>4, <1>5 DEF AtAgent

LEMMA LeaveAtAgent ==
  ASSUME RestOK, NEW a \in Agent, NEW c \in Session, Leave(a, c), NEW b \in Agent, NEW x \in Account, AtAgent(b, x)
  PROVE  AtAgent(b, x)'
<1>1. CASE LeftAlone(c) \/ LeftFirst(a, c)
  BY <1>1, AtAgentKept DEF LeftAlone, LeftFirst
<1>2. ASSUME NEW y \in Account, LeftAccount(a, c, y) PROVE AtAgent(b, x)'
  BY <1>2, AtAgentKept DEF LeftAccount
<1> QED BY <1>1, <1>2, LeaveCases

LEMMA AgentStaysResponsible ==
  ASSUME QueuesOK, RestOK, InOrder, Strong, NEW a \in Agent, AgentStep(a), NEW x \in Account, online'[x]
  PROVE  Responsible(x)'
<1>1. UNCHANGED <<online, query, answer, lost, user>>
  BY DEF AgentStep, Start, NotifyLogin, AlreadyOut, DisconnectedOnLogin, ForceOut, LoginCheckDeleted, dbVars,
         distVars
<1> SUFFICES ASSUME ~AtAgent(a, x)'
             PROVE  /\ \A b \in Agent : AtAgent(b, x) => AtAgent(b, x)'
                    /\ \A s \in Session : AccountOf[s] = x /\ AtLogin(s) => AtLogin(s)'
  BY <1>1 DEF Strong, Responsible, LogoutUnderWay, Granted
<1>2. CASE NotifyLogin(a)
  <2> DEFINE s == Head(toAgent[a]).session
  <2>1. s \in Session /\ AccountOf[s] \in Account
    BY <1>2, HeadSessions, LoginAssumption DEF NotifyLogin, HeadIs, LoginAssumption
  <2>2. UNCHANGED <<logouts, saving>> /\ (RefuseLogin(a, s) \/ TakeLogin(a, s))
    BY <1>2 DEF NotifyLogin, dbVars
  <2> HIDE DEF s
  <2>3. \/ UNCHANGED byAccount /\ (UNCHANGED toDist \/ Reply(a, "nack", s))
        \/ /\ \E b \in Block : byAccount' = [byAccount EXCEPT ![a][AccountOf[s]] = b]
           /\ Reply(a, "ack", s)
    BY <2>2 DEF RefuseLogin, TakeLogin
  <2>4. CASE UNCHANGED byAccount /\ (UNCHANGED toDist \/ Reply(a, "nack", s))
    <3>1. \A b \in Agent : AtAgent(b, x) => AtAgent(b, x)'
      BY <2>2, <2>4 DEF AtAgent
    <3>2. ASSUME NEW b \in Agent, NEW z \in Session PROVE InAck(b, z)' => InAck(b, z)
      <4>1. CASE UNCHANGED toDist
        BY <4>1 DEF InAck
      <4>2. CASE Reply(a, "nack", s)
        <5>1. toDist'[b] = toDist[b] \/ toDist'[b] = Append(toDist[b], Message("nack", s))
          BY <4>2 DEF Reply, QueuesOK
        <5>2. Message("nack", s) \in ToDistMsg /\ Message("nack", s) \notin {Message("ack", z)}
          BY <2>1, MessageTypes DEF Message
        <5>3. toDist[b] \in Seq(ToDistMsg) /\ Added(toDist[b], toDist'[b], ToDistMsg, {Message("ack", z)})
          BY <5>1, <5>2 DEF QueuesOK, Added
        <5> QED BY <5>3, AddedQuiet DEF InAck
      <4> QED BY <2>4, <4>1, <4>2
    <3> QED BY <1>1, <3>1, <3>2 DEF AtLogin
  <2>5. ASSUME NEW b \in Block, byAccount' = [byAccount EXCEPT ![a][AccountOf[s]] = b], Reply(a, "ack", s)
        PROVE  /\ \A d \in Agent : AtAgent(d, x) => AtAgent(d, x)'
               /\ \A z \in Session : AccountOf[z] = x /\ AtLogin(z) => AtLogin(z)'
    <3>1. byAccount \in [Agent -> [Account -> Block \cup {NoBlock}]]
      BY DEF RestOK, AgentOK, PoolOK
    <3>2. x # AccountOf[s]
      <4>1. b # NoBlock
        BY LoginAssumption DEF LoginAssumption
      <4>2. byAccount'[a][AccountOf[s]] = b
        BY <2>1, <2>5, <3>1
      <4> QED BY <4>1, <4>2 DEF AtAgent
    <3>3. \A d \in Agent : byAccount'[d][x] = byAccount[d][x]
      BY <2>1, <2>5, <3>1, <3>2
    <3>4. ASSUME NEW d \in Agent, NEW z \in Session, AccountOf[z] = x, InAck(d, z)' PROVE InAck(d, z)
      <4>1. toDist'[d] = toDist[d] \/ toDist'[d] = Append(toDist[d], Message("ack", s))
        BY <2>5 DEF Reply, QueuesOK
      <4>2. Message("ack", s) \in ToDistMsg /\ Message("ack", s) \notin {Message("ack", z)}
        BY <2>1, <3>2, <3>4, MessageTypes DEF Message
      <4>3. toDist[d] \in Seq(ToDistMsg) /\ Added(toDist[d], toDist'[d], ToDistMsg, {Message("ack", z)})
        BY <4>1, <4>2 DEF QueuesOK, Added
      <4> QED BY <3>4, <4>3, AddedQuiet DEF InAck
    <3> QED BY <1>1, <2>2, <3>3, <3>4 DEF AtAgent, AtLogin
  <2> QED BY <2>3, <2>4, <2>5
<1>3. CASE AlreadyOut(a) \/ DisconnectedOnLogin(a) \/ ForceOut(a) \/ Start(a)
  <2>1. UNCHANGED toDist
    BY <1>3 DEF AlreadyOut, DisconnectedOnLogin, ForceOut, Start, msgVars
  <2> DEFINE s == Head(toAgent[a]).session
  <2>2. \/ UNCHANGED <<logouts, byAccount, saving>>
        \/ toAgent[a] # <<>> /\ FreeInfo(a, AccountOf[s]) /\ UNCHANGED saving
        \/ \E b \in {Found(a, s)} : /\ toAgent[a] # <<>> /\ b # NoBlock /\ info[a][b].connection # NoSession
                                    /\ Leave(a, info[a][b].connection)
    BY <1>3 DEF AlreadyOut, DisconnectedOnLogin, ForceOut, HeadIs, Start, dbVars
  <2>3. toAgent[a] # <<>> => /\ s \in Session /\ AccountOf[s] \in Account
                             /\ Found(a, s) \in Block \cup {NoBlock}
    BY HeadSessions, Blocks, LoginAssumption DEF LoginAssumption
  <2> HIDE DEF s
  <2>4. \A b \in Agent : AtAgent(b, x) => AtAgent(b, x)'
    <3>1. CASE UNCHANGED <<logouts, byAccount, saving>>
      BY <3>1 DEF AtAgent
    <3>2. CASE toAgent[a] # <<>> /\ FreeInfo(a, AccountOf[s]) /\ UNCHANGED saving
      BY <2>3, <3>2, AtAgentKept DEF FreeInfo
    <3>3. ASSUME toAgent[a] # <<>>, NEW b \in {Found(a, s)}, b # NoBlock, info[a][b].connection # NoSession,
                 Leave(a, info[a][b].connection)
          PROVE  \A d \in Agent : AtAgent(d, x) => AtAgent(d, x)'
      BY <2>3, <3>3, Blocks, LeaveAtAgent
    <3> QED BY <2>2, <3>1, <3>2, <3>3
  <2> QED BY <1>1, <2>1, <2>4 DEF AtLogin, InAck
<1>4. ASSUME NEW y \in Account, LoginCheckDeleted(a, y)
      PROVE  /\ \A b \in Agent : AtAgent(b, x) => AtAgent(b, x)'
             /\ \A s \in Session : AccountOf[s] = x /\ AtLogin(s) => AtLogin(s)'
  <2>1. /\ saving[a][y] > 0 /\ saving' = [saving EXCEPT ![a][y] = @ - 1] /\ UNCHANGED <<byAccount, toDist>>
        /\ \/ byAccount[a][y] # NoBlock /\ UNCHANGED logouts
           \/ LoginCheckDelete(a, y)
    BY <1>4 DEF LoginCheckDeleted, msgVars
  <2>2. ASSUME NEW b \in Agent, AtAgent(b, x) PROVE AtAgent(b, x)'
    <3>1. /\ logouts \in [Agent -> [Account -> Nat]] /\ saving \in [Agent -> [Account -> Nat]]
      BY DEF RestOK, AgentOK, CountsOK
    <3>2. CASE b = a /\ x = y
      <4>1. LoginCheckDelete(a, y) => logouts'[a][y] > 0
        BY <3>1 DEF LoginCheckDelete
      <4> QED BY <2>1, <3>2, <4>1 DEF AtAgent
    <3>3. CASE ~(b = a /\ x = y)
      <4>1. saving'[b][x] = saving[b][x]
        BY <2>1, <3>1, <3>3
      <4>2. logouts'[b][x] = logouts[b][x]
        BY <2>1, <3>1, <3>3 DEF LoginCheckDelete
      <4> QED BY <2>1, <2>2, <4>1, <4>2 DEF AtAgent
    <3> QED BY <3>2, <3>3
  <2> QED BY <1>1, <2>1, <2>2 DEF AtLogin, InAck
<1> QED BY <1>2, <1>3, <1>4 DEF AgentStep

LEMMA ClientStaysResponsible ==
  ASSUME QueuesOK, RestOK, InOrder, Strong, NEW s \in Session, ClientStep(s), NEW x \in Account, online'[x]
  PROVE  Responsible(x)'
<1>1. UNCHANGED <<online, lost, answer, toDist>>
  BY DEF ClientStep, Connect, LoginSyn, ForceSyn, LoginAck, DistOut, Break, AgentAccept, CharacterList,
         CharacterSelect, BackToCharSel, AgentDisconnect, ConnectionCheck, GiveUp, dbVars, msgVars
<1>2. UNCHANGED user \/ user' = [user EXCEPT ![s].distOut = TRUE]
  BY DEF ClientStep, Connect, LoginSyn, ForceSyn, LoginAck, DistOut, Break, AgentAccept, CharacterList,
         CharacterSelect, BackToCharSel, AgentDisconnect, ConnectionCheck, GiveUp, distVars
<1>3. \A z \in Session : AtLogin(z) => AtLogin(z)'
  BY <1>1, <1>2 DEF AtLogin, InAck, RestOK, DistOK
<1>4. LogoutUnderWay(x) => LogoutUnderWay(x)'
  <2>1. UNCHANGED query \/ \E e \in {LoginOf(s), Logout(AccountOf[s])} : query' = Append(query, e)
    BY DEF ClientStep, Connect, LoginSyn, ForceSyn, LoginAck, DistOut, Break, AgentAccept, CharacterList,
           CharacterSelect, BackToCharSel, AgentDisconnect, ConnectionCheck, GiveUp, dbVars
  <2>2. LoginOf(s) \in Query /\ Logout(AccountOf[s]) \in Query
    BY MessageTypes, LoginAssumption DEF LoginAssumption
  <2> QED BY <2>1, <2>2, Gained DEF LogoutUnderWay
<1>5. ASSUME NEW b \in Agent, AtAgent(b, x) PROVE AtAgent(b, x)'
  <2>1. PICK a \in Agent : a = agentOf[s]
    BY DEF RestOK
  <2>2. \/ UNCHANGED <<logouts, byAccount, saving>>
        \/ Leave(a, s)
        \/ ConnectionCheck(s)
    BY <2>1 DEF ClientStep, Connect, LoginSyn, ForceSyn, LoginAck, DistOut, Break, AgentAccept, CharacterList,
           CharacterSelect, BackToCharSel, AgentDisconnect, GiveUp, Attach, dbVars, agentVars
  <2>3. CASE ConnectionCheck(s)
    <3>1. PICK y : /\ y = AccountOf[info[a][byConnection[s]].session] /\ LoginCheckDelete(a, y)
                   /\ byAccount' = [byAccount EXCEPT ![a][y] = NoBlock] /\ UNCHANGED saving
                   /\ byConnection[s] # NoBlock /\ info[a][byConnection[s]].session # NoSession
      BY <2>1, <2>3 DEF ConnectionCheck, Named
    <3>2. byConnection[s] \in Block
      BY <3>1 DEF RestOK, ConnectionsOK
    <3>3. y \in Account
      BY <3>1, <3>2, Blocks
    <3> QED BY <1>5, <3>1, <3>3, AtAgentKept
  <2> QED BY <1>5, <2>2, <2>3, LeaveAtAgent DEF AtAgent
<1> QED BY <1>1, <1>3, <1>4, <1>5 DEF Strong, Responsible, Granted

LEMMA DistStaysResponsible ==
  ASSUME QueuesOK, RestOK, InOrder, Strong, DistStep, NEW x \in Account, online'[x]
  PROVE  Responsible(x)'
<1>1. UNCHANGED <<online, logouts, byAccount, saving>> /\ \A a \in Agent : AtAgent(a, x)' = AtAgent(a, x)
  BY DEF DistStep, HandleAnswer, OnDisconnectUser, NotifyAck, NotifyNack, dbVars, agentVars, AtAgent
<1>2. CASE HandleAnswer
  <2>s. PICK s \in Session, state \in {1, 4} : Head(answer).session = s /\ Head(answer).state = state
    BY <1>2, HeadSessions DEF HandleAnswer
  <2>1. answer # <<>> /\ answer' = Tail(answer) /\ UNCHANGED toDist /\ answer \in Seq(Answer)
    BY <1>2 DEF HandleAnswer, QueuesOK
  <2>2. Head(answer) = [session |-> s, state |-> state]
    BY <2>s, <2>1, Tailed DEF Answer
  <2>3. \/ state = 1 /\ query' = Append(query, Logout(AccountOf[s])) /\ UNCHANGED <<user, lost>>
        \/ state = 1 /\ UNCHANGED <<query, user>> /\ lost' = lost \cup {AccountOf[s]}
        \/ state = 1 /\ UNCHANGED <<query, lost>>
           /\ user' = [user EXCEPT ![s].state = 1, ![s].delete = TRUE]
        \/ state = 4 /\ UNCHANGED <<query, lost>>
           /\ (user' = user \/ user' = [user EXCEPT ![s].state = 4])
    BY <1>2, <2>s DEF HandleAnswer
  <2>a. AccountOf[s] \in Account
    BY LoginAssumption DEF LoginAssumption
  <2>4. LogoutUnderWay(x) => LogoutUnderWay(x)'
    <3>1. query' = query \/ query' = Append(query, Logout(AccountOf[s]))
      BY <2>3
    <3> QED BY <2>a, <3>1, Gained, MessageTypes DEF LogoutUnderWay
  <2>5. \A z \in Session : AtLogin(z) => AtLogin(z)'
    <3>1. ASSUME NEW z \in Session, user[z].delete PROVE user'[z].delete
      <4>1. CASE z # s \/ UNCHANGED user
        BY <2>3, <3>1, <4>1 DEF RestOK, DistOK
      <4>2. CASE z = s /\ user' = [user EXCEPT ![s].state = 1, ![s].delete = TRUE]
        BY <4>2 DEF RestOK, DistOK
      <4>3. CASE z = s /\ user' = [user EXCEPT ![s].state = 4]
        <5>1. user'[s] = [user[s] EXCEPT !.state = 4]
          BY <4>3 DEF RestOK, DistOK
        <5>2. user'[s].delete = user[s].delete
          BY <5>1 DEF RestOK, DistOK
        <5> QED BY <3>1, <4>3, <5>2
      <4> QED BY <2>3, <4>1, <4>2, <4>3
    <3> QED BY <2>1, <3>1 DEF AtLogin, InAck
  <2>6. Granted(x) => Granted(x)' \/ (state = 1 /\ x = AccountOf[s])
    <3>1. Head(answer) \in Grant(x) => state = 1 /\ x = AccountOf[s]
      <4>1. \A e \in Grant(x) : e.state = 1 /\ AccountOf[e.session] = x
        BY DEF Grant
      <4> QED BY <2>s, <4>1
    <3> QED BY <2>1, <3>1, TailHas DEF Granted
  <2>7. ASSUME state = 1, x = AccountOf[s] PROVE LogoutUnderWay(x)' \/ x \in lost' \/ AtLogin(s)'
    <3>1. CASE user' = [user EXCEPT ![s].state = 1, ![s].delete = TRUE]
      <4>1. user'[s].delete
        BY <3>1 DEF RestOK, DistOK
      <4>2. InAnswer(s)
        BY <2>1, <2>2, TailHas DEF InAnswer, Answers
      <4>3. \A a \in Agent : ~InReply(a, s)
        BY <4>2 DEF InOrder, Fine, OneNotice
      <4>4. \A a \in Agent : ~InAck(a, s)
        BY <4>3 DEF InReply, InAck, Has, Replies
      <4> QED BY <2>1, <4>1, <4>4 DEF AtLogin, InAck
    <3>2. CASE query' = Append(query, Logout(AccountOf[s]))
      BY <2>7, <3>2, Gained, MessageTypes
    <3>3. CASE lost' = lost \cup {AccountOf[s]}
      BY <2>7, <3>3
    <3> QED BY <2>3, <2>7, <3>1, <3>2, <3>3
  <2>8. x \in lost => x \in lost'
    <3>1. lost' = lost \/ lost' = lost \cup {AccountOf[s]}
      BY <2>3
    <3> QED BY <3>1
  <2> QED BY <1>1, <2>4, <2>5, <2>6, <2>7, <2>8 DEF Strong, Responsible
<1>3. ASSUME NEW s \in Session, OnDisconnectUser(s) PROVE Responsible(x)'
  <2>1. /\ query' = IF user[s].delete THEN Append(query, Logout(AccountOf[s])) ELSE query
        /\ user' = [user EXCEPT ![s] = FreshUser] /\ UNCHANGED <<answer, lost, toDist>>
    BY <1>3 DEF OnDisconnectUser
  <2>a. AccountOf[s] \in Account
    BY LoginAssumption DEF LoginAssumption
  <2>2. LogoutUnderWay(x) \/ (user[s].delete /\ AccountOf[s] = x) => LogoutUnderWay(x)'
    BY <2>1, <2>a, Gained, MessageTypes DEF LogoutUnderWay
  <2>3. \A z \in Session : AtLogin(z) => AtLogin(z)' \/ (user[s].delete /\ z = s)
    BY <2>1 DEF AtLogin, InAck, RestOK, DistOK
  <2> QED BY <1>1, <2>1, <2>2, <2>3 DEF Strong, Responsible, Granted
<1>4. ASSUME NEW a \in Agent, NotifyNack(a) PROVE Responsible(x)'
  <2>1. /\ UNCHANGED <<query, answer, lost, user>> /\ toDist[a] # <<>>
        /\ toDist' = [toDist EXCEPT ![a] = Tail(@)]
    BY <1>4 DEF NotifyNack, dbVars
  <2>2. \A b \in Agent, z \in Session : InAck(b, z)' => InAck(b, z)
    BY <2>1, TailHas DEF InAck, QueuesOK
  <2> QED BY <1>1, <2>1, <2>2 DEF Strong, Responsible, LogoutUnderWay, Granted, AtLogin
<1>5. ASSUME NEW a \in Agent, NotifyAck(a) PROVE Responsible(x)'
  <2>s. PICK s \in Session : Head(toDist[a]).session = s
    BY <1>5, HeadSessions DEF NotifyAck
  <2>1. /\ UNCHANGED <<query, answer, lost>> /\ toDist[a] # <<>> /\ toDist[a] \in Seq(ToDistMsg)
        /\ toDist' = [toDist EXCEPT ![a] = Tail(@)] /\ Head(toDist[a]).kind = "ack"
        /\ \A z \in Session : z # s => user'[z] = user[z]
    BY <1>5, <2>s DEF NotifyAck, dbVars, RestOK, DistOK, QueuesOK
  <2>2. InAck(a, s)
    <3>1. Head(toDist[a]) \in ToDistMsg
      BY <2>1, Tailed
    <3>2. Head(toDist[a]) = [kind |-> "ack", session |-> s]
      BY <2>s, <2>1, <3>1 DEF ToDistMsg
    <3> QED BY <2>1, <3>2, TailHas DEF InAck, Message
  <2>3. \A b \in Agent, z \in Session : InAck(b, z)' => InAck(b, z)
    BY <2>1, TailHas DEF InAck, QueuesOK
  <2>4. \A z \in Session : AtLogin(z) => AtLogin(z)'
    BY <2>1, <2>2, <2>3 DEF AtLogin
  <2> QED BY <1>1, <2>1, <2>4 DEF Strong, Responsible, LogoutUnderWay, Granted
<1> QED BY <1>2, <1>3, <1>4, <1>5 DEF DistStep

LEMMA DatabaseStaysResponsible ==
  ASSUME QueuesOK, RestOK, Strong, DatabaseStep, NEW x \in Account, online'[x]
  PROVE  Responsible(x)'
<1>1. UNCHANGED <<user, toDist, saving, byAccount>> /\ \A s \in Session : AtLogin(s)' = AtLogin(s)
  BY DEF DatabaseStep, ExecuteQuery, ExecuteLogout, distVars, msgVars, agentVars, AtLogin, InAck
<1>2. ASSUME NEW a \in Agent, NEW y \in Account, ExecuteLogout(a, y) PROVE Responsible(x)'
  <2>1. /\ logouts' = [logouts EXCEPT ![a][y] = @ - 1] /\ online' = [online EXCEPT ![y] = FALSE]
        /\ lost' = lost \ {y} /\ UNCHANGED <<query, answer>>
    BY <1>2 DEF ExecuteLogout, LogOut
  <2>2. x # y /\ online[x]
    BY <2>1 DEF RestOK, DistOK
  <2>3. \A b \in Agent : logouts'[b][x] = logouts[b][x]
    BY <2>1, <2>2 DEF RestOK, AgentOK, CountsOK
  <2> QED BY <1>1, <2>1, <2>2, <2>3 DEF Strong, Responsible, LogoutUnderWay, Granted, AtAgent
<1>3. CASE ExecuteQuery
  <2>1. /\ query # <<>> /\ query' = Tail(query) /\ query \in Seq(Query) /\ Head(query) \in Query
        /\ UNCHANGED logouts
    BY <1>3, Tailed DEF ExecuteQuery, QueuesOK
  <2>2. \A a \in Agent : AtAgent(a, x)' = AtAgent(a, x)
    BY <1>1, <2>1 DEF AtAgent
  <2>3. ASSUME NEW y \in Account, Head(query) = Logout(y) PROVE Responsible(x)'
    <3>1. online' = [online EXCEPT ![y] = FALSE] /\ lost' = lost \ {y} /\ UNCHANGED answer
      BY <1>3, <2>3 DEF ExecuteQuery, LogOut, Logout
    <3>2. x # y /\ online[x]
      BY <3>1 DEF RestOK, DistOK
    <3>3. LogoutUnderWay(x) => LogoutUnderWay(x)'
      <4>1. Head(query) \notin {Logout(x)}
        BY <2>3, <3>2 DEF Logout
      <4> QED BY <2>1, <4>1, TailHas DEF LogoutUnderWay
    <3> QED BY <1>1, <2>2, <3>1, <3>2, <3>3 DEF Strong, Responsible, Granted
  <2>4. ASSUME NEW s \in Session, Head(query) = LoginOf(s) PROVE Responsible(x)'
    <3>1. /\ online' = [online EXCEPT ![AccountOf[s]] = TRUE] /\ UNCHANGED lost
          /\ answer' = Append(answer, [session |-> s, state |-> IF online[AccountOf[s]] THEN 4 ELSE 1])
      BY <1>3, <2>4 DEF ExecuteQuery, LoginOf
    <3>2. LogoutUnderWay(x) => LogoutUnderWay(x)'
      <4>1. Head(query) \notin {Logout(x)}
        BY <2>4, Distinct
      <4> QED BY <2>1, <4>1, TailHas DEF LogoutUnderWay
    <3>3. \A st \in {1, 4} : [session |-> s, state |-> st] \in Answer
      BY MessageTypes
    <3>4. Granted(x) => Granted(x)'
      BY <3>1, <3>3, Gained
    <3>5. CASE online[x]
      BY <1>1, <2>2, <3>1, <3>2, <3>4, <3>5 DEF Strong, Responsible
    <3>6. CASE ~online[x]
      <4>1. x = AccountOf[s]
        BY <3>1, <3>6 DEF RestOK, DistOK
      <4>2. [session |-> s, state |-> 1] \in Grant(x)
        BY <4>1 DEF Grant
      <4>3. answer' = Append(answer, [session |-> s, state |-> 1])
        BY <3>1, <3>6, <4>1
      <4> QED BY <3>3, <4>2, <4>3, Gained DEF Responsible
    <3> QED BY <3>5, <3>6
  <2> QED BY <2>1, <2>3, <2>4 DEF Query
<1> QED BY <1>2, <1>3 DEF DatabaseStep

\* While the database has an account logged in, somebody still has to log it out,
\* unless its log-in is one that the file check has dropped and that nobody has
\* logged out since: whatever breaks, comes late, is refused or handed out again.
THEOREM SomebodyStaysResponsible == SafeSpec => []SomebodyResponsible
<1>1. Init => Strong
  BY DEF Init, Strong
<1>2. IInv /\ Strong /\ [Next]_vars => Strong'
  <2> SUFFICES ASSUME QueuesOK, RestOK, InOrder, Strong, [Next]_vars, NEW x \in Account, online'[x]
               PROVE  Responsible(x)'
    BY Types DEF Strong, IInv
  <2>1. CASE UNCHANGED vars \/ \E y \in Account : TenSeconds(y)
    BY <2>1 DEF vars, TenSeconds, dbVars, msgVars, agentVars, Strong, Responsible, LogoutUnderWay, Granted,
                AtAgent, AtLogin, InAck
  <2> QED BY <2>1, ClientStaysResponsible, DistStaysResponsible, AgentStaysResponsible,
             DatabaseStaysResponsible DEF Next
<1>3. IInv /\ Strong => SomebodyResponsible
  BY StrongEnough DEF IInv
<1> QED BY <1>1, <1>2, <1>3, AttemptsStayInOrder, PTL DEF SafeSpec

(***************************************************************************)
(* Whose a USERINFO is.  Agree is what TablesAgree says of one agent with  *)
(* the values of its variables as parameters: U are the blocks in use, I   *)
(* what they hold, B the table by account, C the table by connection, and  *)
(* K the clients.  A connection has an entry as long as its client is      *)
(* there, and a block without an account until the list of characters.     *)
(***************************************************************************)

AtHome(k) == k \in {"agent", "playing"}

Agree(a, U, I, B, C, K) ==
  /\ \A x \in Account : B[x] # NoBlock =>
       /\ B[x] \in U
       /\ I[B[x]].session # NoSession /\ AccountOf[I[B[x]].session] = x /\ agentOf[I[B[x]].session] = a
  /\ \A b \in U :
       /\ I[b].session # NoSession => B[AccountOf[I[b].session]] = b
       /\ I[b].connection # NoSession => C[I[b].connection] = b /\ agentOf[I[b].connection] = a
       /\ I[b].session # I[b].connection => I[b].session = NoSession \/ I[b].connection = NoSession
       /\ I[b] # Zeroed
  /\ \A b \in Block \ U : I[b].session = NoSession
  /\ \A s \in Session : agentOf[s] = a =>
       /\ C[s] # NoBlock <=> AtHome(K[s])
       /\ C[s] # NoBlock => C[s] \notin U \/ I[C[s]].connection = s
       /\ C[s] # NoBlock /\ K[s] = "agent" => I[C[s]].session = NoSession

Agrees(a) == Agree(a, used[a], info[a], byAccount[a], byConnection, client)

\* The types of the parameters.
AgreeTypes(U, I, B, C, K) ==
  /\ U \subseteq Block /\ I \in [Block -> UserInfo] /\ B \in [Account -> Block \cup {NoBlock}]
  /\ C \in [Session -> Block \cup {NoBlock}]
  /\ K \in [Session -> {"away", "dist", "told", "agent", "playing", "gone"}]

\* A block is freed, the account that has it loses its entry, and a connection that
\* names it may go.
LEMMA AgreeFree ==
  ASSUME NEW a, NEW U, NEW I, NEW B, NEW C, NEW K, AgreeTypes(U, I, B, C, K), Agree(a, U, I, B, C, K),
         NEW b \in Block,
         NEW W, W = U \ {b}, NEW J, J = [I EXCEPT ![b] = Zeroed],
         NEW V, V = [c \in Account |-> IF B[c] = b THEN NoBlock ELSE B[c]],
         NEW D, NEW L,
         \A s \in Session : agentOf[s] = a =>
           /\ D[s] = C[s] \/ (D[s] = NoBlock /\ C[s] = b)
           /\ D[s] # NoBlock <=> AtHome(L[s])
           /\ L[s] = "agent" => K[s] = "agent"
  PROVE  Agree(a, W, J, V, D, L)
<1>t. /\ U \subseteq Block /\ I \in [Block -> UserInfo] /\ B \in [Account -> Block \cup {NoBlock}]
      /\ C \in [Session -> Block \cup {NoBlock}]
  BY DEF AgreeTypes
<1>j. J[b] = Zeroed /\ \A c \in Block : c # b => J[c] = I[c]
  BY <1>t
<1>n. NoBlock \notin Block /\ NoSession \notin Session /\ AccountOf \in [Session -> Account]
  BY LoginAssumption DEF LoginAssumption
<1>u. \A c \in Block : /\ I[c].session \in Session \cup {NoSession}
                       /\ I[c].connection \in Session \cup {NoSession}
  BY <1>t DEF UserInfo
<1>1. ASSUME NEW x \in Account, V[x] # NoBlock
      PROVE  /\ V[x] \in W
             /\ J[V[x]].session # NoSession /\ AccountOf[J[V[x]].session] = x /\ agentOf[J[V[x]].session] = a
  <2>1. V[x] = B[x] /\ B[x] # b
    BY <1>1
  <2> QED BY <1>1, <1>t, <1>j, <2>1 DEF Agree
<1>2. ASSUME NEW c \in W
      PROVE  /\ J[c].session # NoSession => V[AccountOf[J[c].session]] = c
             /\ J[c].connection # NoSession => D[J[c].connection] = c /\ agentOf[J[c].connection] = a
             /\ J[c].session # J[c].connection => J[c].session = NoSession \/ J[c].connection = NoSession
             /\ J[c] # Zeroed
  <2>1. J[c] = I[c] /\ c \in Block
    BY <1>t, <1>j
  <2>2. I[c].session # NoSession => V[AccountOf[I[c].session]] = c
    <3>1. I[c].session # NoSession => AccountOf[I[c].session] \in Account
      BY <1>n, <1>u, <2>1
    <3> QED BY <3>1 DEF Agree
  <2>3. I[c].connection # NoSession => D[I[c].connection] = c /\ agentOf[I[c].connection] = a
    BY <1>u, <2>1 DEF Agree
  <2> QED BY <2>1, <2>2, <2>3 DEF Agree
<1>3. ASSUME NEW c \in Block \ W PROVE J[c].session = NoSession
  BY <1>j DEF Zeroed, Agree
<1>4. ASSUME NEW s \in Session, agentOf[s] = a
      PROVE  /\ D[s] # NoBlock <=> AtHome(L[s])
             /\ D[s] # NoBlock => D[s] \notin W \/ J[D[s]].connection = s
             /\ D[s] # NoBlock /\ L[s] = "agent" => J[D[s]].session = NoSession
  <2>1. D[s] # NoBlock => D[s] = C[s] /\ C[s] \in Block
    BY <1>4, <1>t
  <2>2. D[s] # NoBlock /\ D[s] # b => J[D[s]] = I[C[s]]
    BY <1>j, <2>1
  <2> QED BY <1>4, <1>j, <2>1, <2>2 DEF Agree, Zeroed
<1> QED BY <1>1, <1>2, <1>3, <1>4 DEF Agree

\* A block b goes to the USERINFO of log-in s, in the place of the account's old one,
\* which no connection has.
Taken(a, s, b, old, U, I, B, C, W, J, V) ==
  /\ old = {B[AccountOf[s]]} \ {NoBlock} /\ \A c \in old : I[c].connection = NoSession
  /\ b \in Block \ (U \ old) /\ \A z \in Session : agentOf[z] = a => C[z] # b
  /\ W = (U \ old) \cup {b}
  /\ J[b].session = s /\ J[b].connection = NoSession
  /\ \A c \in Block : c # b => J[c] = IF c \in old THEN Zeroed ELSE I[c]
  /\ V[AccountOf[s]] = b /\ \A y \in Account : y # AccountOf[s] => V[y] = B[y]

LEMMA AgreeTake ==
  ASSUME NEW a, NEW U, NEW I, NEW B, NEW C, NEW K, AgreeTypes(U, I, B, C, K), Agree(a, U, I, B, C, K),
         NEW s \in Session, agentOf[s] = a, NEW old, NEW b, NEW W, NEW J, NEW V,
         Taken(a, s, b, old, U, I, B, C, W, J, V)
  PROVE  Agree(a, W, J, V, C, K)
<1> DEFINE x == AccountOf[s]
<1>t. /\ U \subseteq Block /\ I \in [Block -> UserInfo] /\ B \in [Account -> Block \cup {NoBlock}]
      /\ C \in [Session -> Block \cup {NoBlock}]
  BY DEF AgreeTypes
<1>n. NoBlock \notin Block /\ NoSession \notin Session /\ x \in Account /\ AccountOf \in [Session -> Account]
  BY LoginAssumption DEF LoginAssumption
<1>u. \A c \in Block : /\ I[c].session \in Session \cup {NoSession}
                       /\ I[c].connection \in Session \cup {NoSession}
  BY <1>t DEF UserInfo
<1>k. /\ b \in Block /\ W = (U \ old) \cup {b} /\ b \notin U \ old
      /\ old = {B[x]} \ {NoBlock} /\ \A c \in old : I[c].connection = NoSession
      /\ \A z \in Session : agentOf[z] = a => C[z] # b
  BY DEF Taken
<1>j. /\ J[b].session = s /\ J[b].connection = NoSession
      /\ \A c \in Block : c # b /\ c \notin old => J[c] = I[c]
      /\ \A c \in Block : c # b /\ c \in old => J[c] = Zeroed
  BY DEF Taken
<1>z. J[b] # Zeroed
  BY <1>n, <1>j DEF Zeroed
<1>v. V[x] = b /\ \A y \in Account : y # x => V[y] = B[y]
  BY DEF Taken
<1>o. old \subseteq U /\ \A c \in old : c = B[x] /\ AccountOf[I[c].session] = x
  BY <1>n, <1>k DEF Agree
<1> HIDE DEF x
<1>1. ASSUME NEW y \in Account, V[y] # NoBlock
      PROVE  V[y] \in W /\ J[V[y]].session # NoSession /\ AccountOf[J[V[y]].session] = y
             /\ agentOf[J[V[y]].session] = a
  <2>1. CASE y = x
    <3>1. V[y] = b /\ AccountOf[s] = x
      BY <1>v, <2>1 DEF x
    <3> QED BY <1>k, <1>n, <1>j, <2>1, <3>1
  <2>2. CASE y # x
    <3>1. /\ V[y] = B[y] /\ B[y] \in U /\ AccountOf[I[B[y]].session] = y
          /\ I[B[y]].session # NoSession /\ agentOf[I[B[y]].session] = a
      BY <1>1, <1>v, <2>2 DEF Agree
    <3>2. B[y] \notin old
      BY <1>o, <2>2, <3>1
    <3>3. B[y] # b /\ B[y] \in Block
      BY <1>t, <1>k, <3>1, <3>2
    <3> QED BY <1>k, <1>j, <3>1, <3>2, <3>3
  <2> QED BY <2>1, <2>2
<1>2. ASSUME NEW c \in W
      PROVE  /\ J[c].session # NoSession => V[AccountOf[J[c].session]] = c
             /\ J[c].connection # NoSession => C[J[c].connection] = c /\ agentOf[J[c].connection] = a
             /\ J[c].session # J[c].connection => J[c].session = NoSession \/ J[c].connection = NoSession
             /\ J[c] # Zeroed
  <2>1. CASE c = b
    <3>1. V[AccountOf[s]] = b
      BY <1>v DEF x
    <3> QED BY <1>n, <1>j, <1>z, <2>1, <3>1
  <2>2. CASE c # b
    <3>1. c \in U /\ c \notin old /\ c \in Block /\ J[c] = I[c]
      BY <1>k, <1>t, <1>j, <2>2
    <3>2. I[c].session # NoSession =>
            AccountOf[I[c].session] \in Account /\ B[AccountOf[I[c].session]] = c
      BY <1>n, <1>u, <3>1 DEF Agree
    <3>3. I[c].session # NoSession => AccountOf[I[c].session] # x
      BY <1>n, <1>k, <3>1, <3>2
    <3> QED BY <1>v, <3>1, <3>2, <3>3 DEF Agree
  <2> QED BY <2>1, <2>2
<1>3. ASSUME NEW c \in Block \ W PROVE J[c].session = NoSession
  BY <1>k, <1>j DEF Zeroed, Agree
<1>4. ASSUME NEW z \in Session, agentOf[z] = a
      PROVE  /\ C[z] # NoBlock <=> AtHome(K[z])
             /\ C[z] # NoBlock => C[z] \notin W \/ J[C[z]].connection = z
             /\ C[z] # NoBlock /\ K[z] = "agent" => J[C[z]].session = NoSession
  <2>1. C[z] # NoBlock => C[z] \notin old
    BY <1>k, <1>4, <1>n, <1>o DEF Agree
  <2>2. C[z] # NoBlock => C[z] \in Block /\ C[z] # b
    BY <1>k, <1>4, <1>t
  <2> QED BY <1>k, <1>4, <1>j, <2>1, <2>2 DEF Agree
<1> QED BY <1>1, <1>2, <1>3, <1>4 DEF Agree

\* A block goes to a new connection, which has none.
LEMMA AgreeAccept ==
  ASSUME NEW a, NEW U, NEW I, NEW B, NEW C, NEW K, AgreeTypes(U, I, B, C, K), Agree(a, U, I, B, C, K),
         NEW s \in Session, agentOf[s] = a, ~AtHome(K[s]),
         NEW b \in Block \ U, \A z \in Session : (agentOf[z] = a => C[z] # b),
         NEW W, W = U \cup {b},
         NEW J, J[b] = [Zeroed EXCEPT !.connection = s], \A c \in Block : (c # b => J[c] = I[c]),
         NEW D, NEW L, D[s] = b, L[s] = "agent",
         \A z \in Session : (z # s => D[z] = C[z] /\ L[z] = K[z])
  PROVE  Agree(a, W, J, B, D, L)
<1>t. /\ U \subseteq Block /\ I \in [Block -> UserInfo] /\ B \in [Account -> Block \cup {NoBlock}]
      /\ C \in [Session -> Block \cup {NoBlock}]
  /\ K \in [Session -> {"away", "dist", "told", "agent", "playing", "gone"}]
  BY DEF AgreeTypes
<1>n. NoBlock \notin Block /\ NoSession \notin Session
  BY LoginAssumption DEF LoginAssumption
<1>u. \A c \in Block : I[c].connection \in Session \cup {NoSession}
  BY <1>t DEF UserInfo
<1>j. /\ J[b].session = NoSession /\ J[b].connection = s /\ J[b] # Zeroed
      /\ \A c \in Block : c # b => J[c] = I[c]
  BY <1>n DEF Zeroed
<1>d. /\ D[s] = b /\ L[s] = "agent" /\ C[s] = NoBlock
      /\ \A z \in Session : z # s => D[z] = C[z] /\ L[z] = K[z]
  BY <1>t DEF Agree
<1>1. ASSUME NEW x \in Account, B[x] # NoBlock
      PROVE  B[x] \in W /\ J[B[x]].session # NoSession /\ AccountOf[J[B[x]].session] = x
             /\ agentOf[J[B[x]].session] = a
  <2>1. B[x] \in U /\ B[x] # b /\ B[x] \in Block
    BY <1>1, <1>t DEF Agree
  <2> QED BY <1>1, <1>j, <2>1 DEF Agree
<1>2. ASSUME NEW c \in W
      PROVE  /\ J[c].session # NoSession => B[AccountOf[J[c].session]] = c
             /\ J[c].connection # NoSession => D[J[c].connection] = c /\ agentOf[J[c].connection] = a
             /\ J[c].session # J[c].connection => J[c].session = NoSession \/ J[c].connection = NoSession
             /\ J[c] # Zeroed
  <2>1. CASE c = b
    BY <1>j, <1>d, <2>1
  <2>2. CASE c # b
    <3>1. c \in U /\ c \in Block /\ J[c] = I[c]
      BY <1>t, <1>j, <2>2
    <3>2. I[c].connection # s
      BY <1>n, <1>d, <3>1 DEF Agree
    <3> QED BY <1>u, <1>d, <3>1, <3>2 DEF Agree
  <2> QED BY <2>1, <2>2
<1>3. ASSUME NEW c \in Block \ W PROVE J[c].session = NoSession
  BY <1>j DEF Agree
<1>4. ASSUME NEW z \in Session, agentOf[z] = a
      PROVE  /\ D[z] # NoBlock <=> AtHome(L[z])
             /\ D[z] # NoBlock => D[z] \notin W \/ J[D[z]].connection = z
             /\ D[z] # NoBlock /\ L[z] = "agent" => J[D[z]].session = NoSession
  <2>1. CASE z = s
    BY <1>n, <1>j, <1>d, <2>1 DEF AtHome
  <2>2. CASE z # s
    <3>1. D[z] = C[z] /\ L[z] = K[z] /\ (C[z] # NoBlock => C[z] \in Block /\ C[z] # b)
      BY <1>4, <1>t, <1>d, <2>2
    <3> QED BY <1>4, <1>j, <3>1 DEF Agree
  <2> QED BY <2>1, <2>2
<1> QED BY <1>1, <1>2, <1>3, <1>4 DEF Agree

\* The account's USERINFO b takes the place of the first one of connection s.
Attached(s, b, U, I, B, C, K, W, J, D, L) ==
  /\ b = B[AccountOf[s]] /\ b # NoBlock /\ I[b].session = s /\ K[s] = "agent"
  /\ W = U \ {C[s]}
  /\ J[b].session = s /\ J[b].connection = s /\ \A c \in Block : c # b => J[c] = I[c]
  /\ D[s] = b /\ L[s] = "playing" /\ \A z \in Session : z # s => D[z] = C[z] /\ L[z] = K[z]

LEMMA AgreeAttach ==
  ASSUME NEW a, NEW U, NEW I, NEW B, NEW C, NEW K, AgreeTypes(U, I, B, C, K), Agree(a, U, I, B, C, K),
         NEW s \in Session, agentOf[s] = a, NEW b, NEW W, NEW J, NEW D, NEW L,
         Attached(s, b, U, I, B, C, K, W, J, D, L)
  PROVE  Agree(a, W, J, B, D, L)
<1> DEFINE f == C[s]
<1>t. /\ U \subseteq Block /\ I \in [Block -> UserInfo] /\ B \in [Account -> Block \cup {NoBlock}]
      /\ C \in [Session -> Block \cup {NoBlock}]
  /\ K \in [Session -> {"away", "dist", "told", "agent", "playing", "gone"}]
  BY DEF AgreeTypes
<1>n. NoBlock \notin Block /\ NoSession \notin Session /\ AccountOf \in [Session -> Account]
  BY LoginAssumption DEF LoginAssumption
<1>u. \A c \in Block : /\ I[c].session \in Session \cup {NoSession}
                       /\ I[c].connection \in Session \cup {NoSession}
  BY <1>t DEF UserInfo
<1>k. b = B[AccountOf[s]] /\ b # NoBlock /\ I[b].session = s /\ K[s] = "agent"
  BY DEF Attached
<1>b. b \in U /\ b \in Block
  BY <1>k, <1>t, <1>n DEF Agree
<1>f. /\ f # NoBlock /\ f \in Block /\ I[f].session = NoSession /\ f # b
      /\ f \notin U \/ I[f].connection = s
  BY <1>k, <1>t, <1>n DEF Agree, AtHome
<1>c. I[b].connection = NoSession
  <2>1. I[b].connection # NoSession => I[b].connection = s
    BY <1>k, <1>n, <1>b DEF Agree
  <2>2. I[b].connection = s => C[s] = b
    BY <1>n, <1>b DEF Agree
  <2> QED BY <1>f, <2>1, <2>2
<1>j. /\ J[b].session = s /\ J[b].connection = s
      /\ \A c \in Block : /\ c # b => J[c] = I[c]
                          /\ J[c].session = I[c].session
  BY <1>k DEF Attached
<1>d. /\ D[s] = b /\ L[s] = "playing"
      /\ \A z \in Session : z # s => D[z] = C[z] /\ L[z] = K[z]
  BY DEF Attached
<1>w. W = U \ {f}
  BY DEF Attached
<1> HIDE DEF f
<1>1. ASSUME NEW x \in Account, B[x] # NoBlock
      PROVE  B[x] \in W /\ J[B[x]].session # NoSession /\ AccountOf[J[B[x]].session] = x
             /\ agentOf[J[B[x]].session] = a
  <2>1. B[x] \in U /\ B[x] \in Block /\ I[B[x]].session # NoSession
    BY <1>w, <1>1, <1>t DEF Agree
  <2> QED BY <1>w, <1>1, <1>f, <1>j, <2>1 DEF Agree
<1>2. ASSUME NEW c \in W
      PROVE  /\ J[c].session # NoSession => B[AccountOf[J[c].session]] = c
             /\ J[c].connection # NoSession => D[J[c].connection] = c /\ agentOf[J[c].connection] = a
             /\ J[c].session # J[c].connection => J[c].session = NoSession \/ J[c].connection = NoSession
             /\ J[c] # Zeroed
  <2>0. c \in Block
    BY <1>w, <1>t
  <2>1. CASE c = b
    BY <1>k, <1>w, <1>n, <1>j, <1>d, <2>1 DEF Zeroed
  <2>2. CASE c # b
    <3>1. J[c] = I[c]
      BY <1>w, <1>j, <2>0, <2>2
    <3>2. I[c].connection # s
      BY <1>w, <1>n DEF Agree, f
    <3> QED BY <1>w, <1>u, <1>d, <2>0, <3>1, <3>2 DEF Agree
  <2> QED BY <2>1, <2>2
<1>3. ASSUME NEW c \in Block \ W PROVE J[c].session = NoSession
  BY <1>w, <1>f, <1>j DEF Agree
<1>4. ASSUME NEW z \in Session, agentOf[z] = a
      PROVE  /\ D[z] # NoBlock <=> AtHome(L[z])
             /\ D[z] # NoBlock => D[z] \notin W \/ J[D[z]].connection = z
             /\ D[z] # NoBlock /\ L[z] = "agent" => J[D[z]].session = NoSession
  <2>1. CASE z = s
    BY <1>w, <1>n, <1>b, <1>j, <1>d, <2>1 DEF AtHome
  <2>2. CASE z # s
    <3>1. D[z] = C[z] /\ L[z] = K[z] /\ (C[z] # NoBlock => C[z] \in Block)
      BY <1>w, <1>t, <1>d, <2>2
    <3>2. C[z] # b
      BY <1>k, <1>w, <1>4, <1>n, <1>b, <1>c DEF Agree
    <3> QED BY <1>w, <1>4, <1>j, <3>1, <3>2 DEF Agree
  <2> QED BY <2>1, <2>2
<1> QED BY <1>w, <1>1, <1>2, <1>3, <1>4 DEF Agree

\* A character is chosen or given up.
LEMMA AgreeCharacter ==
  ASSUME NEW a, NEW U, NEW I, NEW B, NEW C, NEW K, AgreeTypes(U, I, B, C, K), Agree(a, U, I, B, C, K),
         NEW s \in Session, agentOf[s] = a, NEW b \in Block, b = C[s], NEW v \in BOOLEAN,
         NEW J, J = [I EXCEPT ![b].character = v]
  PROVE  Agree(a, U, J, B, C, K)
<1>t. /\ U \subseteq Block /\ I \in [Block -> UserInfo] /\ B \in [Account -> Block \cup {NoBlock}]
      /\ C \in [Session -> Block \cup {NoBlock}]
  BY DEF AgreeTypes
<1>n. NoBlock \notin Block /\ NoSession \notin Session
  BY LoginAssumption DEF LoginAssumption
<1>j. \A c \in Block : /\ J[c].session = I[c].session /\ J[c].connection = I[c].connection
                       /\ c # b => J[c] = I[c]
  <2>1. J[b] = [I[b] EXCEPT !.character = v] /\ I[b] \in UserInfo
    BY <1>t
  <2>2. J[b].session = I[b].session /\ J[b].connection = I[b].connection
    BY <2>1 DEF UserInfo
  <2>3. \A c \in Block : c # b => J[c] = I[c]
    BY <1>t
  <2> QED BY <2>2, <2>3
<1>z. b \in U => J[b] # Zeroed
  <2>1. b \in U => I[b].connection = s
    BY <1>n DEF Agree
  <2>2. Zeroed.connection = NoSession
    BY DEF Zeroed
  <2> QED BY <1>n, <1>j, <2>1, <2>2
<1>1. \A x \in Account : B[x] # NoBlock =>
        B[x] \in U /\ J[B[x]].session # NoSession /\ AccountOf[J[B[x]].session] = x
        /\ agentOf[J[B[x]].session] = a
  BY <1>t, <1>j DEF Agree
<1>2. ASSUME NEW c \in U
      PROVE  /\ J[c].session # NoSession => B[AccountOf[J[c].session]] = c
             /\ J[c].connection # NoSession => C[J[c].connection] = c /\ agentOf[J[c].connection] = a
             /\ J[c].session # J[c].connection => J[c].session = NoSession \/ J[c].connection = NoSession
             /\ J[c] # Zeroed
  <2>1. c \in Block
    BY <1>t
  <2> QED BY <1>j, <1>z, <2>1 DEF Agree
<1>3. \A c \in Block \ U : J[c].session = NoSession
  BY <1>j DEF Agree
<1>4. \A z \in Session : agentOf[z] = a =>
        /\ C[z] # NoBlock <=> AtHome(K[z])
        /\ C[z] # NoBlock => C[z] \notin U \/ J[C[z]].connection = z
        /\ C[z] # NoBlock /\ K[z] = "agent" => J[C[z]].session = NoSession
  BY <1>t, <1>j DEF Agree
<1> QED BY <1>1, <1>2, <1>3, <1>4 DEF Agree

(***************************************************************************)
(* The steps.                                                              *)
(***************************************************************************)

AllAgree == \A a \in Agent : Agrees(a)

\* An entry whose block was freed is of a log-in that was broken off.
BrokenOff == \A s \in Session : Stale(s) => link[s] = "broken"

\* What a step does to agent d, as long as no block was handed out again.
KeptAt(d) ==
  /\ Agree(d, used'[d], info'[d], byAccount'[d], byConnection', client')
  /\ \A s \in Session : agentOf[s] = d /\ byConnection'[s] # NoBlock /\ byConnection'[s] \notin used'[d] =>
       Stale(s) \/ link[s] = "broken"

LEMMA AgentTypes ==
  ASSUME RestOK, NEW a \in Agent
  PROVE  AgreeTypes(used[a], info[a], byAccount[a], byConnection, client)
<1>1. /\ used \in [Agent -> SUBSET Block] /\ info \in [Agent -> [Block -> UserInfo]]
      /\ byAccount \in [Agent -> [Account -> Block \cup {NoBlock}]]
  BY DEF RestOK, AgentOK, PoolOK
<1> QED BY <1>1 DEF RestOK, ConnectionsOK, AgreeTypes

LEMMA Unaffected ==
  ASSUME RestOK, NEW d \in Agent, Agrees(d),
         used'[d] = used[d], info'[d] = info[d], byAccount'[d] = byAccount[d],
         \A s \in Session : agentOf[s] = d =>
           /\ byConnection'[s] = byConnection[s]
           /\ client'[s] = client[s] \/ (~AtHome(client[s]) /\ ~AtHome(client'[s]))
  PROVE  KeptAt(d)
<1>1. \A s \in Session : agentOf[s] = d =>
        (AtHome(client'[s]) <=> AtHome(client[s])) /\ (client'[s] = "agent" <=> client[s] = "agent")
  BY DEF AtHome
<1>u. \A b \in Block : info[d][b].connection \in Session \cup {NoSession}
  BY DEF RestOK, AgentOK, PoolOK, UserInfo
<1>2. used[d] \subseteq Block
  BY DEF RestOK, AgentOK, PoolOK
<1>3. \A b \in used[d] : info[d][b].connection # NoSession =>
        byConnection'[info[d][b].connection] = byConnection[info[d][b].connection]
  BY <1>u, <1>2 DEF Agrees, Agree
<1>4. Agree(d, used[d], info[d], byAccount[d], byConnection', client')
  BY <1>1, <1>3 DEF Agrees, Agree
<1> QED BY <1>4 DEF KeptAt, Stale

\* The other agents do not notice.
LEMMA Elsewhere ==
  ASSUME RestOK, AllAgree, NEW a \in Agent, NEW d \in Agent, d # a,
         \E V : used' = [used EXCEPT ![a] = V], \E J : info' = [info EXCEPT ![a] = J],
         \E B : byAccount' = [byAccount EXCEPT ![a] = B],
         \A s \in Session : agentOf[s] # a =>
           /\ byConnection'[s] = byConnection[s]
           /\ client'[s] = client[s]
  PROVE  KeptAt(d)
<1>1. used'[d] = used[d] /\ info'[d] = info[d] /\ byAccount'[d] = byAccount[d]
  BY DEF RestOK, AgentOK, PoolOK
<1> QED BY <1>1, Unaffected DEF AllAgree

\* The block b of agent a is freed: with the account's entry that names it, if one does,
\* perhaps as its connection ends, and what else names it is stale or was broken off.
FreesEntry(a, b) ==
  \/ byAccount' = byAccount /\ \A x \in Account : byAccount[a][x] # b
  \/ \E x \in Account : byAccount[a][x] = b /\ byAccount' = [byAccount EXCEPT ![a][x] = NoBlock]
FreesConnection(a, b) ==
  \/ UNCHANGED <<byConnection, client>>
  \/ \E c \in Session : /\ agentOf[c] = a /\ byConnection[c] = b
                        /\ byConnection' = [byConnection EXCEPT ![c] = NoBlock]
                        /\ client' = [client EXCEPT ![c] = "gone"]
Frees(a, b) ==
  /\ Free(a, b) /\ FreesEntry(a, b) /\ FreesConnection(a, b)
  /\ \A s \in Session : agentOf[s] = a /\ byConnection'[s] = b => Stale(s) \/ link[s] = "broken"

\* A block is freed, with the account's entry that names it; a connection that has
\* it goes with it, or is of a log-in that was broken off.
LEMMA FreedAt ==
  ASSUME RestOK, AllAgree, BrokenOff, NEW a \in Agent, NEW b \in Block, Frees(a, b), NEW d \in Agent
  PROVE  KeptAt(d)
<1>t. /\ used \in [Agent -> SUBSET Block] /\ info \in [Agent -> [Block -> UserInfo]]
      /\ byAccount \in [Agent -> [Account -> Block \cup {NoBlock}]]
      /\ byConnection \in [Session -> Block \cup {NoBlock}]
      /\ client \in [Session -> {"away", "dist", "told", "agent", "playing", "gone"}]
  BY DEF RestOK, AgentOK, PoolOK, ConnectionsOK
<1>n. NoBlock \notin Block
  BY LoginAssumption DEF LoginAssumption
<1>f. /\ used' = [used EXCEPT ![a] = used[a] \ {b}]
      /\ info' = [info EXCEPT ![a] = [info[a] EXCEPT ![b] = Zeroed]]
  BY <1>t DEF Free, Frees
<1>e. FreesEntry(a, b) /\ FreesConnection(a, b)
  BY DEF Frees
<1>a. \E B : byAccount' = [byAccount EXCEPT ![a] = B]
  <2>1. CASE byAccount' = byAccount
    <3>1. byAccount' = [byAccount EXCEPT ![a] = byAccount[a]]
      BY <1>t, <2>1
    <3> QED BY <3>1
  <2>2. ASSUME NEW x \in Account, byAccount' = [byAccount EXCEPT ![a][x] = NoBlock]
        PROVE  \E B : byAccount' = [byAccount EXCEPT ![a] = B]
    <3>1. byAccount' = [byAccount EXCEPT ![a] = [byAccount[a] EXCEPT ![x] = NoBlock]]
      BY <1>t, <2>2
    <3> QED BY <3>1
  <2> QED BY <1>e, <2>1, <2>2 DEF FreesEntry
<1>c. \A s \in Session :
        /\ agentOf[s] # a => byConnection'[s] = byConnection[s] /\ client'[s] = client[s]
        /\ byConnection'[s] = byConnection[s] \/ (byConnection'[s] = NoBlock /\ byConnection[s] = b)
        /\ byConnection'[s] # byConnection[s] => client'[s] = "gone"
        /\ byConnection'[s] = byConnection[s] => client'[s] = client[s]
  BY <1>t, <1>n, <1>e DEF FreesConnection
<1>1. CASE d # a
  BY <1>f, <1>a, <1>c, <1>1, Elsewhere
<1>2. CASE d = a
  <2>1. Agrees(a)
    BY DEF AllAgree
  <2>2. byAccount'[a] = [x \in Account |-> IF byAccount[a][x] = b THEN NoBlock ELSE byAccount[a][x]]
    <3>1. \A x, y \in Account : byAccount[a][x] = b /\ byAccount[a][y] = b => x = y
      BY <1>n, <2>1 DEF Agrees, Agree
    <3>2. byAccount'[a] \in [Account -> Block \cup {NoBlock}]
      <4>1. CASE byAccount' = byAccount
        BY <1>t, <4>1
      <4>2. ASSUME NEW x \in Account, byAccount' = [byAccount EXCEPT ![a][x] = NoBlock]
            PROVE  byAccount'[a] \in [Account -> Block \cup {NoBlock}]
        BY <1>t, <4>2
      <4> QED BY <1>e, <4>1, <4>2 DEF FreesEntry
    <3>3. \A x \in Account : byAccount'[a][x] = IF byAccount[a][x] = b THEN NoBlock ELSE byAccount[a][x]
      BY <1>t, <1>e, <3>1 DEF FreesEntry
    <3> QED BY <3>2, <3>3
  <2>3. used'[a] = used[a] \ {b} /\ info'[a] = [info[a] EXCEPT ![b] = Zeroed]
    BY <1>t, <1>f
  <2>4. \A s \in Session : agentOf[s] = a =>
          /\ byConnection'[s] = byConnection[s] \/ (byConnection'[s] = NoBlock /\ byConnection[s] = b)
          /\ byConnection'[s] # NoBlock <=> AtHome(client'[s])
          /\ client'[s] = "agent" => client[s] = "agent"
    BY <1>c, <2>1 DEF Agrees, Agree, AtHome
  <2>5. AgreeTypes(used[a], info[a], byAccount[a], byConnection, client)
        /\ Agree(a, used[a], info[a], byAccount[a], byConnection, client)
    BY <2>1, AgentTypes DEF Agrees
  <2>6. Agree(a, used'[a], info'[a], byAccount'[a], byConnection', client')
    BY <2>2, <2>3, <2>4, <2>5, AgreeFree
  <2> QED BY <1>c, <1>2, <2>3, <2>6 DEF KeptAt, Stale, Frees
<1> QED BY <1>1, <1>2

\* The account's USERINFO is freed where its log-in was broken off, or where no
\* connection has it.
LEMMA FreeInfoAt ==
  ASSUME RestOK, AllAgree, BrokenOff, NEW a \in Agent, NEW x \in Account, byAccount[a][x] # NoBlock,
         FreeInfo(a, x), UNCHANGED <<byConnection, client>>,
         \/ link[info[a][byAccount[a][x]].session] = "broken"
         \/ info[a][byAccount[a][x]].connection = NoSession,
         NEW d \in Agent
  PROVE  KeptAt(d)
<1>1. PICK b \in Block : b = byAccount[a][x] /\ b \in used[a] /\ info[a][b].session # NoSession
  BY DEF AllAgree, Agrees, Agree, RestOK, AgentOK, PoolOK
<1>2. ASSUME NEW s \in Session, agentOf[s] = a, byConnection'[s] = b PROVE link[s] = "broken"
  <2>1. info[a][b].connection = s /\ s # NoSession
    BY <1>1, <1>2, LoginAssumption DEF AllAgree, Agrees, Agree, LoginAssumption
  <2>2. info[a][b].session = s
    BY <1>1, <2>1 DEF AllAgree, Agrees, Agree
  <2> QED BY <1>1, <2>1, <2>2
<1>3. /\ Free(a, b) /\ byAccount' = [byAccount EXCEPT ![a][x] = NoBlock]
  BY <1>1 DEF FreeInfo
<1>4. Frees(a, b)
  BY <1>1, <1>2, <1>3 DEF Frees, FreesEntry, FreesConnection
<1> QED BY <1>4, FreedAt

\* A connection ends at its agent.
LEMMA LeaveAt ==
  ASSUME RestOK, AllAgree, BrokenOff, NEW a \in Agent, NEW c \in Session, agentOf[c] = a, Leave(a, c),
         NEW d \in Agent
  PROVE  KeptAt(d)
<1>t. /\ used \in [Agent -> SUBSET Block] /\ info \in [Agent -> [Block -> UserInfo]]
      /\ byAccount \in [Agent -> [Account -> Block \cup {NoBlock}]]
      /\ byConnection \in [Session -> Block \cup {NoBlock}]
      /\ client \in [Session -> {"away", "dist", "told", "agent", "playing", "gone"}]
  BY DEF RestOK, AgentOK, PoolOK, ConnectionsOK
<1>n. NoBlock \notin Block /\ NoSession \notin Session
  BY LoginAssumption DEF LoginAssumption
<1>0. /\ byConnection' = [byConnection EXCEPT ![c] = NoBlock] /\ client' = [client EXCEPT ![c] = "gone"]
      /\ LeftAlone(c) \/ LeftFirst(a, c) \/ \E x \in Account : LeftAccount(a, c, x)
  BY LeaveCases
<1>g. Agrees(a)
  BY DEF AllAgree
<1>1. CASE LeftAlone(c)
  <2>1. UNCHANGED <<used, info, byAccount, byConnection>>
    BY <1>t, <1>0, <1>1 DEF LeftAlone
  <2>2. \A s \in Session : client'[s] = client[s] \/ (~AtHome(client[s]) /\ ~AtHome(client'[s]))
    BY <1>t, <1>0, <1>1, <1>g DEF LeftAlone, Agrees, Agree, AtHome
  <2> QED BY <2>1, <2>2, Unaffected DEF AllAgree
<1>2. ASSUME NEW b \in Block, byConnection[c] = b, Free(a, b), FreesEntry(a, b)
      PROVE  KeptAt(d)
  <2>1. ASSUME NEW s \in Session, agentOf[s] = a, byConnection'[s] = b PROVE Stale(s)
    <3>1. s # c /\ byConnection[s] = b
      BY <1>t, <1>n, <1>0, <2>1
    <3>2. b \in used[a] => info[a][b].connection = s /\ info[a][b].connection = c
      BY <1>n, <1>2, <1>g, <2>1, <3>1 DEF Agrees, Agree
    <3> QED BY <1>n, <2>1, <3>1, <3>2 DEF Stale
  <2>2. FreesConnection(a, b)
    BY <1>0, <1>2 DEF FreesConnection
  <2>3. Frees(a, b)
    BY <1>2, <2>1, <2>2 DEF Frees
  <2> QED BY <2>3, FreedAt
<1>3. CASE LeftFirst(a, c)
  <2>1. PICK b \in Block : b = byConnection[c] /\ info[a][b].session = NoSession /\ Free(a, b)
    BY <1>3 DEF LeftFirst
  <2>2. \A x \in Account : byAccount[a][x] # b
    BY <1>n, <1>g, <2>1 DEF Agrees, Agree
  <2> QED BY <1>2, <1>3, <2>1, <2>2 DEF LeftFirst, FreesEntry
<1>4. ASSUME NEW x \in Account, LeftAccount(a, c, x) PROVE KeptAt(d)
  <2>1. PICK b \in Block : /\ b = byConnection[c] /\ info[a][b].session # NoSession /\ Free(a, b)
                           /\ x = AccountOf[info[a][b].session]
                           /\ byAccount' = [byAccount EXCEPT ![a][x] = NoBlock]
    BY <1>4 DEF LeftAccount
  <2>2. b \in used[a]
    BY <1>g, <2>1 DEF Agrees, Agree
  <2>3. byAccount[a][x] = b
    BY <1>g, <2>1, <2>2 DEF Agrees, Agree
  <2> QED BY <1>2, <2>1, <2>3 DEF FreesEntry
<1> QED BY <1>0, <1>1, <1>3, <1>4

\* A block is handed out: the values of the agent's variables, and whom nobody named.
LEMMA Handed ==
  ASSUME RestOK, AllAgree, NEW a \in Agent, NEW b, NEW freed, NEW u, Alloc(a, b, freed, u), reused' = {}
  PROVE  /\ b \in Block \ (used[a] \ freed) /\ \A z \in Session : (agentOf[z] = a => byConnection[z] # b)
         /\ used'[a] = (used[a] \ freed) \cup {b}
         /\ info'[a] = [c \in Block |-> IF c = b THEN u ELSE IF c \in freed THEN Zeroed ELSE info[a][c]]
         /\ \E V : used' = [used EXCEPT ![a] = V]
         /\ \E J : info' = [info EXCEPT ![a] = J]
<1>1. used \in [Agent -> SUBSET Block] /\ info \in [Agent -> [Block -> UserInfo]]
  BY DEF RestOK, AgentOK, PoolOK
<1>2. used' = [used EXCEPT ![a] = (used[a] \ freed) \cup {b}]
  BY DEF Alloc
<1>3. info' = [info EXCEPT ![a] = [c \in Block |-> IF c = b THEN u ELSE IF c \in freed THEN Zeroed ELSE info[a][c]]]
  BY DEF Alloc
<1>4. b \in Block \ (used[a] \ freed) /\ Naming(a, b) = {}
  BY DEF Alloc
<1>5. \A z \in Session : (agentOf[z] = a => byConnection[z] # b)
  BY <1>4 DEF Naming
<1>6. /\ used'[a] = (used[a] \ freed) \cup {b}
      /\ info'[a] = [c \in Block |-> IF c = b THEN u ELSE IF c \in freed THEN Zeroed ELSE info[a][c]]
  BY <1>1, <1>2, <1>3
<1>7. /\ \E V : used' = [used EXCEPT ![a] = V]
      /\ \E J : info' = [info EXCEPT ![a] = J]
  BY <1>2, <1>3
<1> QED BY <1>4, <1>5, <1>6, <1>7

LEMMA TakeAt ==
  ASSUME RestOK, AllAgree, NEW a \in Agent, NEW s \in Session, agentOf[s] = a, TakeLogin(a, s),
         UNCHANGED <<byConnection, client>>, reused' = {}, NEW d \in Agent
  PROVE  KeptAt(d)
<1>1. CASE UNCHANGED <<used, info, byAccount>>
  BY <1>1, Unaffected DEF AllAgree
<1>2. ASSUME NEW old, old = {Found(a, s)} \ {NoBlock}, \A c \in old : info[a][c].connection = NoSession,
             NEW b \in Block, Alloc(a, b, old, [Zeroed EXCEPT !.session = s]),
             byAccount' = [byAccount EXCEPT ![a][AccountOf[s]] = b]
      PROVE  KeptAt(d)
  <2>t. byAccount \in [Agent -> [Account -> Block \cup {NoBlock}]]
    BY DEF RestOK, AgentOK, PoolOK
  <2>0. /\ b \in Block \ (used[a] \ old) /\ \A z \in Session : (agentOf[z] = a => byConnection[z] # b)
        /\ used'[a] = (used[a] \ old) \cup {b}
        /\ info'[a] = [c \in Block |-> IF c = b THEN [Zeroed EXCEPT !.session = s]
                                       ELSE IF c \in old THEN Zeroed ELSE info[a][c]]
        /\ \E V : used' = [used EXCEPT ![a] = V]
        /\ \E J : info' = [info EXCEPT ![a] = J]
    BY <1>2, Handed
  <2>1. /\ byAccount'[a] = [byAccount[a] EXCEPT ![AccountOf[s]] = b]
        /\ \E B : byAccount' = [byAccount EXCEPT ![a] = B]
    <3>1. byAccount' = [byAccount EXCEPT ![a] = [byAccount[a] EXCEPT ![AccountOf[s]] = b]]
      BY <1>2, <2>t
    <3> QED BY <2>t, <3>1
  <2>2. CASE d # a
    BY <2>0, <2>1, <2>2, Elsewhere
  <2>3. CASE d = a
    <3>1. AgreeTypes(used[a], info[a], byAccount[a], byConnection, client)
          /\ Agree(a, used[a], info[a], byAccount[a], byConnection, client)
      BY AgentTypes DEF AllAgree, Agrees
    <3>2. old = {byAccount[a][AccountOf[s]]} \ {NoBlock}
      BY <1>2 DEF Found
    <3>3. Agree(a, used'[a], info'[a], byAccount'[a], byConnection, client)
      <4>1. /\ info'[a][b] = [Zeroed EXCEPT !.session = s]
            /\ \A c \in Block : (c # b => info'[a][c] = IF c \in old THEN Zeroed ELSE info[a][c])
        BY <2>0
      <4>2. /\ byAccount'[a][AccountOf[s]] = b
            /\ \A y \in Account : (y # AccountOf[s] => byAccount'[a][y] = byAccount[a][y])
        BY <2>t, <2>1, LoginAssumption DEF LoginAssumption
      <4>3. [Zeroed EXCEPT !.session = s].session = s /\ [Zeroed EXCEPT !.session = s].connection = NoSession
        BY DEF Zeroed
      <4>4. Taken(a, s, b, old, used[a], info[a], byAccount[a], byConnection, used'[a], info'[a], byAccount'[a])
        BY <1>2, <2>0, <3>2, <4>1, <4>2, <4>3 DEF Taken
      <4> QED BY <3>1, <4>4, AgreeTake
    <3>4. \A z \in Session : agentOf[z] = a /\ byConnection[z] # NoBlock =>
            byConnection[z] \in used'[a] \/ byConnection[z] \notin used[a]
      <4>1. \A z \in Session : agentOf[z] = a /\ byConnection[z] \in old =>
              byConnection[z] \notin used[a] \/ z = NoSession
        BY <1>2, <3>1, LoginAssumption DEF Agree, LoginAssumption
      <4> QED BY <2>0, <4>1, LoginAssumption DEF LoginAssumption
    <3> QED BY <2>3, <3>3, <3>4 DEF KeptAt, Stale
  <2> QED BY <2>2, <2>3
<1> QED BY <1>1, <1>2 DEF TakeLogin

LEMMA AcceptAt ==
  ASSUME RestOK, AllAgree, NEW s \in Session, AgentAccept(s), reused' = {}, NEW d \in Agent
  PROVE  KeptAt(d)
<1>a. PICK a \in Agent : a = agentOf[s]
  BY DEF RestOK
<1>t. /\ client \in [Session -> {"away", "dist", "told", "agent", "playing", "gone"}]
      /\ byConnection \in [Session -> Block \cup {NoBlock}]
      /\ byAccount \in [Agent -> [Account -> Block \cup {NoBlock}]]
  BY DEF RestOK, AgentOK, PoolOK, ConnectionsOK
<1>0. client[s] = "told" /\ byAccount' = byAccount
  BY DEF AgentAccept
<1>1. CASE client' = [client EXCEPT ![s] = "gone"] /\ UNCHANGED <<used, info, byConnection>>
  <2>1. \A z \in Session : client'[z] = client[z] \/ (~AtHome(client[z]) /\ ~AtHome(client'[z]))
    BY <1>t, <1>0, <1>1 DEF AtHome
  <2> QED BY <1>0, <1>1, <2>1, Unaffected DEF AllAgree
<1>2. ASSUME NEW b \in Block, Alloc(a, b, {}, [Zeroed EXCEPT !.connection = s]),
             byConnection' = [byConnection EXCEPT ![s] = b], client' = [client EXCEPT ![s] = "agent"]
      PROVE  KeptAt(d)
  <2>0. /\ b \in Block \ used[a] /\ \A z \in Session : (agentOf[z] = a => byConnection[z] # b)
        /\ used'[a] = used[a] \cup {b}
        /\ info'[a] = [c \in Block |-> IF c = b THEN [Zeroed EXCEPT !.connection = s] ELSE info[a][c]]
        /\ \E V : used' = [used EXCEPT ![a] = V]
        /\ \E J : info' = [info EXCEPT ![a] = J]
    <3>1. /\ b \in Block \ (used[a] \ {}) /\ \A z \in Session : (agentOf[z] = a => byConnection[z] # b)
          /\ used'[a] = (used[a] \ {}) \cup {b}
          /\ info'[a] = [c \in Block |-> IF c = b THEN [Zeroed EXCEPT !.connection = s]
                                         ELSE IF c \in {} THEN Zeroed ELSE info[a][c]]
          /\ \E V : used' = [used EXCEPT ![a] = V]
          /\ \E J : info' = [info EXCEPT ![a] = J]
      BY <1>2, Handed
    <3> QED BY <3>1
  <2>1. \E B : byAccount' = [byAccount EXCEPT ![a] = B]
    <3>1. byAccount' = [byAccount EXCEPT ![a] = byAccount[a]]
      BY <1>t, <1>0
    <3> QED BY <3>1
  <2>2. CASE d # a
    <3>1. \A z \in Session : agentOf[z] # a => byConnection'[z] = byConnection[z] /\ client'[z] = client[z]
      BY <1>a, <1>t, <1>2
    <3> QED BY <2>0, <2>1, <2>2, <3>1, Elsewhere
  <2>3. CASE d = a
    <3>1. AgreeTypes(used[a], info[a], byAccount[a], byConnection, client)
          /\ Agree(a, used[a], info[a], byAccount[a], byConnection, client)
      BY AgentTypes DEF AllAgree, Agrees
    <3>2. ~AtHome(client[s])
      BY <1>0 DEF AtHome
    <3>3. Agree(a, used'[a], info'[a], byAccount[a], byConnection', client')
      <4>1. /\ info'[a][b] = [Zeroed EXCEPT !.connection = s]
            /\ \A c \in Block : (c # b => info'[a][c] = info[a][c])
        BY <2>0
      <4>2. /\ byConnection'[s] = b /\ client'[s] = "agent"
            /\ \A z \in Session : (z # s => byConnection'[z] = byConnection[z] /\ client'[z] = client[z])
        BY <1>t, <1>2
      <4> QED BY <1>a, <2>0, <3>1, <3>2, <4>1, <4>2, AgreeAccept
    <3>4. \A z \in Session : agentOf[z] = a /\ byConnection'[z] # NoBlock /\ byConnection'[z] \notin used'[a] =>
            byConnection'[z] = byConnection[z] /\ byConnection[z] \notin used[a]
      BY <1>t, <1>2, <2>0
    <3> QED BY <1>0, <2>3, <3>3, <3>4 DEF KeptAt, Stale
  <2> QED BY <2>2, <2>3
<1> QED BY <1>a, <1>1, <1>2 DEF AgentAccept

LEMMA AttachAt ==
  ASSUME RestOK, AllAgree, NEW s \in Session, NEW a \in Agent, a = agentOf[s], client[s] = "agent",
         Its(a, s), Attach(a, s, Found(a, s)), NEW d \in Agent
  PROVE  KeptAt(d)
<1>b. PICK b \in Block : b = Found(a, s) /\ b = byAccount[a][AccountOf[s]] /\ info[a][b].session = s
  BY Blocks DEF Its, Found
<1>t. /\ client \in [Session -> {"away", "dist", "told", "agent", "playing", "gone"}]
      /\ byConnection \in [Session -> Block \cup {NoBlock}]
      /\ byAccount \in [Agent -> [Account -> Block \cup {NoBlock}]]
      /\ used \in [Agent -> SUBSET Block] /\ info \in [Agent -> [Block -> UserInfo]]
  BY DEF RestOK, AgentOK, PoolOK, ConnectionsOK
<1>n. b # NoBlock
  BY LoginAssumption DEF LoginAssumption
<1>0. /\ byAccount' = byAccount
      /\ info' = [info EXCEPT ![a] = [info[a] EXCEPT ![b].connection = s]]
      /\ used' = [used EXCEPT ![a] = used[a] \ {byConnection[s]}]
      /\ byConnection' = [byConnection EXCEPT ![s] = b]
      /\ client' = [client EXCEPT ![s] = "playing"]
  BY <1>b, <1>t DEF Attach
<1>1. \E B : byAccount' = [byAccount EXCEPT ![a] = B]
  <2>1. byAccount' = [byAccount EXCEPT ![a] = byAccount[a]]
    BY <1>t, <1>0
  <2> QED BY <2>1
<1>2. CASE d # a
  <2>1. \A z \in Session : agentOf[z] # a => byConnection'[z] = byConnection[z] /\ client'[z] = client[z]
    BY <1>t, <1>0
  <2>2. (\E V : used' = [used EXCEPT ![a] = V]) /\ \E J : info' = [info EXCEPT ![a] = J]
    BY <1>0
  <2> QED BY <1>1, <1>2, <2>1, <2>2, Elsewhere
<1>3. CASE d = a
  <2>1. AgreeTypes(used[a], info[a], byAccount[a], byConnection, client)
        /\ Agree(a, used[a], info[a], byAccount[a], byConnection, client)
    BY AgentTypes DEF AllAgree, Agrees
  <2>2. used'[a] = used[a] \ {byConnection[s]} /\ info'[a] = [info[a] EXCEPT ![b].connection = s]
    BY <1>t, <1>0
  <2>3. Agree(a, used'[a], info'[a], byAccount[a], byConnection', client')
    <3>1. info'[a][b] = [info[a][b] EXCEPT !.connection = s] /\ info[a][b] \in UserInfo
          /\ \A c \in Block : (c # b => info'[a][c] = info[a][c])
      BY <1>t, <2>2
    <3>2. info'[a][b].session = s /\ info'[a][b].connection = s
      BY <1>b, <3>1 DEF UserInfo
    <3>3. /\ byConnection'[s] = b /\ client'[s] = "playing"
          /\ \A z \in Session : (z # s => byConnection'[z] = byConnection[z] /\ client'[z] = client[z])
      BY <1>t, <1>0
    <3>4. Attached(s, b, used[a], info[a], byAccount[a], byConnection, client, used'[a], info'[a], byConnection', client')
      BY <1>b, <1>n, <2>2, <3>1, <3>2, <3>3 DEF Attached
    <3> QED BY <2>1, <3>4, AgreeAttach
  <2>4. ASSUME NEW z \in Session, agentOf[z] = a, byConnection'[z] # NoBlock, byConnection'[z] \notin used'[a]
        PROVE  Stale(z)
    <3>1. byAccount[a][AccountOf[s]] \in used'[a]
      BY <1>b, <1>n, <2>3, LoginAssumption DEF Agree, LoginAssumption
    <3>2. z # s
      BY <1>b, <1>t, <1>0, <2>4, <3>1
    <3>3. byConnection'[z] = byConnection[z]
      BY <1>t, <1>0, <3>2
    <3>4. CASE byConnection[z] # byConnection[s]
      BY <2>2, <2>4, <3>3, <3>4 DEF Stale
    <3>5. CASE byConnection[z] = byConnection[s] /\ byConnection[z] \in used[a]
      <4>1. info[a][byConnection[z]].connection = z /\ info[a][byConnection[s]].connection = s
        BY <2>1, <2>4, <3>3, <3>5 DEF Agree
      <4> QED BY <3>2, <3>5, <4>1
    <3> QED BY <2>4, <3>3, <3>4, <3>5 DEF Stale
  <2> QED BY <1>0, <1>3, <2>3, <2>4 DEF KeptAt
<1> QED BY <1>2, <1>3

LEMMA CharacterAt ==
  ASSUME RestOK, AllAgree, NEW s \in Session, NEW a \in Agent, a = agentOf[s], NEW v \in BOOLEAN,
         client[s] = "playing", info' = [info EXCEPT ![a][byConnection[s]].character = v],
         UNCHANGED <<used, byAccount, byConnection, client>>, NEW d \in Agent
  PROVE  KeptAt(d)
<1>t. /\ byConnection \in [Session -> Block \cup {NoBlock}]
      /\ byAccount \in [Agent -> [Account -> Block \cup {NoBlock}]]
      /\ used \in [Agent -> SUBSET Block] /\ info \in [Agent -> [Block -> UserInfo]]
  BY DEF RestOK, AgentOK, PoolOK, ConnectionsOK
<1>g. AgreeTypes(used[a], info[a], byAccount[a], byConnection, client)
      /\ Agree(a, used[a], info[a], byAccount[a], byConnection, client)
  BY AgentTypes DEF AllAgree, Agrees
<1>b. PICK b \in Block : b = byConnection[s]
  BY <1>t, <1>g DEF Agree, AtHome
<1>0. info' = [info EXCEPT ![a] = [info[a] EXCEPT ![b].character = v]]
  BY <1>t, <1>b
<1>2. CASE d # a
  <2>1. info'[d] = info[d]
    BY <1>t, <1>0, <1>2
  <2> QED BY <2>1, Unaffected DEF AllAgree
<1>3. CASE d = a
  <2>1. info'[a] = [info[a] EXCEPT ![b].character = v]
    BY <1>t, <1>0
  <2>2. Agree(a, used[a], info'[a], byAccount[a], byConnection, client)
    BY <1>g, <1>b, <2>1, AgreeCharacter
  <2> QED BY <1>3, <2>2 DEF KeptAt, Stale
<1> QED BY <1>2, <1>3

\* A log-in that was broken off stays so, and nobody is sent to another agent.
LEMMA BrokenStays ==
  ASSUME RestOK, InOrder, Next, NEW z \in Session, link[z] = "broken"
  PROVE  link'[z] = "broken"
<1>1. \/ link' = link
      \/ \E s \in Session : \E v : link[s] # "broken" /\ link' = [link EXCEPT ![s] = v]
  <2>1. ASSUME NEW s \in Session, ClientStep(s)
        PROVE  \/ link' = link
               \/ \E v : link[s] # "broken" /\ link' = [link EXCEPT ![s] = v]
    <3>1. CASE Connect(s)
      <4>1. link[s] = "none"
        BY <3>1 DEF Connect, InOrder, Fine, Staged
      <4> QED BY <3>1, <4>1 DEF Connect
    <3>2. CASE LoginSyn(s) \/ LoginAck(s) \/ GiveUp(s) \/ AgentAccept(s) \/ CharacterList(s) \/ CharacterSelect(s)
               \/ BackToCharSel(s) \/ AgentDisconnect(s) \/ ConnectionCheck(s)
      BY <3>2 DEF LoginSyn, LoginAck, GiveUp, AgentAccept, CharacterList, CharacterSelect, BackToCharSel,
                  AgentDisconnect, ConnectionCheck, distVars
    <3>3. CASE ForceSyn(s) \/ DistOut(s) \/ Break(s)
      BY <3>3 DEF ForceSyn, DistOut, Break, DistDisconnect
    <3> QED BY <2>1, <3>1, <3>2, <3>3 DEF ClientStep
  <2>2. CASE DistStep
    <3>1. CASE HandleAnswer
      BY <3>1 DEF HandleAnswer
    <3>2. ASSUME NEW s \in Session, OnDisconnectUser(s) PROVE link[s] # "broken" /\ \E v : link' = [link EXCEPT ![s] = v]
      BY <3>2 DEF OnDisconnectUser
    <3>3. ASSUME NEW a \in Agent, NotifyAck(a) PROVE link' = link
      BY <3>3 DEF NotifyAck
    <3>4. ASSUME NEW a \in Agent, NotifyNack(a)
          PROVE  link' = link \/ \E s : /\ Known(s) /\ \E v : link' = [link EXCEPT ![s] = v]
      BY <3>4 DEF NotifyNack, DistDisconnect
    <3>5. \A s : Known(s) => link[s] # "broken"
      BY DEF Known
    <3>6. ASSUME NEW s, NEW v, s \notin Session, link' = [link EXCEPT ![s] = v] PROVE link' = link
      BY <3>6 DEF RestOK, DistOK
    <3> QED BY <2>2, <3>1, <3>2, <3>3, <3>4, <3>5, <3>6 DEF DistStep
  <2>3. CASE (\E x \in Account : TenSeconds(x)) \/ DatabaseStep \/ \E a \in Agent : AgentStep(a)
    BY <2>3 DEF TenSeconds, DatabaseStep, ExecuteQuery, ExecuteLogout, AgentStep, Start, NotifyLogin, AlreadyOut,
                DisconnectedOnLogin, ForceOut, LoginCheckDeleted, distVars
  <2> QED BY <2>1, <2>2, <2>3 DEF Next
<1> QED BY <1>1 DEF RestOK, DistOK

LEMMA SentOnce ==
  ASSUME Next
  PROVE  UNCHANGED agentOf /\ reused \subseteq reused'
<1>1. ASSUME NEW s \in Session, ClientStep(s) PROVE UNCHANGED agentOf /\ reused \subseteq reused'
  BY <1>1 DEF ClientStep, Connect, LoginSyn, ForceSyn, LoginAck, DistOut, Break, AgentAccept, Alloc, CharacterList,
              CharacterSelect, BackToCharSel, AgentDisconnect, ConnectionCheck, GiveUp, clientVars, agentVars
<1>2. CASE DistStep \/ DatabaseStep \/ \E x \in Account : TenSeconds(x)
  BY <1>2 DEF DistStep, HandleAnswer, OnDisconnectUser, NotifyAck, NotifyNack, DatabaseStep, ExecuteQuery,
              ExecuteLogout, TenSeconds, clientVars, agentVars
<1>3. ASSUME NEW a \in Agent, AgentStep(a) PROVE UNCHANGED agentOf /\ reused \subseteq reused'
  BY <1>3 DEF AgentStep, Start, NotifyLogin, RefuseLogin, TakeLogin, Alloc, AlreadyOut, DisconnectedOnLogin, ForceOut,
              LoginCheckDeleted, clientVars
<1> QED BY <1>1, <1>2, <1>3 DEF Next

\* The steps that leave the tables and the pools alone.
LEMMA QuietKept ==
  ASSUME RestOK, AllAgree, NEW d \in Agent,
         \/ \E s \in Session : \/ Connect(s) \/ LoginSyn(s) \/ ForceSyn(s) \/ LoginAck(s) \/ DistOut(s)
                               \/ Break(s) \/ GiveUp(s)
         \/ \E x \in Account : TenSeconds(x)
         \/ DistStep \/ DatabaseStep
         \/ \E a \in Agent : Start(a) \/ \E x \in Account : LoginCheckDeleted(a, x)
  PROVE  KeptAt(d)
<1>1. UNCHANGED <<used, info, byAccount, byConnection>>
  BY DEF Connect, LoginSyn, ForceSyn, LoginAck, DistOut, Break, GiveUp, TenSeconds, DistStep, HandleAnswer,
         OnDisconnectUser, NotifyAck, NotifyNack, DatabaseStep, ExecuteQuery, ExecuteLogout, Start,
         LoginCheckDeleted, agentVars
<1>2. \/ client' = client
      \/ \E s \in Session : \E v : ~AtHome(client[s]) /\ ~AtHome(v) /\ client' = [client EXCEPT ![s] = v]
      \/ \E s : client' = [client EXCEPT ![s] = IF @ = "dist" THEN "gone" ELSE @]
  BY DEF Connect, LoginSyn, ForceSyn, LoginAck, DistOut, Break, GiveUp, TenSeconds, DistStep, HandleAnswer,
         OnDisconnectUser, NotifyAck, NotifyNack, DistDisconnect, DatabaseStep, ExecuteQuery, ExecuteLogout, Start,
         LoginCheckDeleted, clientVars, AtHome
<1>3. \A s \in Session : client'[s] = client[s] \/ (~AtHome(client[s]) /\ ~AtHome(client'[s]))
  BY <1>2 DEF RestOK, ConnectionsOK, AtHome
<1> QED BY <1>1, <1>3, Unaffected DEF AllAgree

LEMMA ClientKept ==
  ASSUME RestOK, AllAgree, BrokenOff, NEW s \in Session, ClientStep(s), reused' = {}, NEW d \in Agent
  PROVE  KeptAt(d)
<1>a. PICK a \in Agent : a = agentOf[s]
  BY DEF RestOK
<1>g. Agree(a, used[a], info[a], byAccount[a], byConnection, client) /\ byConnection[s] \in Block \cup {NoBlock}
  BY DEF AllAgree, Agrees, RestOK, ConnectionsOK
<1>1. CASE Connect(s) \/ LoginSyn(s) \/ ForceSyn(s) \/ LoginAck(s) \/ DistOut(s) \/ Break(s) \/ GiveUp(s)
  BY <1>1, QuietKept
<1>2. CASE AgentAccept(s)
  BY <1>2, AcceptAt
<1>3. CASE CharacterList(s)
  <2>1. CASE Its(a, s)
    <3>1. client[s] = "agent" /\ Attach(a, s, Found(a, s))
      BY <1>a, <1>3, <2>1 DEF CharacterList
    <3> QED BY <1>a, <2>1, <3>1, AttachAt
  <2>2. CASE ~Its(a, s)
    <3>1. Leave(a, s)
      BY <1>a, <1>3, <2>2 DEF CharacterList
    <3> QED BY <1>a, <3>1, LeaveAt
  <2> QED BY <2>1, <2>2
<1>4. CASE CharacterSelect(s) \/ BackToCharSel(s)
  <2>1. /\ client[s] = "playing" /\ UNCHANGED <<used, byAccount, byConnection, client>>
        /\ \E v \in BOOLEAN : info' = [info EXCEPT ![a][byConnection[s]].character = v]
    BY <1>a, <1>4 DEF CharacterSelect, BackToCharSel, clientVars
  <2> QED BY <1>a, <2>1, CharacterAt
<1>5. CASE AgentDisconnect(s)
  BY <1>a, <1>5, LeaveAt DEF AgentDisconnect
<1>6. CASE ConnectionCheck(s)
  <2>1. byConnection[s] # NoBlock /\ info[a][byConnection[s]].connection = NoSession
        /\ info[a][byConnection[s]].session # NoSession
    BY <1>a, <1>6 DEF ConnectionCheck, Named
  <2>2. byConnection[s] \notin used[a] \/ info[a][byConnection[s]].connection = s
    BY <1>a, <1>g, <2>1 DEF Agree
  <2>3. byConnection[s] \notin used[a] => info[a][byConnection[s]].session = NoSession
    BY <1>g, <2>1 DEF Agree
  <2> QED BY <2>1, <2>2, <2>3, LoginAssumption DEF LoginAssumption
<1> QED BY <1>1, <1>2, <1>3, <1>4, <1>5, <1>6 DEF ClientStep

LEMMA AgentKept ==
  ASSUME QueuesOK, RestOK, InOrder, AllAgree, BrokenOff, NEW a \in Agent, AgentStep(a), reused' = {}, NEW d \in Agent
  PROVE  KeptAt(d)
<1>1. CASE Start(a) \/ \E x \in Account : LoginCheckDeleted(a, x)
  BY <1>1, QuietKept
<1>2. ASSUME toAgent[a] # <<>>, NEW s \in Session, s = Head(toAgent[a]).session,
             NotifyLogin(a) \/ AlreadyOut(a) \/ DisconnectedOnLogin(a) \/ ForceOut(a)
      PROVE  KeptAt(d)
  <2>x. AccountOf[s] \in Account /\ Found(a, s) = byAccount[a][AccountOf[s]]
    BY LoginAssumption DEF LoginAssumption, Found
  <2>0. CASE UNCHANGED <<used, info, byAccount, byConnection, client>>
    BY <2>0, Unaffected DEF AllAgree
  <2>1. CASE NotifyLogin(a)
    <3>1. RefuseLogin(a, s) \/ TakeLogin(a, s)
      BY <1>2, <2>1 DEF NotifyLogin
    <3>2. UNCHANGED <<byConnection, client>>
      BY <2>1 DEF NotifyLogin, clientVars
    <3>3. agentOf[s] = a
      <4>1. toAgent[a] \in Seq(ToAgentMsg) /\ Head(toAgent[a]).kind = "login"
        BY <2>1 DEF NotifyLogin, HeadIs, QueuesOK
      <4>2. Head(toAgent[a]) \in ToAgentMsg
        BY <1>2, <4>1, TailHas
      <4>3. Head(toAgent[a]) = Message("login", s)
        BY <1>2, <4>1, <4>2 DEF ToAgentMsg, Message
      <4>4. InLogin(a, s)
        BY <1>2, <4>1, <4>3, TailHas DEF InLogin
      <4> QED BY <4>4 DEF InOrder, Fine, OneNotice
    <3>4. CASE RefuseLogin(a, s)
      BY <2>0, <3>2, <3>4 DEF RefuseLogin
    <3>5. CASE TakeLogin(a, s)
      BY <3>2, <3>3, <3>5, TakeAt
    <3> QED BY <3>1, <3>4, <3>5
  <2>2. CASE AlreadyOut(a) \/ DisconnectedOnLogin(a)
    <3>1. UNCHANGED <<byConnection, client>>
      BY <2>2 DEF AlreadyOut, DisconnectedOnLogin, clientVars
    <3>2. link[s] = "broken"
      BY <1>2, <2>2, BrokenHead DEF AlreadyOut, DisconnectedOnLogin
    <3>3. CASE Its(a, s)
      <4>1. FreeInfo(a, AccountOf[s])
        BY <1>2, <2>2, <3>3 DEF AlreadyOut, DisconnectedOnLogin
      <4>2. byAccount[a][AccountOf[s]] # NoBlock /\ info[a][byAccount[a][AccountOf[s]]].session = s
        BY <3>3 DEF Its, Found
      <4> QED BY <2>x, <3>1, <3>2, <4>1, <4>2, FreeInfoAt
    <3>4. CASE ~Its(a, s)
      <4>1. UNCHANGED <<used, info, byAccount>>
        BY <1>2, <2>2, <3>4 DEF AlreadyOut, DisconnectedOnLogin
      <4> QED BY <2>0, <3>1, <4>1
    <3> QED BY <3>3, <3>4
  <2>3. CASE ForceOut(a)
    <3>1. PICK b \in Block \cup {NoBlock} : b = byAccount[a][AccountOf[s]]
      BY <2>x, Blocks
    <3>2. CASE b = NoBlock
      <4>1. UNCHANGED <<client, used, info, byAccount, byConnection>>
        BY <1>2, <2>x, <2>3, <3>1, <3>2 DEF ForceOut
      <4> QED BY <2>0, <4>1
    <3>3. CASE b # NoBlock /\ info[a][b].connection # NoSession
      <4>1. Leave(a, info[a][b].connection)
        BY <1>2, <2>x, <2>3, <3>1, <3>3 DEF ForceOut
      <4>2. info[a][b].connection \in Session
        BY <3>3, Blocks
      <4>3. agentOf[info[a][b].connection] = a
        BY <2>x, <3>1, <3>3 DEF AllAgree, Agrees, Agree
      <4> QED BY <4>1, <4>2, <4>3, LeaveAt
    <3>4. CASE b # NoBlock /\ info[a][b].connection = NoSession
      <4>1. FreeInfo(a, AccountOf[s]) /\ UNCHANGED <<client, byConnection>>
        BY <1>2, <2>x, <2>3, <3>1, <3>4 DEF ForceOut
      <4> QED BY <2>x, <3>1, <3>4, <4>1, FreeInfoAt
    <3> QED BY <3>2, <3>3, <3>4
  <2> QED BY <1>2, <2>1, <2>2, <2>3
<1> QED BY <1>1, <1>2, HeadSessions DEF AgentStep, NotifyLogin, AlreadyOut, DisconnectedOnLogin, ForceOut, HeadIs

LEMMA OwnersKept ==
  ASSUME QueuesOK, RestOK, InOrder, AllAgree, BrokenOff, Next, reused' = {}, NEW d \in Agent
  PROVE  KeptAt(d)
BY QuietKept, ClientKept, AgentKept DEF Next

\* The first block that g_pUserTable still names when it is handed out again was
\* freed under a connection whose log-in had been broken off.
LEMMA FirstReuse ==
  ASSUME RestOK, AllAgree, BrokenOff, Next, reused = {}, reused' # {}
  PROVE  \E z \in Session : z \in reused' /\ link[z] = "broken"
<1>1. ASSUME NEW a \in Agent, NEW b, NEW freed, NEW u, Alloc(a, b, freed, u),
             \A c \in freed : info[a][c].connection = NoSession
      PROVE  \E z \in Session : z \in reused' /\ link[z] = "broken"
  <2>1. reused' = Naming(a, b) /\ b \in Block /\ (b \notin used[a] \/ b \in freed)
    BY <1>1 DEF Alloc
  <2>2. PICK z \in Session : z \in reused' /\ agentOf[z] = a /\ byConnection[z] = b
    BY <2>1 DEF Naming
  <2>3. b # NoBlock /\ z # NoSession
    BY <2>1, LoginAssumption DEF LoginAssumption
  <2>4. b \notin used[a]
    <3>1. b \in used[a] => info[a][b].connection = z
      BY <2>2, <2>3 DEF AllAgree, Agrees, Agree
    <3> QED BY <1>1, <2>1, <2>3, <3>1
  <2> QED BY <2>2, <2>3, <2>4 DEF BrokenOff, Stale
<1>2. ASSUME NEW s \in Session, ClientStep(s) PROVE \E z \in Session : z \in reused' /\ link[z] = "broken"
  <2>1. AgentAccept(s)
    BY <1>2 DEF ClientStep, Connect, LoginSyn, ForceSyn, LoginAck, DistOut, Break, CharacterList,
                CharacterSelect, BackToCharSel, AgentDisconnect, ConnectionCheck, GiveUp, agentVars
  <2>2. \E b : Alloc(agentOf[s], b, {}, [Zeroed EXCEPT !.connection = s])
    BY <2>1 DEF AgentAccept
  <2>3. agentOf[s] \in Agent
    BY DEF RestOK
  <2> QED BY <1>1, <2>2, <2>3
<1>3. ASSUME NEW a \in Agent, AgentStep(a) PROVE \E z \in Session : z \in reused' /\ link[z] = "broken"
  <2>1. NotifyLogin(a)
    BY <1>3 DEF AgentStep, Start, AlreadyOut, DisconnectedOnLogin, ForceOut, LoginCheckDeleted
  <2>2. \E s : TakeLogin(a, s)
    BY <2>1 DEF NotifyLogin, RefuseLogin
  <2>3. \E b, old, u : Alloc(a, b, old, u) /\ \A c \in old : info[a][c].connection = NoSession
    BY <2>2 DEF TakeLogin
  <2> QED BY <1>1, <2>3
<1> QED BY <1>2, <1>3 DEF Next, DistStep, HandleAnswer, OnDisconnectUser, NotifyAck, NotifyNack, DatabaseStep,
                          ExecuteQuery, ExecuteLogout, TenSeconds, agentVars

(***************************************************************************)
(* The invariant.                                                          *)
(***************************************************************************)

Own == (reused = {} => AllAgree) /\ FreedByItsOwn

LEMMA OwnInductive ==
  ASSUME QueuesOK, RestOK, InOrder, Own, Next
  PROVE  Own'
<1>0. UNCHANGED agentOf /\ reused \subseteq reused'
  BY SentOnce
<1>l. \A z \in Session : link[z] = "broken" => link'[z] = "broken"
  BY BrokenStays
<1>r. reused \subseteq Session
  BY DEF RestOK, AgentOK
<1>1. CASE reused' = {}
  <2>1. reused = {} /\ AllAgree /\ BrokenOff
    BY <1>0, <1>1 DEF Own, FreedByItsOwn, BrokenOff
  <2>2. \A d \in Agent : KeptAt(d)
    BY <1>1, <2>1, OwnersKept
  <2>3. AllAgree'
    <3> SUFFICES ASSUME NEW d \in Agent PROVE Agrees(d)'
      BY DEF AllAgree
    <3>1. Agree(d, used'[d], info'[d], byAccount'[d], byConnection', client')
      BY <2>2 DEF KeptAt
    <3> QED BY <1>0, <3>1 DEF Agrees, Agree
  <2>4. FreedByItsOwn'
    <3> SUFFICES ASSUME NEW s \in Session, Stale(s)' PROVE link'[s] = "broken"
      BY <1>1 DEF FreedByItsOwn
    <3>1. agentOf[s] \in Agent /\ byConnection'[s] # NoBlock /\ byConnection'[s] \notin used'[agentOf[s]]
      BY <1>0 DEF Stale, RestOK
    <3>2. Stale(s) \/ link[s] = "broken"
      BY <2>2, <3>1 DEF KeptAt
    <3> QED BY <1>l, <2>1, <3>2 DEF BrokenOff
  <2> QED BY <2>3, <2>4 DEF Own
<1>2. CASE reused' # {}
  <2>1. \E z \in reused' : z \in Session /\ link[z] = "broken"
    <3>1. CASE reused = {}
      <4>1. AllAgree /\ BrokenOff
        BY <3>1 DEF Own, FreedByItsOwn, BrokenOff
      <4> QED BY <1>2, <3>1, <4>1, FirstReuse
    <3>2. CASE reused # {}
      BY <1>0, <1>r, <3>2 DEF Own, FreedByItsOwn
    <3> QED BY <3>1, <3>2
  <2> QED BY <1>2, <1>l, <2>1 DEF Own, FreedByItsOwn
<1> QED BY <1>1, <1>2

LEMMA OwnAlways == SafeSpec => [](IInv /\ Own)
<1>1. Init => Own
  <2> SUFFICES ASSUME Init PROVE Own
    OBVIOUS
  <2>1. \A s \in Session : client[s] = "away" /\ byConnection[s] = NoBlock
    BY DEF Init
  <2>2. ASSUME NEW a \in Agent PROVE Agrees(a)
    <3>1. used[a] = {} /\ info[a] = [b \in Block |-> Zeroed] /\ byAccount[a] = [x \in Account |-> NoBlock]
      BY DEF Init
    <3> QED BY <2>1, <3>1 DEF Agrees, Agree, AtHome, Zeroed
  <2>3. FreedByItsOwn
    BY <2>1 DEF FreedByItsOwn, Stale, Init
  <2> QED BY <2>2, <2>3 DEF Own, AllAgree
<1>2. IInv /\ Own /\ [Next]_vars => Own'
  <2> SUFFICES ASSUME IInv, Own, [Next]_vars PROVE Own'
    OBVIOUS
  <2>1. QueuesOK /\ RestOK /\ InOrder
    BY Types DEF IInv
  <2>2. CASE UNCHANGED vars
    BY <2>2 DEF vars, Own, AllAgree, Agrees, Agree, FreedByItsOwn, Stale
  <2> QED BY <2>1, <2>2, OwnInductive
<1> QED BY <1>1, <1>2, AttemptsStayInOrder, PTL DEF SafeSpec

\* OwnersSound: the tables of every agent and its pool of USERINFOs agree, as long as
\* no block that g_pUserTable still named has been handed out again.
THEOREM OwnersStaySound == SafeSpec => []OwnersSound
<1>1. IInv /\ Own => OwnersSound
  <2> SUFFICES ASSUME IInv, Own, reused = {}, AllAgree
               PROVE  TablesAgree /\ \A a \in Agent : \A b \in Block \ used[a] : info[a][b].session = NoSession
    BY DEF IInv, Own, OwnersSound
  <2>1. RestOK
    BY Types DEF IInv
  <2>2. \A a \in Agent : Agree(a, used[a], info[a], byAccount[a], byConnection, client)
    BY DEF AllAgree, Agrees
  <2>3. \A s \in Session : byConnection[s] # NoBlock => Stale(s) \/ Named(s).connection = s
    <3> SUFFICES ASSUME NEW s \in Session, byConnection[s] # NoBlock PROVE Stale(s) \/ Named(s).connection = s
      OBVIOUS
    <3>1. agentOf[s] \in Agent
      BY <2>1 DEF RestOK
    <3> QED BY <2>2, <3>1 DEF Agree, Stale, Named
  <2>4. \A a \in Agent : \A x \in Account : byAccount[a][x] # NoBlock =>
          LET u == info[a][byAccount[a][x]] IN
          /\ byAccount[a][x] \in used[a]
          /\ u.session # NoSession /\ AccountOf[u.session] = x /\ agentOf[u.session] = a
    BY <2>2 DEF Agree
  <2>5. \A a \in Agent : \A b \in used[a] :
          LET u == info[a][b] IN
          /\ u.session # NoSession => byAccount[a][AccountOf[u.session]] = b
          /\ u.connection # NoSession => byConnection[u.connection] = b /\ agentOf[u.connection] = a
          /\ u.session # u.connection => u.session = NoSession \/ u.connection = NoSession
          /\ u # Zeroed
    BY <2>2 DEF Agree
  <2>6. \A a \in Agent : \A b \in Block \ used[a] : info[a][b].session = NoSession
    BY <2>2 DEF Agree
  <2> QED BY <2>3, <2>4, <2>5, <2>6 DEF TablesAgree
<1> QED BY <1>1, OwnAlways, PTL

\* FreedByItsOwn: under the connection that has it a USERINFO is freed only through a
\* log-in that was broken off, whatever other log-ins are refused or given up.
THEOREM FreedOnlyByItsOwn == SafeSpec => []FreedByItsOwn
<1>1. IInv /\ Own => FreedByItsOwn
  BY DEF Own
<1> QED BY <1>1, OwnAlways, PTL

=============================================================================
