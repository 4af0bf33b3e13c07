------------------------------ MODULE Arrival ------------------------------
(***************************************************************************)
(* How one character comes to a map, changes the map and leaves: its       *)
(* client, the agent, the map servers and the queries of the map servers   *)
(* that load and save the character.                                       *)
(*                                                                         *)
(* The game code of a server runs in one thread, so a handler is one       *)
(* action.  Messages between the agent and a map server keep their order,  *)
(* and so do the queries of one map server that concern one character:     *)
(* the character's number chooses the connection to the database           *)
(* (CDataBase::GetCurDB).  Queries of different servers are not ordered.   *)
(* The client acts on an agent's message when the agent sends it, and its  *)
(* own messages are handled when they are sent; what it does next is an    *)
(* action of its own that may come at any time.  The servers stay up, and  *)
(* the character is not deleted.                                           *)
(*                                                                         *)
(* The log-in before it is the subject of Login: here the account is       *)
(* online or not, a session begins when it is not, and the agent's         *)
(* UP_GAMELOGOUT is carried out at once.  The dozen queries of a loading   *)
(* player are two: the one that tells whose character it is and the rest.  *)
(*                                                                         *)
(* An operator whose comment begins with "Faulty" is a variant of the one  *)
(* after it that no action uses.                                           *)
(***************************************************************************)
EXTENDS Integers, Sequences, FiniteSets, SequencesExt

CONSTANTS Map,        \* the map servers
          NoMap,      \* dwMapServerConnectionIndex = 0
          NoPlayer,   \* no CPlayer of the character
          MaxSession, \* a bound: the sessions of the character's owner
          MaxQueue    \* a bound: messages to a map when the client asks for more

ASSUME ArrivalAssumption ==
  /\ NoMap \notin Map
  /\ MaxSession \in Nat /\ MaxQueue \in Nat

VARIABLES
  online,   \* the account is logged in, for the database
  hurried,  \* a session has begun before the one before it had left everywhere
  session,  \* dwUniqueConnectIdx of the USERINFO with a connection, 0 without one
  started,  \* how many sessions there have been
  at,       \* dwMapServerConnectionIndex; the character is selected when there is one
  list,     \* SelectInfoArray's MapNum
  listing,  \* UserIDXSendAndCharacterBaseInfo under way
  client,   \* the state of the client's game
  backup,   \* a CHANGEMAP_ACK that came before the hero was there
  toMap, toAgent,  \* messages between the agent and the map servers
  player,   \* the character on a map: g_pUserTable->FindUser
  query, answer,   \* the queries of the map servers for the character
  dbMap     \* the character's map in the database

agentVars  == <<online, hurried, session, started, at, list, listing>>
clientVars == <<client, backup>>
msgVars    == <<toMap, toAgent>>
dbVars     == <<query, answer, dbMap>>
vars == <<online, hurried, session, started, at, list, listing, client, backup,
          toMap, toAgent, player, query, answer, dbMap>>

(* Messages to a map, messages to the agent, queries and their answers. *)
Msg(k) == [kind |-> k]
MsgOf(k, s) == [kind |-> k, key |-> s]
MsgTo(k, m) == [kind |-> k, map |-> m]
Out(k, known) == [kind |-> k, known |-> known]
Save(m, data) == [kind |-> "save", map |-> m, data |-> data]

Init ==
  /\ online = FALSE /\ hurried = FALSE /\ session = 0 /\ started = 0
  /\ at = NoMap /\ list = NoMap /\ listing = FALSE
  /\ client = "away" /\ backup = FALSE
  /\ toMap = [m \in Map |-> <<>>] /\ toAgent = [m \in Map |-> <<>>]
  /\ player = [m \in Map |-> NoPlayer]
  /\ query = [m \in Map |-> <<>>] /\ answer = [m \in Map |-> <<>>]
  /\ dbMap \in Map

SendMap(m, x) == toMap' = [toMap EXCEPT ![m] = Append(@, x)]
Sent(m, k) == \E x \in ToSet(toMap[m]) : x.kind = k
Pending(m, k) == \E x \in ToSet(query[m]) \cup ToSet(answer[m]) : x.kind = k

(***************************************************************************)
(* The client, and the agent's handlers of its messages                    *)
(***************************************************************************)

(* The last session's character has left: it is on no map, and nothing is on its
   way that the agent or a map server would take for the next session's. *)
Settled ==
  \A m \in Map : /\ player[m] = NoPlayer /\ toAgent[m] = <<>>
                 /\ \A k \in {"gameinSyn", "changeMap", "back"} : ~Sent(m, k)
                 /\ \A k \in {"point", "back"} : ~Pending(m, k)

(* UserConn_Characterlist_Syn of a new session *)
Attach ==
  /\ session = 0 /\ ~online /\ started < MaxSession
  /\ online' = TRUE /\ hurried' = (hurried \/ ~Settled)
  /\ started' = started + 1 /\ session' = started'
  /\ listing' = TRUE
  /\ client' = "list"
  /\ UNCHANGED <<at, list, backup, msgVars, player, dbVars>>

(* RUserIDXSendAndCharacterBaseInfo *)
ListRead ==
  /\ listing
  /\ listing' = FALSE /\ list' = dbMap
  /\ client' = IF client = "leaving" THEN "list" ELSE client
  /\ UNCHANGED <<online, hurried, session, started, at, backup, msgVars, player, dbVars>>

Room == \A m \in Map : Len(toMap[m]) < MaxQueue

(* UserConn_CharacterSelect_Syn *)
CharacterSelect ==
  /\ client = "list" /\ ~listing /\ list # NoMap /\ at = NoMap /\ Room
  /\ at' = list
  /\ client' = "mapChange"
  /\ UNCHANGED <<online, hurried, session, started, list, listing, backup, msgVars, player, dbVars>>

(* CGameIn::Init and UserConn_Gamein_Syn *)
GameinSyn ==
  /\ client = "mapChange"
  /\ client' = "gameIn" /\ backup' = FALSE
  /\ IF at # NoMap THEN SendMap(at, MsgOf("gameinSyn", session)) ELSE UNCHANGED toMap
  /\ UNCHANGED <<agentVars, toAgent, player, dbVars>>

(* UserConn_ChangeMap_Syn of the agent.  A map that it does not know, that has no
   server or that an event has closed is refused at once: the CHANGEMAP_NACK finds
   the client before it has done anything else. *)
ChangeMapSyn(target) ==
  /\ client = "hero" /\ at # NoMap
  /\ \/ target # at /\ Room
        /\ SendMap(at, MsgTo("changeMap", target))
        /\ client' = "moving"
     \/ UNCHANGED <<toMap, client>>
  /\ UNCHANGED <<agentVars, backup, toAgent, player, dbVars>>

(* UserConn_BackToCharSel_Syn of the agent *)
BackToCharSelSyn ==
  /\ client = "hero" /\ at # NoMap
  /\ SendMap(at, Msg("back"))
  /\ client' = "leaving"
  /\ UNCHANGED <<agentVars, backup, toAgent, player, dbVars>>

(* CUserTable::OnDisconnectUser of the agent *)
OnDisconnectUser ==
  /\ session' = 0 /\ at' = NoMap /\ list' = NoMap /\ listing' = FALSE
  /\ client' = "away" /\ backup' = FALSE
  /\ IF at # NoMap
     THEN SendMap(at, Msg("disconnected")) /\ UNCHANGED online
     ELSE online' = FALSE /\ UNCHANGED toMap

(* The client goes, the network breaks, somebody forces the session out. *)
Disconnect ==
  /\ session # 0
  /\ OnDisconnectUser
  /\ UNCHANGED <<hurried, started, toAgent, player, dbVars>>

(* The distribution server logs the account out for a user who insists. *)
InsistedLogout ==
  /\ online /\ session = 0
  /\ online' = FALSE
  /\ UNCHANGED <<hurried, session, started, at, list, listing, clientVars, msgVars, player, dbVars>>

(***************************************************************************)
(* The agent's handlers of the map servers' messages                       *)
(***************************************************************************)

FromMap(m, k) == toAgent[m] # <<>> /\ Head(toAgent[m]).kind = k
Received(m) == toAgent' = [toAgent EXCEPT ![m] = Tail(@)]

(* UserConn_Gamein_Nack *)
GameinNack(m) ==
  /\ FromMap(m, "gameinNack") /\ Received(m)
  /\ IF at # NoMap THEN OnDisconnectUser
     ELSE UNCHANGED <<online, session, at, list, listing, client, backup, toMap>>
  /\ UNCHANGED <<hurried, started, player, dbVars>>

(* UserConn_Gamein_Ack: the client has its hero, or the player is refused.
   A CHANGEMAP_ACK that waited for the hero is handled now. *)
GameinAck(m) ==
  /\ FromMap(m, "gameinAck") /\ Received(m)
  /\ IF at # NoMap /\ Head(toAgent[m]).key = session
     THEN /\ list' = at
          /\ client' = CASE client = "gameIn" /\ ~backup -> "hero"
                         [] client = "gameIn" /\ backup -> "mapChange"
                         [] OTHER -> client
          /\ toMap' = [n \in Map |-> IF n = m THEN toMap[n]
                                     ELSE Append(toMap[n], Msg("otherMap"))]
     ELSE /\ SendMap(m, Msg("gameinNack"))
          /\ UNCHANGED <<list, client>>
  /\ UNCHANGED <<online, hurried, session, started, at, listing, backup, player, dbVars>>

(* UserConn_Map_Out, and CHANGEMAP_ACK at the client: it is ignored while a map
   is being read and kept while the hero is not there.  The new map has a server,
   as it had when ChangeMapSyn asked for it: no map server goes down here. *)
MapOut(m) ==
  /\ FromMap(m, "mapOut") /\ Received(m)
  /\ IF at # NoMap
     THEN /\ at' = Head(toAgent[m]).map
          /\ client' = IF client \in {"hero", "moving", "leaving"} THEN "mapChange" ELSE client
          /\ backup' = (backup \/ client = "gameIn")
     ELSE UNCHANGED <<at, client, backup>>
  /\ UNCHANGED <<online, hurried, session, started, list, listing, toMap, player, dbVars>>

(* CHANGEMAP_NACK on its way to the client *)
ChangeMapNack(m) ==
  /\ FromMap(m, "changeMapNack") /\ Received(m)
  /\ client' = IF at # NoMap /\ client = "moving" THEN "hero" ELSE client
  /\ UNCHANGED <<agentVars, backup, toMap, player, dbVars>>

(* UserConn_BackToCharSel_Ack *)
BackToCharSelAck(m) ==
  /\ FromMap(m, "backAck") /\ Received(m)
  /\ IF at # NoMap THEN at' = NoMap /\ listing' = TRUE ELSE UNCHANGED <<at, listing>>
  /\ UNCHANGED <<online, hurried, session, started, list, clientVars, toMap, player, dbVars>>

(* UserConn_LoginCheck_Delete: "if( pmsg->dwObjectID )" *)
LoginCheckDelete(m) ==
  /\ FromMap(m, "loginCheckDelete") /\ Received(m)
  /\ online' = IF session = 0 /\ Head(toAgent[m]).known THEN FALSE ELSE online
  /\ UNCHANGED <<hurried, session, started, at, list, listing, clientVars, toMap, player, dbVars>>

(***************************************************************************)
(* The map servers                                                         *)
(***************************************************************************)

HeadOf(m, k) == toMap[m] # <<>> /\ Head(toMap[m]).kind = k
Taken(m) == toMap' = [toMap EXCEPT ![m] = Tail(@)]
SendAgent(m, x) == toAgent' = [toAgent EXCEPT ![m] = Append(@, x)]
Present(m) == player[m] # NoPlayer
Inited(m) == Present(m) /\ player[m].info /\ player[m].rest

(* RemovePlayer: the saves of the character, which say where it will be found,
   and the data when it had been loaded *)
RemovePlayer(m, target, before, after) ==
  /\ player' = [player EXCEPT ![m] = NoPlayer]
  /\ query' = [query EXCEPT ![m] = @ \o before \o <<Save(target, Inited(m))>> \o after]

(* UserConn_GameIn_Syn *)
GameInSyn(m) ==
  /\ HeadOf(m, "gameinSyn") /\ Taken(m)
  /\ IF Present(m)
     THEN SendAgent(m, Msg("gameinNack")) /\ UNCHANGED <<player, query>>
     ELSE /\ player' = [player EXCEPT ![m] = [key |-> Head(toMap[m]).key, info |-> FALSE, rest |-> FALSE]]
          /\ query' = [query EXCEPT ![m] = @ \o <<Msg("info"), Msg("rest")>>]
          /\ UNCHANGED toAgent
  /\ UNCHANGED <<agentVars, clientVars, answer, dbMap>>

(* UserConn_GameIn_Nack and UserConn_GameIn_OtherMap_Syn *)
Removed(m) ==
  /\ HeadOf(m, "gameinNack") \/ HeadOf(m, "otherMap")
  /\ Taken(m)
  /\ IF Present(m) THEN RemovePlayer(m, m, <<>>, <<>>) ELSE UNCHANGED <<player, query>>
  /\ UNCHANGED <<agentVars, clientVars, toAgent, answer, dbMap>>

(* Faulty: a player that is still loading is left alone, as UserConn_ChangeMap_Syn
   does. *)
DisconnectedInited(m) ==
  /\ HeadOf(m, "disconnected") /\ Taken(m)
  /\ IF Inited(m)
     THEN /\ RemovePlayer(m, m, <<>>, <<Out("out", TRUE)>>)
          /\ UNCHANGED toAgent
     ELSE /\ SendAgent(m, Out("loginCheckDelete", TRUE))
          /\ UNCHANGED <<player, query>>
  /\ UNCHANGED <<agentVars, clientVars, answer, dbMap>>

(* UserConn_Disconnected with ConfirmUserOut(.., 2) *)
Disconnected(m) ==
  /\ HeadOf(m, "disconnected") /\ Taken(m)
  /\ IF Present(m)
     THEN /\ RemovePlayer(m, m, <<>>, <<Out("out", player[m].info)>>)
          /\ UNCHANGED toAgent
     ELSE /\ SendAgent(m, Out("loginCheckDelete", TRUE))
          /\ UNCHANGED <<player, query>>
  /\ UNCHANGED <<agentVars, clientVars, answer, dbMap>>

(* Faulty: UserConn_ChangeMap_Syn sends MAP_OUT without waiting for its query. *)
ChangeMapAtOnce(m) ==
  /\ HeadOf(m, "changeMap") /\ Taken(m)
  /\ IF Inited(m)
     THEN /\ RemovePlayer(m, Head(toMap[m]).map, <<>>, <<>>)
          /\ SendAgent(m, MsgTo("mapOut", Head(toMap[m]).map))
     ELSE UNCHANGED <<player, query, toAgent>>
  /\ UNCHANGED <<agentVars, clientVars, answer, dbMap>>

(* UserConn_ChangeMap_Syn of the map: refused (looting, PK mode, death; a map for
   another race, with DEVILMARKET_CHANGEMAP_NACK, which the client takes just the
   same), or the player goes and SaveMapChangePointReturn is asked.  That there is
   such a change of map has been seen to before the call. *)
ChangeMap(m) ==
  /\ HeadOf(m, "changeMap") /\ Taken(m)
  /\ LET target == Head(toMap[m]).map IN
     \/ ~Inited(m) /\ UNCHANGED <<player, query, toAgent>>
     \/ Inited(m) /\ SendAgent(m, Msg("changeMapNack")) /\ UNCHANGED <<player, query>>
     \/ Inited(m) /\ RemovePlayer(m, target, <<>>, <<MsgTo("point", target)>>) /\ UNCHANGED toAgent
  /\ UNCHANGED <<agentVars, clientVars, answer, dbMap>>

(* Faulty: the player is removed without asking for its confirmation. *)
BackToCharSelQuietly(m) ==
  /\ HeadOf(m, "back") /\ Taken(m)
  /\ IF Present(m) THEN RemovePlayer(m, m, <<>>, <<>>) ELSE UNCHANGED <<player, query>>
  /\ UNCHANGED <<agentVars, clientVars, toAgent, answer, dbMap>>

(* UserConn_BackToCharSel_Syn of the map: ConfirmUserOut(.., 1) before the saves *)
BackToCharSel(m) ==
  /\ HeadOf(m, "back") /\ Taken(m)
  /\ IF Present(m) THEN RemovePlayer(m, m, <<Msg("back")>>, <<>>) ELSE UNCHANGED <<player, query>>
  /\ UNCHANGED <<agentVars, clientVars, toAgent, answer, dbMap>>

(* The database carries out the next query of a map server; a save has no answer. *)
Execute(m) ==
  /\ query[m] # <<>>
  /\ query' = [query EXCEPT ![m] = Tail(@)]
  /\ IF Head(query[m]).kind = "save"
     THEN dbMap' = Head(query[m]).map /\ UNCHANGED answer
     ELSE answer' = [answer EXCEPT ![m] = Append(@, Head(query[m]))] /\ UNCHANGED dbMap
  /\ UNCHANGED <<agentVars, clientVars, msgVars, player>>

(* Faulty: GAMEIN_ACK goes with the answer that tells whose character it is. *)
LoadAnswerOfInfo(m) ==
  LET kind == Head(answer[m]).kind
      now == [player[m] EXCEPT !.info = @ \/ kind = "info", !.rest = @ \/ kind = "rest"] IN
  IF Present(m)
  THEN /\ player' = [player EXCEPT ![m] = now]
       /\ IF kind = "info" /\ now.rest
          THEN SendAgent(m, MsgOf("gameinAck", now.key)) ELSE UNCHANGED toAgent
  ELSE UNCHANGED <<player, toAgent>>

(* RCharacterNumSendAndCharacterInfo and the others with SetInitState: with the
   last of them GAMEIN_ACK goes to the agent.  The player is found by the
   character alone.  There is a row: nobody deletes the character here. *)
LoadAnswer(m) ==
  LET kind == Head(answer[m]).kind
      now == [player[m] EXCEPT !.info = @ \/ kind = "info", !.rest = @ \/ kind = "rest"] IN
  IF Present(m)
  THEN /\ player' = [player EXCEPT ![m] = now]
       /\ IF now.info /\ now.rest
          THEN SendAgent(m, MsgOf("gameinAck", now.key)) ELSE UNCHANGED toAgent
  ELSE UNCHANGED <<player, toAgent>>

(* Faulty: every answer is for a player who is there. *)
HandleAnswerOfPresent(m) ==
  /\ answer[m] # <<>>
  /\ answer' = [answer EXCEPT ![m] = Tail(@)]
  /\ LET x == Head(answer[m]) IN
     \/ x.kind \in {"info", "rest"} /\ LoadAnswer(m)
     \/ x.kind = "point" /\ SendAgent(m, MsgTo("mapOut", x.map)) /\ UNCHANGED player
     \/ x.kind = "back" /\ SendAgent(m, Msg("backAck")) /\ UNCHANGED player
     \/ x.kind = "out" /\ Present(m) /\ SendAgent(m, Out("loginCheckDelete", x.known)) /\ UNCHANGED player
     \/ x.kind = "out" /\ ~Present(m) /\ UNCHANGED <<player, toAgent>>
  /\ UNCHANGED <<agentVars, clientVars, toMap, query, dbMap>>

(* RSaveMapChangePointReturn, RConfirmUserOut and the answers to the loads *)
HandleAnswer(m) ==
  /\ answer[m] # <<>>
  /\ answer' = [answer EXCEPT ![m] = Tail(@)]
  /\ LET x == Head(answer[m]) IN
     \/ x.kind \in {"info", "rest"} /\ LoadAnswer(m)
     \/ x.kind = "point" /\ SendAgent(m, MsgTo("mapOut", x.map)) /\ UNCHANGED player
     \/ x.kind = "back" /\ SendAgent(m, Msg("backAck")) /\ UNCHANGED player
     \/ x.kind = "out" /\ SendAgent(m, Out("loginCheckDelete", x.known)) /\ UNCHANGED player
  /\ UNCHANGED <<agentVars, clientVars, toMap, query, dbMap>>

(***************************************************************************)
(* Specification                                                           *)
(***************************************************************************)

ClientStep == \/ Attach \/ CharacterSelect \/ GameinSyn \/ BackToCharSelSyn \/ Disconnect
              \/ \E target \in Map : ChangeMapSyn(target)

AgentStep(m) == \/ GameinNack(m) \/ GameinAck(m) \/ MapOut(m) \/ ChangeMapNack(m)
                \/ BackToCharSelAck(m) \/ LoginCheckDelete(m)

MapStep(m) == \/ GameInSyn(m) \/ Removed(m) \/ Disconnected(m) \/ ChangeMap(m) \/ BackToCharSel(m)

Next == \/ ClientStep \/ ListRead \/ InsistedLogout
        \/ \E m \in Map : AgentStep(m) \/ MapStep(m) \/ Execute(m) \/ HandleAnswer(m)

SafeSpec == Init /\ [][Next]_vars

(* The servers and the database go on with what they have to do. *)
Fairness == /\ WF_vars(ListRead)
            /\ \A m \in Map : /\ WF_vars(AgentStep(m)) /\ WF_vars(MapStep(m))
                              /\ WF_vars(Execute(m)) /\ WF_vars(HandleAnswer(m))

Spec == SafeSpec /\ Fairness

(***************************************************************************)
(* Properties                                                              *)
(***************************************************************************)

(* Every variable keeps to its type. *)
TypeOK ==
  LET Key == 0..MaxSession IN
  /\ online \in BOOLEAN /\ hurried \in BOOLEAN /\ session \in Key /\ started \in Key
  /\ at \in Map \cup {NoMap} /\ list \in Map \cup {NoMap} /\ listing \in BOOLEAN
  /\ client \in {"away", "list", "mapChange", "gameIn", "hero", "moving", "leaving"}
  /\ backup \in BOOLEAN
  /\ toMap \in [Map -> Seq([kind : {"gameinSyn"}, key : Key] \cup
                           [kind : {"changeMap"}, map : Map] \cup
                           [kind : {"back", "disconnected", "gameinNack", "otherMap"}])]
  /\ toAgent \in [Map -> Seq([kind : {"gameinAck"}, key : Key] \cup
                             [kind : {"mapOut"}, map : Map] \cup
                             [kind : {"loginCheckDelete"}, known : BOOLEAN] \cup
                             [kind : {"gameinNack", "changeMapNack", "backAck"}])]
  /\ player \in [Map -> [key : Key, info : BOOLEAN, rest : BOOLEAN] \cup {NoPlayer}]
  /\ LET Q == [kind : {"info", "rest", "back"}] \cup [kind : {"point"}, map : Map] \cup
              [kind : {"out"}, known : BOOLEAN]
     IN /\ query \in [Map -> Seq(Q \cup [kind : {"save"}, map : Map, data : BOOLEAN])]
        /\ answer \in [Map -> Seq(Q)]
  /\ dbMap \in Map

(* A map server holds the character's data from the moment they are read until
   the save that its departure caused has been carried out. *)
Holds(m) == \/ Present(m) /\ (player[m].info \/ \E x \in ToSet(answer[m]) : x.kind = "info")
            \/ \E x \in ToSet(query[m]) : x.kind = "save" /\ x.data

(* Never do two map servers hold them: otherwise one has read what the other
   is still going to change, and items, money and experience come twice or
   get lost. *)
OneHolder == ~hurried => \A m, n \in Map : Holds(m) /\ Holds(n) => m = n

(* A character on a map has a session that knows where it is, or a message
   under way that will remove it, or an answer to come on which the agent
   will have it removed. *)
NoOrphan ==
  ~hurried => \A m \in Map : Present(m) =>
    \/ at = m /\ session = player[m].key
    \/ Sent(m, "disconnected") \/ Sent(m, "gameinNack") \/ Sent(m, "otherMap")

(* The same with the types of the messages and queries that decide it. *)
PlayersSound == TypeOK /\ NoOrphan

(* Whoever enters a map gets there or loses the connection. *)
EntersAtLast == ~hurried /\ client = "gameIn" ~> client # "gameIn"

(* Whoever asks for another map or for the list of characters gets an answer. *)
LeavesAtLast == ~hurried /\ client \in {"moving", "leaving"} ~> client \notin {"moving", "leaving"}

(* Nobody is left before a screen that waits. *)
AnsweredAtLast == EntersAtLast /\ LeavesAtLast

(* A map server learns that the session is over when it knows the account: the
   character's data are there, or the character is not and will not come. *)
Named(m) == /\ Sent(m, "disconnected") /\ ~Sent(m, "gameinSyn")
            /\ Present(m) => player[m].info

(* Then the account is logged out, however often the user comes and goes. *)
LoggedOutAtLast == online /\ session = 0 /\ (\E m \in Map : Named(m)) ~> ~online

=============================================================================
