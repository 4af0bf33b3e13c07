------------------------------- MODULE Login -------------------------------
(***************************************************************************)
(* How accounts are logged in and out: the distribution server, the        *)
(* agents, the table of logged-in accounts in the member database (the     *)
(* LoginCheck of the comments) and the clients that try to use an account  *)
(* at the same time.                                                       *)
(*                                                                         *)
(* A session is one run of a client: its connection to the distribution    *)
(* server, with the authkey that names it, and then its connection to an   *)
(* agent.  The servers' game code runs in one thread each, so a handler is *)
(* one action; between servers messages keep their order per connection,   *)
(* and each server's queries to the member database are carried out in the *)
(* order of its one login connection.  A client's message is handled when  *)
(* it is sent, since what the client does after it is an action of its own *)
(* that may come at any time.  The map server is only the delay between a  *)
(* character's DISCONNECTED and the LOGINCHECK_DELETE that answers it.     *)
(*                                                                         *)
(* An agent's USERINFOs are blocks of one pool.  Two tables name them, one *)
(* by the account and one by the connection, and a block that was freed    *)
(* may be handed out again while the second table still names it.          *)
(*                                                                         *)
(* An operator whose comment begins with "Faulty" is a variant of the one  *)
(* after it that no action uses.                                           *)
(***************************************************************************)
EXTENDS Integers, Sequences, FiniteSets, SequencesExt

CONSTANTS Agent,     \* the agent servers
          Account,
          Session,   \* a bound: the sessions, each used once
          AccountOf, \* the account a session logs in with
          NoSession, \* no authkey, or no connection
          Block,     \* the blocks of g_UserInfoPool, a bound: the pool grows
          NoBlock,   \* no entry in a table
          Tampered   \* the sessions whose files fail the check of RLoginCheckQuery

ASSUME LoginAssumption ==
  /\ NoSession \notin Session
  /\ AccountOf \in [Session -> Account]
  /\ NoBlock \notin Block
  /\ Tampered \subseteq Session

VARIABLES
  online,    \* the accounts in the database's table of logged-in accounts
  query,     \* the distribution server's queries under way
  answer,    \* their answers, not yet handled
  logouts,   \* each agent's UP_GAMELOGOUTs under way
  link,      \* the connection of a session to the distribution server
  user,      \* its USERINFO there
  waiting,   \* g_LoginUser: the wait before an insisting user logs an account out
  client,    \* what the client is doing
  agentOf,   \* the agent a session is sent to
  toAgent, toDist, \* messages between the distribution server and the agents
  ready,     \* g_bReady of each agent
  used,      \* the blocks its pool has handed out
  info,      \* what they hold
  byAccount, \* g_pUserTableForUserID of each agent
  byConnection, \* g_pUserTable: the entry of a session's connection to its agent
  kicked,    \* the agent called DisconnectUser and waits for the callback
  saving,    \* DISCONNECTEDs the map server has not answered yet
  lost,      \* ghost: the accounts whose log-in the file check has dropped
  reused     \* ghost: the connections whose entry named a block that was handed out again

dbVars     == <<online, query, answer, logouts, lost>>
distVars   == <<link, user, waiting>>
agentVars  == <<ready, used, info, byAccount, byConnection, kicked, saving, reused>>
msgVars    == <<toAgent, toDist>>
clientVars == <<client, agentOf>>
vars == <<online, query, answer, logouts, lost, link, user, waiting, client, agentOf, toAgent,
          toDist, ready, used, info, byAccount, byConnection, kicked, saving, reused>>

(* A query of the distribution server: UP_GAMELOGOUT, or the log-in of a session. *)
Logout(x)  == [kind |-> "logout", account |-> x]
LoginOf(s) == [kind |-> "login", session |-> s]

(* dwUserID (as state # 0) and State, eDISCONOPT_DELETELOGINCHECK, bRecvDistOut *)
FreshUser == [state |-> 0, delete |-> FALSE, distOut |-> FALSE]

Message(k, s) == [kind |-> k, session |-> s]

(* A USERINFO of an agent after memset.  Its fields are dwUserID with
   DistAuthKey, dwConnectionIndex, and dwCharacterID # 0. *)
Zeroed == [session |-> NoSession, connection |-> NoSession, character |-> FALSE]

Init ==
  /\ online = [x \in Account |-> FALSE] /\ lost = {}
  /\ query = <<>> /\ answer = <<>>
  /\ logouts = [a \in Agent |-> [x \in Account |-> 0]]
  /\ link = [s \in Session |-> "none"]
  /\ user = [s \in Session |-> FreshUser]
  /\ waiting = [x \in Account |-> "no"]
  /\ client = [s \in Session |-> "away"]
  /\ agentOf \in [Session -> Agent]
  /\ toAgent = [a \in Agent |-> <<>>] /\ toDist = [a \in Agent |-> <<>>]
  /\ ready = [a \in Agent |-> FALSE]
  /\ used = [a \in Agent |-> {}]
  /\ info = [a \in Agent |-> [b \in Block |-> Zeroed]]
  /\ byAccount = [a \in Agent |-> [x \in Account |-> NoBlock]]
  /\ byConnection = [s \in Session |-> NoBlock]
  /\ kicked = [s \in Session |-> FALSE]
  /\ saving = [a \in Agent |-> [x \in Account |-> 0]]
  /\ reused = {}

(***************************************************************************)
(* The distribution server                                                 *)
(***************************************************************************)

(* g_pUserTable->FindUser(index) and the authkeys agree *)
Known(s) == link[s] \in {"open", "closing"}

(* DisconnectUser: the connection goes, and OnDisconnectUser is called later.
   A client that was not sent on to an agent ends with it. *)
DistDisconnect(s) ==
  /\ link' = [link EXCEPT ![s] = "closing"]
  /\ client' = [client EXCEPT ![s] = IF @ = "dist" THEN "gone" ELSE @]

Broadcast(m) == toAgent' = [a \in Agent |-> Append(toAgent[a], m)]

(* OnAcceptUser *)
Connect(s) ==
  /\ client[s] = "away"
  /\ link' = [link EXCEPT ![s] = "open"]
  /\ client' = [client EXCEPT ![s] = "dist"]
  /\ UNCHANGED <<dbVars, user, waiting, agentOf, msgVars, agentVars>>

Asked(s) == \/ LoginOf(s) \in ToSet(query)
            \/ \E i \in DOMAIN answer : answer[i].session = s

(* Userconn_Login_Syn; the client's dialog is shut until an answer has come,
   and opened again after "somebody is logged in already" *)
LoginSyn(s) ==
  /\ client[s] = "dist" /\ link[s] = "open"
  /\ user[s].state # 1 /\ ~Asked(s)
  /\ query' = Append(query, LoginOf(s))
  /\ UNCHANGED <<online, answer, logouts, lost, distVars, clientVars, msgVars, agentVars>>

(* RLoginCheckQuery.  1: the account was free and is ours.  4: it is logged in.
   Where the file check fails, LoginError is all that happens. *)
HandleAnswer ==
  /\ answer # <<>>
  /\ LET s == Head(answer).session  x == AccountOf[s]  state == Head(answer).state IN
     /\ answer' = Tail(answer)
     /\ CASE ~Known(s) ->
               /\ query' = IF state = 1 THEN Append(query, Logout(x)) ELSE query
               /\ UNCHANGED <<user, waiting, toAgent, lost>>
          [] Known(s) /\ s \in Tampered ->
               /\ lost' = IF state = 1 THEN lost \cup {x} ELSE lost
               /\ UNCHANGED <<query, user, waiting, toAgent>>
          [] Known(s) /\ s \notin Tampered /\ state = 1 ->
               /\ user' = [user EXCEPT ![s].state = 1, ![s].delete = TRUE]
               /\ waiting' = [waiting EXCEPT ![x] = "no"]
               /\ toAgent' = [toAgent EXCEPT ![agentOf[s]] = Append(@, Message("login", s))]
               /\ UNCHANGED <<query, lost>>
          [] OTHER ->
               /\ user' = [user EXCEPT ![s].state = 4]
               /\ UNCHANGED <<query, waiting, toAgent, lost>>
  /\ UNCHANGED <<online, logouts, link, clientVars, toDist, agentVars>>

(* Userconn_Force_Disconnect_OverlapLogIn with AddWaitForLoginCheckDelete; the
   client has only a button to close left.  A second request after ten seconds
   logs the account out without asking anybody. *)
ForceSyn(s) ==
  /\ client[s] = "dist" /\ link[s] = "open" /\ user[s].state = 4 /\ ~Asked(s)
  /\ Broadcast(Message("force", s))
  /\ LET x == AccountOf[s] IN
     /\ waiting' = [waiting EXCEPT ![x] = IF @ = "old" THEN "no" ELSE "recent"]
     /\ query' = IF waiting[x] = "old" THEN Append(query, Logout(x)) ELSE query
  /\ client' = [client EXCEPT ![s] = "gone"]
  /\ link' = [link EXCEPT ![s] = "closing"]
  /\ UNCHANGED <<online, answer, logouts, lost, user, agentOf, toDist, agentVars>>

(* Ten seconds pass. *)
TenSeconds(x) ==
  /\ waiting[x] = "recent" /\ waiting' = [waiting EXCEPT ![x] = "old"]
  /\ UNCHANGED <<dbVars, link, user, clientVars, msgVars, agentVars>>

(* Userconn_Notify_UserLogIn_Ack: LOGIN_ACK to the client, and from now on the
   agent is responsible. *)
NotifyAck(a) ==
  /\ toDist[a] # <<>> /\ Head(toDist[a]).kind = "ack"
  /\ LET s == Head(toDist[a]).session IN
     IF Known(s)
     THEN /\ user' = [user EXCEPT ![s].delete = ~@]
          /\ UNCHANGED toAgent
     ELSE /\ toAgent' = [toAgent EXCEPT ![a] = Append(@, Message("alreadyOut", s))]
          /\ UNCHANGED user
  /\ toDist' = [toDist EXCEPT ![a] = Tail(@)]
  /\ UNCHANGED <<dbVars, link, waiting, clientVars, agentVars>>

(* Userconn_Notify_UserLogIn_Nack *)
NotifyNack(a) ==
  /\ toDist[a] # <<>> /\ Head(toDist[a]).kind = "nack"
  /\ LET s == Head(toDist[a]).session IN
     IF Known(s) THEN DistDisconnect(s) ELSE UNCHANGED <<link, client>>
  /\ toDist' = [toDist EXCEPT ![a] = Tail(@)]
  /\ UNCHANGED <<dbVars, user, waiting, agentOf, toAgent, agentVars>>

(* The client has got LOGIN_ACK and sends REQUEST_DISTOUT. *)
LoginAck(s) ==
  /\ client[s] = "dist" /\ link[s] = "open"
  /\ user[s].state = 1 /\ ~user[s].delete
  /\ client' = [client EXCEPT ![s] = "told"]
  /\ UNCHANGED <<dbVars, distVars, agentOf, msgVars, agentVars>>

(* Userconn_ReQuest_DistOut *)
DistOut(s) ==
  /\ client[s] = "told" /\ link[s] = "open"
  /\ user' = [user EXCEPT ![s].distOut = TRUE]
  /\ link' = [link EXCEPT ![s] = "closing"]
  /\ UNCHANGED <<dbVars, waiting, clientVars, msgVars, agentVars>>

(* The client or the network breaks the connection. *)
Break(s) ==
  /\ link[s] = "open"
  /\ DistDisconnect(s)
  /\ UNCHANGED <<dbVars, user, waiting, agentOf, msgVars, agentVars>>

(* Faulty: OnDisconnectUser before the agents were told of a broken log-in. *)
OnDisconnectUserQuietly(s) ==
  /\ link[s] = "closing"
  /\ query' = IF user[s].delete THEN Append(query, Logout(AccountOf[s])) ELSE query
  /\ link' = [link EXCEPT ![s] = IF user[s].distOut THEN "left" ELSE "broken"]
  /\ user' = [user EXCEPT ![s] = FreshUser]
  /\ UNCHANGED <<online, answer, logouts, lost, waiting, clientVars, msgVars, agentVars>>

(* CUserTable::OnDisconnectUser *)
OnDisconnectUser(s) ==
  /\ link[s] = "closing"
  /\ query' = IF user[s].delete THEN Append(query, Logout(AccountOf[s])) ELSE query
  /\ IF user[s].state # 0 /\ ~user[s].distOut
     THEN Broadcast(Message("disconnectedOnLogin", s)) ELSE UNCHANGED toAgent
  /\ link' = [link EXCEPT ![s] = IF user[s].distOut THEN "left" ELSE "broken"]
  /\ user' = [user EXCEPT ![s] = FreshUser]
  /\ UNCHANGED <<online, answer, logouts, lost, waiting, clientVars, toDist, agentVars>>

(***************************************************************************)
(* The member database                                                     *)
(***************************************************************************)

(* UP_GAMELOGOUT *)
LogOut(x) ==
  /\ online' = [online EXCEPT ![x] = FALSE]
  /\ lost' = lost \ {x}

(* UP_GAMELOGINADULT_FREE and UP_GAMELOGOUT for the distribution server *)
ExecuteQuery ==
  /\ query # <<>>
  /\ query' = Tail(query)
  /\ IF Head(query).kind = "logout"
     THEN LogOut(Head(query).account) /\ UNCHANGED answer
     ELSE LET s == Head(query).session IN
          /\ online' = [online EXCEPT ![AccountOf[s]] = TRUE]
          /\ answer' = Append(answer, [session |-> s,
                                       state |-> IF online[AccountOf[s]] THEN 4 ELSE 1])
          /\ UNCHANGED lost
  /\ UNCHANGED <<logouts, distVars, clientVars, msgVars, agentVars>>

(* UP_GAMELOGOUT for an agent *)
ExecuteLogout(a, x) ==
  /\ logouts[a][x] > 0
  /\ logouts' = [logouts EXCEPT ![a][x] = @ - 1]
  /\ LogOut(x)
  /\ UNCHANGED <<query, answer, distVars, clientVars, msgVars, agentVars>>

(***************************************************************************)
(* The agents                                                              *)
(***************************************************************************)

(* The start of the agent has come to its end. *)
Start(a) ==
  /\ ~ready[a] /\ ready' = [ready EXCEPT ![a] = TRUE]
  /\ UNCHANGED <<dbVars, distVars, clientVars, msgVars, used, info, byAccount, byConnection,
                 kicked, saving, reused>>

LoginCheckDelete(a, x) == logouts' = [logouts EXCEPT ![a][x] = @ + 1]

(* The connections of agent a whose entry in g_pUserTable is block b *)
Naming(a, b) == {s \in Session : agentOf[s] = a /\ byConnection[s] = b}

(* A block that is free when those of freed are free too goes to a USERINFO u. *)
Alloc(a, b, freed, u) ==
  /\ b \in Block \ (used[a] \ freed)
  /\ used' = [used EXCEPT ![a] = (@ \ freed) \cup {b}]
  /\ info' = [info EXCEPT ![a] = [c \in Block |-> IF c = b THEN u
                                                  ELSE IF c \in freed THEN Zeroed ELSE @[c]]]
  /\ reused' = reused \cup Naming(a, b)

(* memset and Free *)
Free(a, b) ==
  /\ used' = [used EXCEPT ![a] = @ \ {b}]
  /\ info' = [info EXCEPT ![a][b] = Zeroed]

Connected(s) == client[s] \in {"agent", "playing"}

(* CUserTable::OnDisconnectUser of the agent and the end of connection c.  It
   acts on the block that g_pUserTable names, whoever has got it; the account of
   a character whose map server is gone is logged out at once. *)
Leave(a, c) ==
  LET b == byConnection[c] IN
  /\ byConnection' = [byConnection EXCEPT ![c] = NoBlock]
  /\ kicked' = [kicked EXCEPT ![c] = FALSE]
  /\ client' = [client EXCEPT ![c] = "gone"]
  /\ CASE b = NoBlock -> UNCHANGED <<used, info, byAccount, logouts, saving>>
       [] b # NoBlock /\ info[a][b].session = NoSession ->
            Free(a, b) /\ UNCHANGED <<byAccount, logouts, saving>>
       [] OTHER ->
            LET x == AccountOf[info[a][b].session] IN
            /\ byAccount' = [byAccount EXCEPT ![a][x] = NoBlock]
            /\ \/ LoginCheckDelete(a, x) /\ UNCHANGED saving
               \/ /\ info[a][b].character
                  /\ saving' = [saving EXCEPT ![a][x] = @ + 1] /\ UNCHANGED logouts
            /\ Free(a, b)

(* Faulty: the USERINFO is freed and the account stays logged in. *)
FreeInfoOnly(a, x) ==
  /\ byAccount' = [byAccount EXCEPT ![a][x] = NoBlock]
  /\ Free(a, byAccount[a][x])
  /\ UNCHANGED logouts

(* LoginCheckDelete, RemoveUser, memset and Free of the account's USERINFO.  A
   connection that has it keeps its entry in g_pUserTable. *)
FreeInfo(a, x) ==
  /\ LoginCheckDelete(a, x)
  /\ byAccount' = [byAccount EXCEPT ![a][x] = NoBlock]
  /\ Free(a, byAccount[a][x])

HeadIs(a, k) == toAgent[a] # <<>> /\ Head(toAgent[a]).kind = k
Received(a) == toAgent' = [toAgent EXCEPT ![a] = Tail(@)]

(* The USERINFO that g_pUserTableForUserID has for the account of session s *)
Found(a, s) == byAccount[a][AccountOf[s]]

(* It is there, and it was made for session s: DistAuthKey or dwUniqueConnectIdx agrees. *)
Its(a, s) == Found(a, s) # NoBlock /\ info[a][Found(a, s)].session = s

(* MSGUSERINFO back to the distribution server *)
Reply(a, k, s) == toDist' = [toDist EXCEPT ![a] = Append(@, Message(k, s))]

(* The branches of UserConn_Notify_UserLogin_Syn: an agent that is not ready
   refuses; an old USERINFO with a connection is disconnected and the log-in
   refused; one without gives way; and where the pool has none left, nothing is
   answered. *)
RefuseLogin(a, s) ==
  /\ \/ ~ready[a] /\ UNCHANGED kicked
     \/ /\ ready[a] /\ Found(a, s) # NoBlock /\ info[a][Found(a, s)].connection # NoSession
        /\ kicked' = [kicked EXCEPT ![info[a][Found(a, s)].connection] = TRUE]
  /\ Reply(a, "nack", s)
  /\ UNCHANGED <<used, info, byAccount, reused>>

TakeLogin(a, s) ==
  LET old == {Found(a, s)} \ {NoBlock} IN
  /\ ready[a] /\ \A b \in old : info[a][b].connection = NoSession
  /\ IF used[a] \ old = Block
     THEN UNCHANGED <<used, info, byAccount, reused, toDist>>
     ELSE \E b \in Block :
            /\ Alloc(a, b, old, [Zeroed EXCEPT !.session = s])
            /\ byAccount' = [byAccount EXCEPT ![a][AccountOf[s]] = b]
            /\ Reply(a, "ack", s)
  /\ UNCHANGED kicked

(* UserConn_Notify_UserLogin_Syn *)
NotifyLogin(a) ==
  /\ HeadIs(a, "login") /\ Received(a)
  /\ LET s == Head(toAgent[a]).session IN RefuseLogin(a, s) \/ TakeLogin(a, s)
  /\ UNCHANGED <<dbVars, distVars, clientVars, ready, byConnection, saving>>

(* UserConn_NotifyToAgent_AlreadyOut *)
AlreadyOut(a) ==
  /\ HeadIs(a, "alreadyOut") /\ Received(a)
  /\ LET s == Head(toAgent[a]).session IN
     IF Its(a, s) THEN FreeInfo(a, AccountOf[s]) ELSE UNCHANGED <<logouts, used, info, byAccount>>
  /\ UNCHANGED <<online, query, answer, lost, distVars, clientVars, toDist, ready, byConnection,
                 kicked, saving, reused>>

(* Faulty: UserConn_Disconnected_On_Login without the look at DistAuthKey. *)
DisconnectedOnAnyLogin(a) ==
  /\ HeadIs(a, "disconnectedOnLogin") /\ Received(a)
  /\ LET s == Head(toAgent[a]).session IN
     IF Found(a, s) # NoBlock
     THEN FreeInfo(a, AccountOf[s]) ELSE UNCHANGED <<logouts, used, info, byAccount>>
  /\ UNCHANGED <<online, query, answer, lost, distVars, clientVars, toDist, ready, byConnection,
                 kicked, saving, reused>>

(* UserConn_Disconnected_On_Login: nobody asks whether the client has come
   meanwhile, and then its freed USERINFO stays in g_pUserTable. *)
DisconnectedOnLogin(a) ==
  /\ HeadIs(a, "disconnectedOnLogin") /\ Received(a)
  /\ LET s == Head(toAgent[a]).session IN
     IF Its(a, s) THEN FreeInfo(a, AccountOf[s]) ELSE UNCHANGED <<logouts, used, info, byAccount>>
  /\ UNCHANGED <<online, query, answer, lost, distVars, clientVars, toDist, ready, byConnection,
                 kicked, saving, reused>>

(* Faulty: UserConn_Force_Disconnect_OverlapLogin does nothing where there is no connection. *)
ForceConnected(a) ==
  /\ HeadIs(a, "force") /\ Received(a)
  /\ LET b == Found(a, Head(toAgent[a]).session) IN
     IF b # NoBlock /\ info[a][b].connection # NoSession
     THEN Leave(a, info[a][b].connection)
     ELSE UNCHANGED <<logouts, client, used, info, byAccount, byConnection, kicked, saving>>
  /\ UNCHANGED <<online, query, answer, lost, distVars, agentOf, toDist, ready, reused>>

(* UserConn_Force_Disconnect_OverlapLogin *)
ForceOut(a) ==
  /\ HeadIs(a, "force") /\ Received(a)
  /\ LET s == Head(toAgent[a]).session  b == Found(a, s) IN
     CASE b = NoBlock ->
            UNCHANGED <<logouts, client, used, info, byAccount, byConnection, kicked, saving>>
       [] b # NoBlock /\ info[a][b].connection # NoSession -> Leave(a, info[a][b].connection)
       [] OTHER -> FreeInfo(a, AccountOf[s]) /\ UNCHANGED <<client, byConnection, kicked, saving>>
  /\ UNCHANGED <<online, query, answer, lost, distVars, agentOf, toDist, ready, reused>>

(* OnAcceptUser of the agent: CMainTitle::OnDisconnect has connected to it.  The
   connection gets a USERINFO for the time being. *)
AgentAccept(s) ==
  /\ client[s] = "told" /\ link[s] # "open"
  /\ LET a == agentOf[s] IN
     IF ready[a]
     THEN \E b \in Block :
            /\ Alloc(a, b, {}, [Zeroed EXCEPT !.connection = s])
            /\ byConnection' = [byConnection EXCEPT ![s] = b]
            /\ client' = [client EXCEPT ![s] = "agent"]
     ELSE /\ client' = [client EXCEPT ![s] = "gone"]
          /\ UNCHANGED <<used, info, byConnection, reused>>
  /\ UNCHANGED <<dbVars, distVars, agentOf, msgVars, ready, byAccount, kicked, saving>>

(* The account's USERINFO b takes the place of the connection's first one, which
   is freed without a memset. *)
Attach(a, s, b) ==
  /\ info' = [info EXCEPT ![a][b].connection = s]
  /\ byConnection' = [byConnection EXCEPT ![s] = b]
  /\ used' = [used EXCEPT ![a] = @ \ {byConnection[s]}]
  /\ client' = [client EXCEPT ![s] = "playing"]
  /\ UNCHANGED <<logouts, byAccount, kicked, saving>>

(* Faulty: UserConn_Characterlist_Syn of anybody who knows the account. *)
CharacterListOfAny(s) ==
  /\ client[s] = "agent"
  /\ LET a == agentOf[s] IN
     IF Found(a, s) # NoBlock THEN Attach(a, s, Found(a, s)) ELSE Leave(a, s)
  /\ UNCHANGED <<online, query, answer, lost, distVars, agentOf, msgVars, ready, reused>>

(* UserConn_Characterlist_Syn, which the client sends once.  Its branch without a
   first USERINFO is never taken: OnDisconnectUser and DisconnectUser go together. *)
CharacterList(s) ==
  /\ client[s] = "agent"
  /\ LET a == agentOf[s] IN IF Its(a, s) THEN Attach(a, s, Found(a, s)) ELSE Leave(a, s)
  /\ UNCHANGED <<online, query, answer, lost, distVars, agentOf, msgVars, ready, reused>>

(* What g_pUserTable has for the connection of session s *)
Named(s) == info[agentOf[s]][byConnection[s]]

(* UserConn_CharacterSelect_Syn: a character of the list of the USERINFO's account. *)
CharacterSelect(s) ==
  /\ client[s] = "playing"
  /\ Named(s).session # NoSession /\ AccountOf[Named(s).session] = AccountOf[s]
  /\ Named(s).connection # NoSession /\ ~Named(s).character
  /\ info' = [info EXCEPT ![agentOf[s]][byConnection[s]].character = TRUE]
  /\ UNCHANGED <<dbVars, distVars, clientVars, msgVars, ready, used, byAccount, byConnection,
                 kicked, saving, reused>>

(* UserConn_BackToCharSel_Ack *)
BackToCharSel(s) ==
  /\ client[s] = "playing" /\ Named(s).character
  /\ info' = [info EXCEPT ![agentOf[s]][byConnection[s]].character = FALSE]
  /\ UNCHANGED <<dbVars, distVars, clientVars, msgVars, ready, used, byAccount, byConnection,
                 kicked, saving, reused>>

(* OnDisconnectUser of the agent: the client goes, the network breaks, the
   agent's own DisconnectUser or its ConnectionCheck ends the connection. *)
AgentDisconnect(s) ==
  /\ Connected(s)
  /\ Leave(agentOf[s], s)
  /\ UNCHANGED <<online, query, answer, lost, distVars, agentOf, msgVars, ready, reused>>

(* ConnectionCheck finds a USERINFO in g_pUserTable that has no connection: only
   one that was handed out again can have an account. *)
ConnectionCheck(s) ==
  /\ Connected(s) /\ byConnection[s] # NoBlock
  /\ Named(s).connection = NoSession /\ Named(s).session # NoSession
  /\ LET a == agentOf[s]  x == AccountOf[Named(s).session] IN
     /\ LoginCheckDelete(a, x)
     /\ byAccount' = [byAccount EXCEPT ![a][x] = NoBlock]
     /\ Free(a, byConnection[s])
  /\ UNCHANGED <<online, query, answer, lost, distVars, clientVars, msgVars, ready, byConnection,
                 kicked, saving, reused>>

(* The client that was sent on to an agent never gets there. *)
GiveUp(s) ==
  /\ client[s] = "told" /\ link[s] # "open"
  /\ client' = [client EXCEPT ![s] = "gone"]
  /\ UNCHANGED <<dbVars, distVars, agentOf, msgVars, agentVars>>

(* UserConn_LoginCheck_Delete: the map server has saved the character. *)
LoginCheckDeleted(a, x) ==
  /\ saving[a][x] > 0
  /\ saving' = [saving EXCEPT ![a][x] = @ - 1]
  /\ IF byAccount[a][x] = NoBlock THEN LoginCheckDelete(a, x) ELSE UNCHANGED logouts
  /\ UNCHANGED <<online, query, answer, lost, distVars, clientVars, msgVars, ready, used, info,
                 byAccount, byConnection, kicked, reused>>

(***************************************************************************)
(* Specification                                                           *)
(***************************************************************************)

ClientStep(s) ==
  \/ Connect(s) \/ LoginSyn(s) \/ ForceSyn(s) \/ LoginAck(s) \/ DistOut(s)
  \/ Break(s) \/ AgentAccept(s) \/ CharacterList(s) \/ CharacterSelect(s)
  \/ BackToCharSel(s) \/ AgentDisconnect(s) \/ ConnectionCheck(s) \/ GiveUp(s)

DistStep == \/ HandleAnswer \/ \E s \in Session : OnDisconnectUser(s)
            \/ \E a \in Agent : NotifyAck(a) \/ NotifyNack(a)

AgentStep(a) == \/ Start(a) \/ NotifyLogin(a) \/ AlreadyOut(a) \/ DisconnectedOnLogin(a)
                \/ ForceOut(a) \/ \E x \in Account : LoginCheckDeleted(a, x)

DatabaseStep == ExecuteQuery \/ \E a \in Agent, x \in Account : ExecuteLogout(a, x)

Next == \/ \E s \in Session : ClientStep(s)
        \/ \E x \in Account : TenSeconds(x)
        \/ DistStep
        \/ \E a \in Agent : AgentStep(a)
        \/ DatabaseStep

SafeSpec == Init /\ [][Next]_vars

(* The servers and the database go on with what they have to do, and a
   connection the agent has closed ends.  Clients need not do anything. *)
Fairness ==
  /\ WF_vars(HandleAnswer) /\ WF_vars(ExecuteQuery)
  /\ \A s \in Session : /\ WF_vars(OnDisconnectUser(s))
                        /\ WF_vars(kicked[s] /\ AgentDisconnect(s))
  /\ \A a \in Agent : /\ WF_vars(NotifyAck(a) \/ NotifyNack(a))
                      /\ WF_vars(NotifyLogin(a) \/ AlreadyOut(a) \/ DisconnectedOnLogin(a) \/ ForceOut(a))
                      /\ \A x \in Account : /\ WF_vars(LoginCheckDeleted(a, x))
                                            /\ WF_vars(ExecuteLogout(a, x))

Spec == SafeSpec /\ Fairness

(***************************************************************************)
(* Properties                                                              *)
(***************************************************************************)

(* Every variable keeps to its type. *)
TypeOK ==
  /\ online \in [Account -> BOOLEAN] /\ lost \subseteq Account
  /\ query \in Seq({Logout(x) : x \in Account} \cup {LoginOf(s) : s \in Session})
  /\ answer \in Seq([session : Session, state : {1, 4}])
  /\ logouts \in [Agent -> [Account -> Nat]] /\ saving \in [Agent -> [Account -> Nat]]
  /\ link \in [Session -> {"none", "open", "closing", "left", "broken"}]
  /\ user \in [Session -> [state : {0, 1, 4}, delete : BOOLEAN, distOut : BOOLEAN]]
  /\ waiting \in [Account -> {"no", "recent", "old"}]
  /\ client \in [Session -> {"away", "dist", "told", "agent", "playing", "gone"}]
  /\ agentOf \in [Session -> Agent]
  /\ toAgent \in [Agent -> Seq([kind : {"login", "alreadyOut", "disconnectedOnLogin", "force"},
                                session : Session])]
  /\ toDist \in [Agent -> Seq([kind : {"ack", "nack"}, session : Session])]
  /\ ready \in [Agent -> BOOLEAN] /\ used \in [Agent -> SUBSET Block]
  /\ info \in [Agent -> [Block -> [session : Session \cup {NoSession},
                                   connection : Session \cup {NoSession}, character : BOOLEAN]]]
  /\ byAccount \in [Agent -> [Account -> Block \cup {NoBlock}]]
  /\ byConnection \in [Session -> Block \cup {NoBlock}]
  /\ kicked \in [Session -> BOOLEAN] /\ reused \subseteq Session

(* While the database has an account logged in, somebody still has to log it
   out: an answer nobody has seen, a connection with DELETELOGINCHECK, an
   agent's table, a character being saved, or a query under way.  The one case
   of nobody is the log-in that the file check has dropped: that account is lost
   until its owner insists twice. *)
SomebodyResponsible ==
  \A x \in Account : online[x] =>
    \/ Logout(x) \in ToSet(query)
    \/ \E a \in Agent : logouts[a][x] > 0 \/ saving[a][x] > 0 \/ byAccount[a][x] # NoBlock
    \/ \E i \in DOMAIN answer : AccountOf[answer[i].session] = x /\ answer[i].state = 1
    \/ \E s \in Session : AccountOf[s] = x /\ user[s].delete
    \/ x \in lost

(* The entry of a connection is a block that has been freed. *)
Stale(s) == byConnection[s] # NoBlock /\ byConnection[s] \notin used[agentOf[s]]

(* The tables of an agent and its pool agree: the account's USERINFO is in use and
   made for one of its sessions, a connection's entry is its own or freed, and a
   block in use is known to one of the tables, with both only for one session. *)
TablesAgree ==
  /\ \A a \in Agent : \A x \in Account : byAccount[a][x] # NoBlock =>
       LET u == info[a][byAccount[a][x]] IN
       /\ byAccount[a][x] \in used[a]
       /\ u.session # NoSession /\ AccountOf[u.session] = x /\ agentOf[u.session] = a
  /\ \A s \in Session : byConnection[s] # NoBlock => Stale(s) \/ Named(s).connection = s
  /\ \A a \in Agent : \A b \in used[a] :
       LET u == info[a][b] IN
       /\ u.session # NoSession => byAccount[a][AccountOf[u.session]] = b
       /\ u.connection # NoSession => byConnection[u.connection] = b /\ agentOf[u.connection] = a
       /\ u.session # u.connection => u.session = NoSession \/ u.connection = NoSession
       /\ u # Zeroed

(* Every variable keeps to its type, and as long as no block that g_pUserTable
   still named has been handed out again, the tables agree: no two log-ins or
   connections share a USERINFO, none is leaked, and a freed one has nobody's
   account in it. *)
OwnersSound ==
  /\ TypeOK
  /\ reused = {} => /\ TablesAgree
                    /\ \A a \in Agent : \A b \in Block \ used[a] : info[a][b].session = NoSession

(* Under the connection that has it a USERINFO is freed only through a log-in that
   was broken off: its own, or one whose connection still named a block that was
   handed out again.  The log-ins that are refused or given up do not reach it. *)
FreedByItsOwn ==
  \A s \in Session : Stale(s) \/ s \in reused =>
    link[s] = "broken" \/ \E z \in reused : link[z] = "broken"

(* When all clients of an account have gone it is logged out at last, unless an
   agent waits for a client that never came, the file check has dropped the
   log-in, or a block was handed out again. *)
Stranded(a, x) ==
  byAccount[a][x] # NoBlock /\
  LET u == info[a][byAccount[a][x]] IN
  /\ u.session # NoSession /\ u.connection = NoSession
  /\ client[u.session] = "gone" /\ link[u.session] = "left"
ReleasedAtLast ==
  \A x \in Account :
    (\A s \in Session : AccountOf[s] = x => client[s] = "gone") ~>
      (~online[x] \/ x \in lost \/ reused # {} \/ \E a \in Agent : Stranded(a, x))

(* A user who insists, after being told that somebody is logged in, gets the
   account logged out, if it is not already another's (g_LoginUser.Remove), and
   if it is one that somebody answers for. *)
InsistingHelps ==
  \A x \in Account :
    waiting[x] = "recent" ~> (~online[x] \/ waiting[x] = "no" \/ x \in lost \/ reused # {})

(* The database has an account logged in as long as a client is in. *)
LoginCheckExact ==
  \A s \in Session : client[s] = "playing" /\ Named(s).session = s => online[AccountOf[s]]

=============================================================================
