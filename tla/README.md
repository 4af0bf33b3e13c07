# Luna Online servers: TLA+ models, checks and proofs

The repository holds an online role-playing game: the client, and a cluster of Windows
servers written in C++. These models are about the servers, whose mistakes are the ones that
lose a player's items or stop a whole map.

- **Distribution server** (`src/[Server]Distribute`): log-in, choice of an agent.
- **Agent server** (`src/[Server]Agent`): the session of a player; forwards messages between
  the client and the map server the character is on; party, guild and chat across maps.
- **Map server** (`src/[Server]Map`): the game itself, one process for each map.
- **Monitoring server** (`src/[Monitoring]Server`): starts and watches the others.

All of them stand on the same two libraries, and so share their shape:

- `src/4DyuchiNET_Latest`, the network: worker threads collect messages, **one main thread**
  handles them in batches;
- `src/[Lib]DBThread` with `src/[CC]ServerModule/DataBase.cpp`, the database: queries are
  carried out by one thread for each connection, and their answers are collected by the same
  main thread in its periodic `ProcessServer` event.

The code of the game therefore runs in one thread, and a handler is never interrupted. What
interleaves is (1) the messages of different players, and the messages of one player that
arrive in an order no window of the client would send them in, (2) the answers of the
database, which come after the game has moved on, and (3), inside the two libraries, real
threads over lists, queues and events. The models follow these three.

## 1. Inventory

For each component: the state it keeps, its operations, whom it talks to, what is hard about
it, and what makes it correct. *Modelled* names the module.

| Component | State | Operations | Talks to | What is hard | What makes it correct |
|---|---|---|---|---|---|
| Player trade (`ExchangeManager`, `ExchangeRoom`) — *Exchange* | a room with two offers, sums, locks, confirmations; a container in each player | apply, accept, reject, cancel, add item, money, lock, confirm; death, log-out, too far | inventory, purse, object state | the messages of two clients in any order; an inventory that changes meanwhile; an exit in every phase | what one side saw is what is traded; whole or not at all; every lock given back; nobody stuck |
| Object state (`ObjectStateManager`) — *Exchange*, in part | the activity of each character | `StartObjectState`, `EndObjectState` | every activity | callers are trusted to have checked | one activity at a time |
| Inventory and purse (`ItemSlot`, `InventorySlot`, `Purse`) — *Exchange*, *Consignment*, in part | cells, lock flags, money | insert, delete, move, lock; add, subtract | trade, stall, shop, consignment, storage | one lock bit for all its users; a purse that cuts silently | an item in one cell; a lock has an owner |
| Consignment (`ConsignmentMgr`) — *Consignment*, in part | requests under way | register with its two answers | inventory, database | answers that come late | what the database took is gone, and paid for |
| Database connection (`DBThread`) — *DBThread*, *DBQueue* | two pairs of lists, three events, four pools | submit, carry out, collect, close | dispatcher, ODBC | two threads, lists swapped under a lock and read outside it | a FIFO service: every query once, in order, answered once |
| Query dispatcher (`DataBase`) — *DataBase* | connections, the backlog | query, pass, release | connections, handlers | full connections; handlers that query; going down | no query lost or doubled; order where it is promised |
| Network, receiving side (`4DyuchiNET`: `cpio`, `que`, `switch_que`, `mainthread`) — *SwitchQue* | two queues, events, critical sections | push, swap, batch, destroy | workers, the main thread | three kinds of threads and a double buffer | every message handled once, in order, when it is whole |
| Network, connections and sending (`network`, `connection`, `create_index`, `pre_connect`, `overlapped_send`, `write_memory_handle`) — *Connections*, *SendQueue*, *SendPipe* | free indices, recycled connections, pending reads; a chain of memory blocks for each connection | accept, read, disconnect, close; send, complete | receiving side | everything under way names a connection by its index, which is used again; a send completes in a worker while the main thread sends | a message reaches the connection it came from; no connection is forgotten; bytes go out once and in order |
| Log-in (`[Server]Distribute`) — *Login*, in part | accounts by connection and number, who is responsible for the log-out | connect, log in, insist, leave for an agent, break | database, agents | several clients with one account, broken connections and late answers | somebody always has to log the account out; no log-in frees another's session |
| Agent session (`[Server]Agent/UserTable`, parsers) — *Login*, *Arrival*, in part | users by connection, account, character; keys | arrive, select, enter the game, change map, go back, log out | distribution, map, database | a session in several servers, each with its own idea of it | the servers agree; who waits gets an answer |
| Map entry, change, exit (`ServerSystem`, `MapNetworkMsgParser`, `MapDBMsgParser`) — *Arrival*, in part | the user table | load, enter, leave, save | agent, database | saves of one map server against the loads of another | one map server holds the data; nobody stays on a map without a session |
| Street stall (`StreetStall*`) — *StreetStall*, in part | a list of articles with prices and locks, the guests; a guest's stall | open, close, register, lock, change, enter, leave, buy, sell; death, log-out | inventory, purse, object state, database | a request is made from what the client was shown and handled later, after the owner's changes, other sales, deaths; a part of a stack is an item only when the database has answered | what was shown is what is paid and got; what is on offer is there and locked; no guest of a stall that is gone |
| Party, guild, union (`Party*`, `Guild*`) — planned | membership on each map server and in the database | invite, join, leave, master change | agents, database | the same fact in several places | one party for a character, one master for a party |
| Storage, guild warehouse, looting (`StorageManager`, `GuildWarehouse`, `LootingRoom`) — planned in part | cells, money, who looks | deposit, withdraw, loot | inventory, database | as for consignment | as for consignment |
| Siege, tournament, field war, battles — planned in part | phases, teams | timers, join, leave, end | everything on a map | phases driven by the clock with players coming and going | a phase ends; a winner is one |
| Quests, monsters, AI, skills, combat, geometry, pets, housing, farm, … | tables and scripts | many | | behaviour sits in data files or in arithmetic | not modelled, section 9 |
| Monitoring, boot, consoles, encryption, client, engine, tools | | | | plain I/O, display or bit arithmetic | not modelled, section 9 |

`PROJECT.json` repeats the list with source files, and names under *hazards* each place where
something can go wrong that a test would hardly reach, with the properties that watch it.

## 2. Modules

| Module | What it is | Composes |
|---|---|---|
| `Exchange` | the trade of two players, with inventories, purses and object states | |
| `Consignment` | registrations at the database over the same cells | extends `Exchange` |
| `DBQueue` | **abstract**: what a server expects of a database connection | |
| `DBThread` | the two threads of one connection | implements `DBQueue` |
| `DataBase` | the dispatcher over several connections | each connection is a `DBQueue` |
| `SwitchQue` | workers, switch thread, main thread, shutdown | |
| `Connections` | accepting, indices, reads, DISCONNECTs and closing | over one queue in the place of `SwitchQue` |
| `SendPipe` | **abstract**: what the sending side of a connection promises | |
| `SendQueue` | the chain of blocks and the sends of one connection | implements `SendPipe` |
| `StreetStall` | stalls that sell or buy, their owners and guests, with inventories and purses | |
| `Login` | accounts, the distribution server, the agents with their pools of USERINFOs, and the member database | |
| `Arrival` | one character, its client, the agent, the map servers and their queries | takes the log-in of `Login` as one step |
| `ExchangeProofs`, `StreetStallProofs`, `DBThreadProofs`, `DataBaseProofs`, `SwitchQueProofs`, `ConnectionsProofs`, `LoginProofs`, `ArrivalProofs` | theorems | each extends the module it is named for; `ConnectionsProofs` also `SendQueue`, whose specification has names of its own for that (`ChainSpec`) |
| `MC…` | instances for TLC | |

An operator whose comment begins with "Faulty" is a plausible mistake in the operator after
it. No action uses it; with it in place of the original the named property must fail, which
shows that the property says something about the code. `PROJECT.json` pairs them under
*mutants*, one for each property of each passing run.

A run checks at most one conjunction of types and bookkeeping (`RoomsSound`, `BlocksSound`,
`QueriesSound`, `WritesSound`, `ResourcesSound`, `ChainSound`, `OwnersSound`, `PlayersSound`): its
parts are named definitions beside it, and TLC names the part that fails when one is checked
alone. `OffersFrozen`, `AnsweredAtLast`, `QueriesInOrder` and `BatchSound` join two halves of one promise.

### Exchange

| Model | Code |
|---|---|
| `state`, `StartExchange`, `EndExchange` | `CObjectStateManager`; activities are grouped by how the trade treats them |
| `container[p]` | `sEXCHANGECONTAINER` of the player |
| `room[r]` | `CExchangeRoom`, phase and `m_ExchangeData[2]`; a room in the pool is `FreeRoom` |
| `inv`, `locked` | the cells of `CInventorySlot`, `SLOTINFO.bLock` |
| `gold`, `Addition`, `Subtraction` | `CPurse`, which cuts at its limit and refuses silently |
| `ApplySyn` … `LockSyn` | one case of `CExchangeManager::NetworkMsgParse` each |
| `ConfirmFirst`, `ConfirmExchange`, `ConfirmRefused` | `MP_EXCHANGE_EXCHANGE_SYN`, by what `SetExchange` and `DoExchange` return |
| `LowestCells`, `Placements` | `GetEmptyCell` over the cells `DoExchange` has freed, in the order of the offer |
| `LeaveTrade`, `Die`, `UserLogOut` | `CancelExchange` from outside, `CPlayer::DoDie`, `UserLogOut` |
| `StartOther`, `NpcSpeech`, `EndOther`, `MoveItem`, `Discard`, `Obtain`, `Earn`, `Spend` | the rest of the server, as far as it touches this state |

A handler is one action: the map server is one thread. Items are not stackable here and cells
are only those of the inventory; distances are a free choice (`AcceptTooFar`).

### Consignment

`RegistSyn` is `MP_CONSIGNMENT_REGIST_SYN`, `RegistAck` and `RegistNack` are the two ways
through `RConsignment_Regist`; `OtherStep` is any step of `Exchange`. The character is taken to
stay logged in while its request is under way: what the stored procedures do otherwise is not
in the repository.

### StreetStall

| Model | Code |
|---|---|
| `stall[o]` | `cStreetStall` of the owner: kind, `m_sArticles`, `m_GuestList`, `m_nTotalMoney` |
| `guestStall`, `state` | `m_pGuestStall`, the object state, which the code keeps apart from it |
| `inv`, `locked`, `reserved`, `inserts` | the cells with `bLock` and SS_PREINSERT, and the `SSItemInsert` queries that are not answered |
| `asked[p]`, `Ask…` | the request of a client, made of what it has been shown: price, item, cell, number |
| `Open` … `GuestOut` | one case of `cStreetStallManager::NetworkMsgParse` each; `…Fails` are its error paths |
| `CanBuyItem`, `BuyWhole`, `BuyPart` | MP_STREETSTALL_BUYITEM_SYN with `BuyItem` and `BuyDupItem` |
| `CanSellItem`, `Sell` | MP_STREETSTALL_SELLITEM_SYN with `SellItem` and `SellDupItem` |
| `Inserted` | `RSSItemInsert`, `CreateDupItem` |
| `UserLogOut`, `Die`, `LogOut` | the same; death and `RemovePlayer` both call it |
| `Move`, `Earn` | `MoveItem`, and money from elsewhere, as far as they touch a stall |
| `up` | the process of the map server |

A client waits for the answer to one request before it makes the next, as its dialogs do; the server
handles it at any time later, and so meets a stall, a purse or an inventory that has changed. What the
client itself checks (`MayAsk`, `Unlisted`, `AskBuy`) is in the guards of the requests, and every
check of the handler is in the model too.

### DBQueue, DBThread

| Model | Code |
|---|---|
| `addList`/`popList`, `resultAdd`/`resultPop` | `m_pDBProcess1/2`, `m_pDBResultMessage1/2`: one is filled under the lock, the other emptied without it |
| `dbEvent`, `killEvent`, `killReturn` | `m_hDBEvent`, `m_hKillDBEvent`, `m_hKillReturnEvent` (auto-reset) |
| `freeMsg`, `freeReply`, `freeResult` | the pools; query and message blocks are one pool, being taken and given together |
| `dbPc` and its actions | `DBThread` from `WaitForMultipleObjects` on |
| `mainPc` and its actions | `DBTH::Query`, `SendMessageDB`, `ProcessingDBMessage`, `CloseDBThread` |
| `Execute(b)` | `FreeQuery` and its kin; `b`: rows were selected and a block for them was free |

A system call or a critical section is one action, so that `Query` and `SignalDB`, or `Recheck`
and the next wait, come apart. `DBQueue` has no threads: queries, answers, the handler that runs.
`ImplementsQueue` is the refinement, with `pendingBar`, `answersBar`, `handlingBar`, `openBar`.

### DataBase

`AddQueryQueue(s)` is every one of `Query`, `FreeQuery`, `LoginQuery`, `LogQuery`…; `BeginPass`
to `BacklogEmpty` are a pass of `ProcessingDBMessage` and `ProcessingQueue`; `BeginHandler` and
`EndHandler` frame a handler, which may send queries; `Release` and `EndRelease` go down with the
loop over `AllCleared`. A connection is the two sequences of `DBQueue` with a capacity;
`ConnectionsAreQueues` states that `CDataBase` uses them as `DBQueue` allows.

### SwitchQue

| Model | Code |
|---|---|
| `port`, `Receive` | the completion port, and a read that completes n messages (`CReadMemoryHandle::OnRead`) or says the peer has gone |
| `wPc`, `job`, `asked` | `ServerWorkerThread`, its packet, and whether its `dwQueMsgNum` is not 0 (it is never reset) |
| `que`, `writable` | `CQueManager`'s two `CMsgQue`; a slot that is still copied carries its worker |
| `Push`, `Discard`, `Copy` | `PushMsg`: room is taken under `g_csWrite`, the bytes follow outside it; both inside the worker's `g_csSwitchQue` |
| `entered`, `Swap`, `LeaveSection`, `TellMain`, `AwaitComplete` | `SwitchQueThread` |
| `BeginMsg`, `BeginResume`, `Handle`, `EndLoop`, `Clear`, `TellSwitch`, `MainEnd` | `ProcessMsgThread` |
| `CloseComplitionIO` … `DeleteQues` | `Co4DyuchiNET::DestroyNetwork` |

A message is its connection and its number on it. A connection has one read pending at most
(`PrepareRead` follows the push), which is what keeps its messages in order. The size of a queue
is counted in messages, with the `>=` of `PushMsg`: a queue of size 3 holds 2.

### Connections

| Model | Code |
|---|---|
| `preConnect`, `Accept`, `ConnectFails`, `PreConnect`, `FailConnect` | `AcceptThread` and `ConnectThread`, the list of `CPreConnect`, `ProcessPreConnect` under `m_csPreConnect` |
| `freeIndex` | `INDEXCREATOR`: from the front, back to the end |
| `list`, `con`, `recycled`, `made` | `m_pConnectionList`, the `CConnection`s and their list, `AllocConnection` |
| `sock`, `reads`, `broken` | the sockets, the reads that are pending for each, and whose peer has gone |
| `Dequeue`, `Ignore`, `Push`, `ReadAgain` | `ServerWorkerThread` around `PushMsg`, `PrepareRead`; `Ignore` is its way back for an error it does not know |
| `Posted`, `PostDisconnect` | `PostDisconnectEvent`, `CompulsiveDisconnect` |
| `Handle`, `CloseConnection` | the DISCONNECT branch of `ProcessMsgThread`, `CNetwork::CloseConnection` |

A packet or message also carries the socket it came from, which the code cannot know: it is what
`MessagesReachTheirOwn` is stated with. `failed` records, for the properties only, the sockets one of
whose reads has ended with an error other than ERROR_NETNAME_DELETED (section 6).

### SendPipe, SendQueue

`PushBytes`, `Dropped`, `OnWrite` are `CWriteMemoryHandle`, byte by byte; `Send` is
`CConnection::Send`, `WorkerWrite` the write branch of `ServerWorkerThread`, both under `m_csSend`
from begin to end. `Contents` is what stands in the chain, object after object, from the one being read;
an object read to its end is emptied and becomes one of the last. `Complete(n)` lets the network take any part of what it was given. `Pending`
maps the chain to the abstract pipe; `IsPipe` is the refinement, with its fairness.

### Login

| Model | Code |
|---|---|
| `link`, `user`, `waiting` | the connections and USERINFOs of the distribution server, `g_LoginUser` |
| `online`, `query`, `answer`, `logouts` | the table of logged-in accounts, the queries of the distribution server and of each agent |
| `used`, `info`, `Alloc`, `Free` | `g_UserInfoPool` of each agent: the blocks it has handed out, and what they hold (`CPool::Allocate`, `Deallocate`) |
| `byAccount`, `byConnection` | `g_pUserTableForUserID` and `g_pUserTable`, which name blocks, also freed ones |
| `ready`, `kicked`, `saving` | `g_bReady`, a connection the agent has shut, a character the map server is saving |
| `LoginSyn`, `HandleAnswer`, `NotifyLogin`, `NotifyAck`, `LoginAck`, `DistOut`, `AgentAccept`, `CharacterList` | the log-in, one handler each; `RefuseLogin` and `TakeLogin` are the branches of `NotifyLogin` |
| `ForceSyn`, `TenSeconds`, `ForceOut` | a user who insists because somebody is logged in |
| `Break`, `OnDisconnectUser`, `DisconnectedOnLogin`, `AlreadyOut`, `Leave`, `ConnectionCheck`, `LoginCheckDeleted` | the ways out |

Sessions are the clients that use the accounts, each once. `user[s].delete` is
`eDISCONOPT_DELETELOGINCHECK`, the duty to log the account out, which goes from hand to hand. A client
is `agent` when its connection is accepted and `playing` when it has asked for its characters. When a
USERINFO is freed its entry in `g_pUserTable` stays, and any later log-in or connection may be given
the block: what the old connection then does (`Leave`, `CharacterSelect`, `ConnectionCheck`) it does to
the new owner. Two ghosts serve the properties only: `reused`, the connections to which that has
happened, and `lost`, the accounts of log-ins that the file check has dropped (`Tampered`).

### Arrival

| Model | Code |
|---|---|
| `session`, `at`, `list`, `listing` | the agent's USERINFO: its key, `dwMapServerConnectionIndex`, `SelectInfoArray` and the query for it |
| `client`, `backup` | the client's game state, and the CHANGEMAP_ACK `CGameIn` keeps for later |
| `toMap`, `toAgent` | the connections between the agent and each map server |
| `player` | the `CPlayer` of the character on a map server, with what has been loaded |
| `query`, `answer`, `dbMap` | the queries of each map server for the character, and what the database has |
| `GameInSyn`, `LoadAnswer`, `GameinAck`, `Removed` | entering a map, and being refused |
| `ChangeMapSyn`, `ChangeMap`, `MapOut`, `ChangeMapNack` | changing it |
| `BackToCharSelSyn`, `BackToCharSel`, `BackToCharSelAck`, `ListRead` | returning to the list of characters |
| `OnDisconnectUser`, `Disconnected`, `LoginCheckDelete` | the end of a session |

A client that is disconnected may begin its next session while the last one is still on its way
out of the servers. `hurried` records that this has happened; for what follows section 6 says what
goes wrong, and all properties but `LoggedOutAtLast` claim nothing.

## 3. Runs

| Run | Instance | States | Shows |
|---|---|---|---|
| `exchange_pair` | 2 players, 2 items, 2 cells, money 0–2, 1 room | 722 970 | rooms and containers tell one story; offers are frozen; locks are exact; nobody is stuck; what was locked is what is traded; consent; whole or nothing |
| `consign_item` (violation) | 3 items, no money | | finding 1 |
| `dbthread` | 3 queries at once, rows for 2 | 13 557 | pools and lists are exact, no wake-up is lost, no pool runs dry where nobody looks, closing is clean and comes to an end, the two threads implement `DBQueue` |
| `database` | 2 threads and the login and log connections of capacity 1; a character with 2 queries, a system with 1, the log with 3 | 217 876 | queries are in one place, order where the code keeps it, none lost at release, each handled in the end |
| `database_thread` (violation) | the same | | finding 2 |
| `switchque` | 2 workers, 2 connections with 1 message each, or one with 2, a queue for 1 | 429 628 | messages reach their handlers once and in order; no half-written one is read or swapped; nothing is wiped unread; the queues change between batches; what was received is handled or discarded; the main thread can be ended |
| `connections` | 2 indices, 3 sockets (which come in one order), 2 workers, 1 read with data, 1 posted DISCONNECT | 460 045 | indices and `CConnection`s are accounted for; no connection goes deaf but by an error the worker does not know; nothing reaches a stranger before an index comes round; a broken connection is closed |
| `sendqueue` | 4 blocks of 3 bytes, 3 messages of 3 or 5 bytes | 1 916 | the chain and its counters agree; what is being sent stays; the connection is a pipe |
| `streetstall` | groups of 2 or 3 players, 2 cells in an inventory and 2 on a stall, stacks of 2, a kind that stacks and one that does not, money 0–2, prices 1 and 2 | 1 970 357 | guests and stalls agree; what is on offer is there and locked; a reserved cell is kept; a guest pays and gets what it was shown |
| `login` | 1 agent, 3 clients with one account, of which one fails the file check, 3 USERINFOs | 438 942 | the agent's tables and pool agree; a client's USERINFO is freed only by a broken log-in; somebody is responsible for the log-out; the account is logged out in the end, and for a user who insists |
| `login_exact` (violation) | 1 agent, 2 clients | | finding 3 |
| `arrival` | 2 maps, 2 sessions, 3 messages in a queue | 76 208 | one map server holds the data; no player without a session; who enters, moves or goes back gets an answer; who goes is logged out |

**Why the bounds are enough.** A trade is between two players; a third matters only as one who is
trading with somebody already, which the containers of the two can show. Two cells allow a move
between cells, a full inventory and an exchange that needs the cell it frees; money 0–2 has sums
that fit, do not fit and overflow. Three queries put one block on each side of the worker and one
with the handler; with rows for two the pool of rows runs out. In `DataBase` every second query
meets a full connection, so that the backlog holds queries of different connections. Two workers
and two connections make each race of `SwitchQue` possible: a push between two sections being
entered, a swap between two pushes, a full queue, a packet of the shutdown between two reads; an
instance with three messages and a queue for two (1 417 529 states) was run once without the liveness,
with the same result. In `Exchange`, players, items and rooms are symmetric and no liveness is checked with symmetry.
Three sockets for two indices use an index and a `CConnection` again; with the DISCONNECT of the
peer, one that is posted and one of a failed read there are two for one connection. Four blocks of
three bytes let a message begin in one block, fill the next and end in a third, a partly sent block
be at the head of the chain, and a message not fit. Three clients let one play, one be refused and
insist, and one log in while the others' messages are under way; with three USERINFOs a block is handed
out again while an entry names it, and the pool may run out, since a freed entry's new owner may keep one
for good. (The pool of the code grows by 500 when it is empty and is exhausted only with the memory; a
log-in is then not answered.) Two instances with two accounts, where a block goes from one account to the
other, were run once for the three invariants: three sessions (6 933 142 states), and four of
which one is tampered with (12 million). In `arrival` two maps and two
sessions let a character move, come back, and be entered by the next session; the bound on a queue
only stops the client from asking for more. Three sessions, of which only the last may hurry, were
also run once with the same result (queues of 2).
In `streetstall` the players of one group (`Together`) are alone on the map: two guests of one stall
(one sale changes what the other was shown, a whole and a part of a stack); a guest and an owner who
earns money meanwhile (a purse that is filled up); a stall that buys, whose owner moves its items; two
owners, of a stall that sells and one that buys, who visit each other. Two cells let a list shift, an
inventory be full, and a cell be reserved while another is bought. The requests that race are always
of two players, or of one and a death, a log-out or an answer of the database.
Deadlock is checked in the exchange and consignment runs; the others end by design: when the
connection, the dispatcher or the network has been taken down, when every socket, message or
session the bounds allow has been used, or when all players have left.

## 4. Fairness

- `DBThread`, `DataBase`: weak fairness of each thread's step. The worker has no other work; the
  main thread makes a pass at every `ProcessServer` event. Nobody is obliged to query or close.
- `SwitchQue`: weak fairness of each worker, of the switch thread (which has the highest
  priority), of the main thread and of the thread in `DestroyNetwork`; strong fairness only for
  entering a critical section that is left again and again: Windows wakes a waiting thread at each
  release and promises no order, so this is the assumption that a thread does not lose that race
  for ever. It is needed: since `dwQueMsgNum` is never reset, a peer that sends
  parts of messages for ever makes the switch thread take the sections for ever, and a worker at
  its section would otherwise lose each time. No peer is obliged to send and nobody to stop.
- `Connections`: weak fairness of each worker and of the main thread, and that the read of a
  connection that has broken ends, with whatever error. `SendQueue`: that the network goes on sending while it is not
  broken, and that a completion is taken.
- `Login`, `Arrival`: weak fairness of each server's handling of its next message or answer and of
  the database's next query; and that a connection an agent has shut ends. No client is obliged to
  anything, with one consequence: `ReleasedAtLast` speaks of clients that have gone.
- `Exchange` and `StreetStall` are safety only: a player may never answer. `NobodyStuck` says instead that there is
  always somebody who can end a trade.

## 5. Proofs

Every theorem holds for all values of the constants that satisfy the module's assumption:
`ExchangeAssumption` (a finite set of players, at least one cell, NULLs that are not members),
`StallAssumption` (the same; at the start inventories that are well formed, with every item number
once and one item in a cell of a kind that does not stack, and purses within their limit), `DBAssumption` (finitely
many blocks), `DataBaseAssumption` (at least one thread, room for a query in each), `SwitchQueAssumption`
(at least one worker, a size), `ConnectionsAssumption` (at least one index), `LoginAssumption`, `ArrivalAssumption`
(NULLs that are not members, bounds that are numbers), `SendQueueAssumption` (positive sizes, and a transfer
that begins with one byte of an object has room in the array of WSABUFs: the code has blocks of 64 bytes, 1200
entries and, by `CheckParameter`, at most 65535 bytes).
TLC evaluates them in its runs. No theorem assumes more.

The invariants the runs check as one conjunction are proved part by part; `RoomsStaySound`,
`BlocksStaySound`, `WritesStaySound`, `BatchStaysSound` and `ResourcesStaySound` join them. Every safety invariant the runs
check is stated by a theorem.

**ExchangeProofs.** `TypeCorrect`. `ContainersStayPaired`: only opening and closing a room
changes who trades with whom, so that most steps are covered by one lemma (`PairedSame`).
`OffersStayFrozen` (`OffersFrozen`) is `OffersHeld` and `NoStrayLock` together: neither is inductive alone, since a
cell keeps its item because it is locked, and stays locked because only its owner's trade unlocks
it; the pairing of rooms and containers makes that trade unique. `NobodyStaysStuck` follows from the
pairing. `ItemsAreUnique` rests on the cells `DoExchange` fills: they are as many as the items that
come, each once (`LowestCells` picks the least of a finite set of numbers, lemma `Minimum`), and free
once the partner's items have gone. With that, the frozen offers and a sum that both purses have room
for, `LockedOffersStayFixed`, `ItemsMoveOnlyByConsent` and `TradesAreExact` are proved action by action.

**StreetStallProofs.** `GuestsStaySound`, `OffersStayBacked`, `ReservedStayHeld`, from one invariant
in layers, each using those before it: `Stalls`, `Items` and `Rest` (shapes and types), `Requests` (what may
still be relied on of a request when it is handled: little, since the stall may have changed or gone),
`Visits` (the guests), `Lists` (each article of a stall that sells is one item of its owner's, no item
twice, a locked one in a locked cell, and no hole: `EmptyCell` shifts what follows), and `Reserves`.
`TradesGoAsShown` (`TradeAsShown`) needs a second invariant on top of it, `Goods` (`GoodsStaySound`):
an item's number tells its kind (`Named`; the guest names an item by its number, and a new one gets
a number no item has, `FreshIsFresh`), every number of pieces and every price is a number (`Counted`,
`Priced`), purses keep within their limit (`Purses`), and a request still holds what its player was shown
when it asked (`Fairly`): the price, a number of pieces, an item of that number and kind, and, for a
sale, the very item in the cell. What a player holds of a kind is a sum over its cells and the insertions under
way. It is stated as the number of its pieces (`Pieces`), the cardinality of a set of pairs, so
that it is a finite set's and not a recursive sum's: `OneCell` takes one cell off, `CellChanged` and
`OneMoreComing` say what one changed cell or one more insertion does, and each purchase and sale gives
(`Gives`) a whole item or a part from one cell of one player to one cell of another (`GivesHeld`). `Paid` is the
saturating `AddMoney` of `SetMoney`: a purse that had no room for the price becomes full,
which only a purchase of several can bring about, since `CanBuyItem` asks for room for the price of one.

**LoginProofs.** `AttemptsStayInOrder` is the inductive invariant: a session has at most one of a
query, an answer, a notice and a reply under way (`OneAttempt`, `OneNotice`), and the stage says how far
its connection and its USERINFO are and who has the duty to log the account out (`Staged`); a message
that frees a USERINFO names a session whose connection has broken. `SomebodyStaysResponsible` follows;
it holds whatever blocks are handed out again, and its one exception is `lost`.
`OwnersStaySound` rests on a second invariant, one agent at a time (`Agree`): as long as nothing that is
still named has been handed out again, the account's USERINFO is in use and known to both tables, an entry
of `g_pUserTable` is its connection's own or freed, and a freed block holds no account.
`FreedOnlyByItsOwn` follows from both: who frees a USERINFO under its connection is a broken log-in.

**ArrivalProofs.** `CharacterHasOneSeat` is the inductive invariant `IInv`: while nobody hurries, (1) at most
one request to leave a map is under way, at one of nine stages from the agent's message to the map
server's answer; (2) the character is coming, present or on its way out; (3) the agent's `at`, the
messages, the player and the saves are all at one map, its *seat*; (4) the database has the character there,
or the change of map that is under way ends with the map the save says, which is carried out
before the query of MAP_OUT (`PointLast`); (5) the client asks only when nothing is under way;
(6) a player or GAMEIN_SYN with another session than the agent's has behind it, in the same
queue, the message that removes it. `OneMapHolds` is (3), `PlayersStaySound` is (6).
Neither is inductive alone: that the next map reads what the last one saved needs the order of the two
queries, and the order of the messages to a map server is what catches a player who comes too late.

**DBThreadProofs.** `NoWakeupLost`; `BlocksInOnePlace`, `RowsAreAccounted` and
`ReplyBlockIsFound` by counting, on lemmas about how many elements of a list belong to a set
(`CountAppend`, `CountTail`, …): the pool of answers is as large as the pool of queries and an
answer's block is given back after its query's, so the count is needed, not the order;
`ClosedWhenQuiet`; `TypeCorrect`; and `ConnectionIsQueue`, the safety part of the refinement:
every step of the two threads is a step of `DBQueue` or leaves it unchanged.

**DataBaseProofs.** A query is the number its source has given it. `QueriesAreLocated`: the backlog, the
two sequences of each connection, the batch of answers and the handler hold exactly the queries that
have not been handled, each once; `QueriesStaySound` and `NothingIsLost` follow. `LinesStaySorted`: the
queries that keep their order follow one line each (a keyed source's straight to its connection, a
login or log source's through the backlog), and each line is sorted from its tail to the database, whence
`QueriesStayInOrder`. `ConnectionsStayQueues`: every step of the dispatcher is, for each connection, a step
of `DBQueue` or a stutter. Together with `ConnectionIsQueue` of `DBThreadProofs` this closes the
chain from `CDataBase` to the two threads of a connection.

**SwitchQueProofs.** The invariant has four layers. `Types` adds that a worker past the port has
a job of a connection. `Writing`: a slot that is being copied is in the writable queue, its worker
is at the copy, and a worker at the copy is in a section the switch thread has not entered; when
it has entered all of them nobody copies (`WritesWritableOnly`). `Turns`: until the workers have
ended, the turn is in `g_hEventMsg`, with the main thread or in `g_hProcessComplete`, at one place
exactly while the switch thread waits and nowhere otherwise, and the readable queue is empty
unless it has been handed over (`QueuesHandedOverWhole`). After the workers have ended the turns
are broken (section 6), but nobody copies any more: `BatchIsWhole` and `ClearsWhatIsRead` hold
then too, and are proved for the whole life of the network.
`FlowStaysInOrder` needs `Flowing`: what a connection has had handled, followed by what of it is
in the batch and then in the queue behind it, is in the order of arrival and goes up to `LastPut`, discarded
messages counted. `Reads` (one job at most has a connection's reading turn) and `Lined` (between two
batches the writable queue is behind the readable one) are what keeps each insertion at the end.

**ConnectionsProofs.** `ResourcesStaySound`, `MessagesStayWithTheirOwn`, `OpenIsHeard`. The invariant
`Sound` says of each `CPreConnect`, worker and packet which index, `CConnection` and socket it may hold,
beside the parts of `ResourcesSound`. That no message reaches a stranger needs a history: until an index
is used again, the unused ones stand in front, and what is under way from a closed connection names
an index that is not in use (`FirstUse`). A connection is heard because
something for its socket is always under way: a read, a packet, a worker, a DISCONNECT in the
queue or in the batch; each of the steps passes it on, but for `Ignore`, which puts the socket into `failed`.
`ChainStaysSound` and `SendsAsThePipe` are about the sending side of one connection: its chain of objects is
sound, and every step of `SendQueue` is one of `SendPipe` or none. What a chain holds is a recursive
function, `Contents`; what the proof needs of it is found by climbing the objects one by one (`Unrolled`,
`Growing`, `Extended`, `Divided`, `Shortened`). A handle is well made (`GoodHandle`, `Filling`) when the
objects before `m_pMemObjWrite` are full, those after it fresh, only the first one read in part, and
none is empty unless all are. `Pushed` says that a push for which there is room appends its bytes, `Written` that a
completion takes exactly the bytes sent from its head, and `ObjectsTaken` that the objects of one transfer
have room in the WSABUFs, because those after the first are full. The invariant, `Sending`, adds that what is in
flight is the head of the chain, that what a completion not yet dealt with sent is so too, and that in
`IO_TYPE_WAIT` there is neither. It holds with `MayBlock` and without.

**Model-checked only.** Everything under fairness (`CloseReturns`, the liveness of
`ImplementsQueue` and `IsPipe`, `BrokenIsClosed`, `ReleasedAtLast`, `InsistingHelps`, `AnsweredAtLast`, `LoggedOutAtLast`, `EveryQueryHandled`, `ReceivedIsHandled`, `MainThreadEnds`): liveness and ENABLED are out of the
prover's reach. What a run cannot show, the proofs add: any number of players, sessions, maps,
connections and blocks; the bounds on counters and queues (`MaxSession`, `MaxQueue` and their like) are
constants of every value.

## 6. Findings

Three places where the code does not do what the repository says of it, each with a run:

1. **A consigned cell is unlocked by a trade** (`consign_item`). After `DoExchange` the room's `Exit`
   clears locks by the positions the items have got in the *other* inventory. A cell of this player
   with that number, locked by a consignment that waits for the database, becomes movable; when the
   answer arrives the handler empties the wrong cell.
2. **The thread of a backlogged query** (`database_thread`). `ProcessingQueue` forgets the index that,
   says the comment, determines the thread; two queries of one character are carried out by two
   threads in either order.
3. **The LoginCheck is not exact** (`login_exact`), although the comment calls it all there is to rely
   on: UP_GAMELOGOUT names the account and not the session, and the one that is under way from a
   log-in that was broken off logs out the next one.
Remarks without a run, since nothing in the repository promises the contrary, or since a run would
only repeat the line. TLC shows the first group when a parameter or a property is changed as said.

- *Log-in.* A failed file check returns after the database has logged the account in
  (`DistributeDBMsgParser.cpp:295`), and nobody is responsible for it any more: `SomebodyResponsible` and
  `InsistingHelps` except it (`lost`). The break of a log-in frees the account's USERINFO at the agent with
  nothing but the authkey to go by (`AgentNetworkMsgParser.cpp:778`), also when the client of that log-in has
  arrived there and has its list of characters. Its connection goes on naming the freed block, against the
  assertion at 880; the pool may hand the block to somebody else, whom the old connection then logs out and
  frees when it ends (`UserTable.cpp:125`): `FreedByItsOwn` fails without its exception for `reused`. An agent's USERINFO whose client never comes stays there (`Stranded`).
  `UserConn_Characterlist_Syn` frees the connection's first USERINFO without a memset; after a block has been
  handed out again, what it still holds may leave an account at the agent for good, so that `ReleasedAtLast`
  claims nothing then (`reused`).
- *Arrival of a session in a hurry* (without `~hurried`). MAP_OUT and BACKTOCHARSEL_ACK name the
  character only (`AgentNetworkMsgParser.cpp:1528`): an answer to the last session moves or deselects
  the next one's character, and its player is on a map without a session. A GAMEIN_NACK for the last
  session removes the new one's player (`MapNetworkMsgParser.cpp:826`), whose client then waits for
  ever. UserConn_Disconnected answers LOGINCHECK_DELETE at once when the player has just been removed by a
  change of map whose save is still queued (`:863`): the next session may be sent to the old map.
- *The account number 0.* A player whose data are not loaded has none; its LOGINCHECK_DELETE is ignored
  (`AgentNetworkMsgParser.cpp:1784`) and the account stays logged in. `Named` leaves this case out.
- *Reading.* The head of `cpio.cpp` says that every disconnect is checked for there (4). A read that fails with
  another error than ERROR_NETNAME_DELETED is dropped (138): the connection has no read and no DISCONNECT,
  and stays open. `NeverDeaf` and `BrokenIsClosed` fail without their exception for `failed`.
- *Sending.* After WSAEWOULDBLOCK nobody sends again (`overlapped_send.cpp:178`): `IsPipe` fails with
  `MayBlock = TRUE`.
- *Indices.* A socket for which none is free is forgotten and not closed (`pre_connect.cpp:165`,
  `NoIndexLeft`). Once an index comes round, a message or second DISCONNECT of the old connection is
  taken for the new one's (`cpio.cpp:427`): `MessagesReachTheirOwn` fails without its bound.
- *Queues.* A full one discards, a DISCONNECT too (`que.cpp:118`); `EndMainThread` resumes a main thread
  that has not been halted, and the queues change during a batch (`mainthread.cpp:153`; no half-written
  message is read and nothing unread is wiped even so, `BatchSound`); `DestroyNetwork` may wait for
  ever for the switch thread, which waits for a second answer of a main thread that has ended
  (`switch_que.cpp:57`; `MainThreadEnds` covers the way up to there).
- *Game.* `StartObjectState` is called over another activity by MP_NPC_SPEECH_SYN
  (`ObjectStateManager.cpp:43`); the deposit of a consignment is checked before the query and taken after
  the answer, from a purse that refuses silently (`MapDBMsgParser.cpp:8716`).

- *Street stall.* (a) The registration of what a stall wants to buy that arrives after the stall is gone, its
  owner having died meanwhile, goes to BUYITEMREGISTFAILEX with `pInfo` NULL and reads `pInfo->bFill`
  (`StreetStallManager.cpp:1623`): the map server goes down (`RegistBuyCrashes`, `up`). The comment at line
  1312 describes the like for LOCKITEM, where it has been repaired. (b) A GUESTIN that is handled when
  the player is dead makes it a guest without the state of one: after its revival it may enter another
  stall (the assertion at 1866 fails), but GUESTOUT is refused (1929). (c) An OPEN that is handled
  then gives a stall to a player in the state None, who may visit another's; `UserLogOut` then looks at
  the visited stall only (148) and leaves its own in the table with an owner that is freed, and whose
  guests cannot leave. `GuestsSound` therefore speaks of owners who are online. (d) The owner's purse is
  asked to hold the price of one piece (2124); money earned since the registration makes the sale of
  several be cut at the limit (`n > 1` in `Exchanged`). (e) The total of a stall that buys is not reduced
  by the sale of a part, so that a registration may be refused that would fit (174, 1541).

## 7. Abstractions

Messages are numbers on a connection, queries a source and a number, items model values. Distances,
levels, permissions of the operator, wording and logging are left out or a free choice. The numbers of
the code that the properties tell apart keep their limits (the purse, the pools, the size of a queue).
Windows' auto-reset events are Booleans that the wait resets; a wait for several takes the first in the
array, as the system does. Memory exhaustion is not modelled.

`MayBlock` is FALSE in the run: section 6 says what happens otherwise. In `Login` the map server is the delay between DISCONNECTED and its answer; in
`Arrival` an account is logged in or not, a session begins only when it is not, and the dozen queries
of a loading player are the one that says whose character it is and the rest. Messages between two
servers keep their order, as their one connection does, and so do the queries of one server for one
character (finding 2 is left aside). The servers themselves do not crash, and those of `Login` and `Arrival` do not go away: left out are the
restart of an agent or a map server with the messages that announce it (UP_AGENT_DOWN,
`MornitorMapServer_Disconnect_AllUser_Syn`), and with it `MapOut` for a map that has no port
(`AgentNetworkMsgParser.cpp:1506`). In `Login` a connection's index is not used again and
`g_pUserTableForObjectID`, which only the map server's messages go by, is left out. Three branches of it are in
the module for completeness and are not reached: `AlreadyOut` finds nothing to free (the break before it has),
a client comes to an agent only after that agent, being ready, has acknowledged its log-in, and a connection
that is there has an entry.
In `Arrival` the character is not deleted while it is in the game, so that its load has a row
(`MapDBMsgParser.cpp:1706`); a change of map goes to a map there is (the agent's and the map server's silent
returns without one, `MapNetworkMsgParser.cpp:444`, are left out), by foot: the refusals of the shop item and
of the devil market (961) are taken by the client as CHANGEMAP_NACK is, which is the one the model has.
A pet that kills is taken to have lost its owner at any time (`DieByPet`): CPlayer::DoDie then returns before
it ends a trade or a stall (`Player.cpp:2302`); usually `CPlayer::Release` takes the pet away first.

## 8. Plan

1. `Arrival` with the maps that have rules of their own (dungeon, housing, date zone), where
   `bUpdateLogPos` is FALSE and the order of `BackToCharSel`'s queries begins to matter.
2. The shop, on the inventory of `StreetStall`.
3. `Party` (agents and maps), `LootingRoom`, `GuildWarehouse`, the phases of `GuildTournament`.

## 9. Not modelled, and why

The client, the engine and the tools (display and input; what a client can send is in the guards of the
handlers); `[Lib]BaseNetwork`, the client's network library, the same double buffer for one connection;
quests, whose behaviour is in script files; monsters, skills, combat and geometry, arithmetic over tables
where a step does not meet another; the many independent activities (pets, housing, cooking, fishing,
farm, family, dates) that have the shape check-query-answer of those modelled; encryption; ODBC and
stored procedures, which are outside the repository; timers and user events of 4DyuchiNET and
`BreakMainThread`, which no server calls.
