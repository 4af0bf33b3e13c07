------------------------------ MODULE DataBase ------------------------------
(***************************************************************************)
(* CDataBase, the server's side of the database: which connection a query  *)
(* is given to, and the backlog m_QueryQueue of the queries whose          *)
(* connection had no block left.  A connection does what DBQueue says and  *)
(* DBThread implements: here it is its pending queries and its answers,    *)
(* with room for Capacity queries in all.                                  *)
(*                                                                         *)
(* Everything but the connections runs in the main thread of the server.   *)
(* `executed' is a history variable: the order in which the database has   *)
(* seen the queries of each source.                                        *)
(***************************************************************************)
EXTENDS Integers, Sequences, FiniteSets

CONSTANTS Source,        \* who sends queries: a character, a system of the game
          Kind,          \* the dbcontype of the queries of each source
          Index,         \* their index, the number of a character or 0
          NumThreads,    \* m_MaxDBThreadNum
          Capacity,      \* m_SameTimeQueryPerThread
          NoQuery,       \* NULL
          Limit          \* bound: how many queries each source sends

ASSUME DataBaseAssumption ==
  /\ Kind \in [Source -> {"ADMIN", "LOGIN", "LOG"}]
  /\ Index \in [Source -> Nat]
  /\ NoQuery \notin [src : Source, n : Nat, direct : BOOLEAN]
  /\ NumThreads \in Nat \ {0} /\ Capacity \in Nat \ {0} /\ Limit \in [Source -> Nat]

Thread  == 0..(NumThreads - 1)   \* m_pDB
LoginDB == NumThreads            \* m_pLoginDB
LogDB   == NumThreads + 1        \* m_pLogDB
Conn    == 0..LogDB

VARIABLES issued,    \* how many queries each source has sent
          backlog,   \* m_QueryQueue
          cur,       \* m_curDBNum
          pending,   \* the queries each connection has not carried out
          answers,   \* the answers each connection has ready
          mainPc, at, batch, handling,
                     \* where the main thread is in a pass of ProcessingDBMessage,
                     \* the connection it visits, the answers found there and the
                     \* one whose handler runs
          releasing, \* CDataBase::Release has been called
          executed,  \* history
          handled    \* the queries whose handler has returned

vars == <<issued, backlog, cur, pending, answers, mainPc, at, batch, handling,
          releasing, executed, handled>>

Query == [src : Source, n : Nat, direct : BOOLEAN]

Init == /\ issued = [s \in Source |-> 0]
        /\ backlog = <<>> /\ cur = 0
        /\ pending = [c \in Conn |-> <<>>] /\ answers = [c \in Conn |-> <<>>]
        /\ mainPc = "game" /\ at = 0 /\ batch = <<>> /\ handling = NoQuery
        /\ releasing = FALSE
        /\ executed = [s \in Source |-> <<>>] /\ handled = {}

-----------------------------------------------------------------------------
\* The blocks of connection c that are in use.
Used(c) ==
  Len(pending[c]) + Len(answers[c])
    + (IF c = at THEN Len(batch) + (IF handling = NoQuery THEN 0 ELSE 1) ELSE 0)

HasRoom(c) == Used(c) < Capacity

\* GetCurDB: index 0 stands for "the next one".
GetCurDB(index) == IF index = 0 THEN (cur + 1) % NumThreads ELSE index % NumThreads

\* The connection of a query of source s.
ConnOf(s, index) ==
  CASE Kind[s] = "ADMIN" -> GetCurDB(index)
    [] Kind[s] = "LOGIN" -> LoginDB
    [] Kind[s] = "LOG"   -> LogDB

\* GetCurDB moves m_curDBNum whether or not the query is taken.
NextCur(s, c) == IF Kind[s] = "ADMIN" THEN c ELSE cur

\* Faulty: it is put before the older ones.
KeepAtHead(q) == <<q>> \o backlog

\* AddQueryQueue keeps the query when DBTH::Query refuses it.
Keep(q) == Append(backlog, q)

\* Query, FreeQuery, LoginQuery, LogQuery ... with AddQueryQueue.  It may be
\* called from the game, until Release, and from the handler of an answer.
AddQueryQueue(s) ==
  LET c == ConnOf(s, Index[s])
      q == [src |-> s, n |-> issued[s] + 1, direct |-> HasRoom(c)]
  IN /\ (mainPc = "game" /\ ~releasing) \/ handling # NoQuery
     /\ issued[s] < Limit[s]
     /\ issued' = [issued EXCEPT ![s] = @ + 1]
     /\ cur' = NextCur(s, c)
     /\ IF HasRoom(c)
          THEN pending' = [pending EXCEPT ![c] = Append(@, q)] /\ UNCHANGED backlog
          ELSE backlog' = Keep(q) /\ UNCHANGED pending
     /\ UNCHANGED <<answers, mainPc, at, batch, handling, releasing, executed, handled>>

-----------------------------------------------------------------------------
(* A pass of ProcessingDBMessage: connection after connection, then        *)
(* ProcessingQueue.  Release begins its passes with ProcessingQueue too.   *)

BeginPass ==
  /\ mainPc = "game"
  /\ mainPc' = IF releasing THEN "drain" ELSE "visit"
  /\ at' = 0
  /\ UNCHANGED <<issued, backlog, cur, pending, answers, batch, handling, releasing,
                 executed, handled>>

\* Faulty: the answers are read but stay where they are.
VisitCopying ==
  /\ mainPc = "visit"
  /\ batch' = answers[at]
  /\ mainPc' = "collect"
  /\ UNCHANGED <<issued, backlog, cur, pending, answers, at, handling, releasing, executed,
                 handled>>

\* CDB::ProcessingDBMessage of the next connection: the answers it has now.
Visit ==
  /\ mainPc = "visit"
  /\ batch' = answers[at]
  /\ answers' = [answers EXCEPT ![at] = <<>>]
  /\ mainPc' = "collect"
  /\ UNCHANGED <<issued, backlog, cur, pending, at, handling, releasing, executed, handled>>

BeginHandler ==
  /\ mainPc = "collect" /\ handling = NoQuery /\ batch # <<>>
  /\ handling' = Head(batch)
  /\ batch' = Tail(batch)
  /\ UNCHANGED <<issued, backlog, cur, pending, answers, mainPc, at, releasing,
                 executed, handled>>

\* The handler returns and DeletePointer frees the block.
EndHandler ==
  /\ handling # NoQuery
  /\ handled' = handled \cup {[src |-> handling.src, n |-> handling.n]}
  /\ handling' = NoQuery
  /\ UNCHANGED <<issued, backlog, cur, pending, answers, mainPc, at, batch, releasing,
                 executed>>

\* Faulty: the last connection is not visited.
NextVisitShort ==
  /\ mainPc = "collect" /\ handling = NoQuery /\ batch = <<>>
  /\ IF at = LoginDB THEN mainPc' = "backlog" /\ at' = 0
                     ELSE mainPc' = "visit" /\ at' = at + 1
  /\ UNCHANGED <<issued, backlog, cur, pending, answers, batch, handling, releasing,
                 executed, handled>>

NextVisit ==
  /\ mainPc = "collect" /\ handling = NoQuery /\ batch = <<>>
  /\ IF at = LogDB THEN mainPc' = "backlog" /\ at' = 0
                   ELSE mainPc' = "visit" /\ at' = at + 1
  /\ UNCHANGED <<issued, backlog, cur, pending, answers, batch, handling, releasing,
                 executed, handled>>

\* ProcessingQueue asks for the connection of the oldest query without its index.
BacklogConn == ConnOf(Head(backlog).src, 0)

\* Faulty: it stays in the backlog.
SendBacklogKeeping ==
  /\ mainPc \in {"backlog", "drain"} /\ backlog # <<>>
  /\ HasRoom(BacklogConn)
  /\ cur' = NextCur(Head(backlog).src, BacklogConn)
  /\ pending' = [pending EXCEPT ![BacklogConn] = Append(@, Head(backlog))]
  /\ UNCHANGED <<issued, backlog, answers, mainPc, at, batch, handling, releasing,
                 executed, handled>>

\* ProcessingQueue: the oldest query of the backlog is sent ...
SendBacklog ==
  /\ mainPc \in {"backlog", "drain"} /\ backlog # <<>>
  /\ HasRoom(BacklogConn)
  /\ cur' = NextCur(Head(backlog).src, BacklogConn)
  /\ pending' = [pending EXCEPT ![BacklogConn] = Append(@, Head(backlog))]
  /\ backlog' = Tail(backlog)
  /\ UNCHANGED <<issued, answers, mainPc, at, batch, handling, releasing, executed, handled>>

\* ... until its connection is full: the rest waits behind it ...
BacklogBlocked ==
  /\ mainPc \in {"backlog", "drain"} /\ backlog # <<>>
  /\ ~HasRoom(BacklogConn)
  /\ cur' = NextCur(Head(backlog).src, BacklogConn)
  /\ mainPc' = IF mainPc = "drain" THEN "visit" ELSE "game"
  /\ UNCHANGED <<issued, backlog, pending, answers, at, batch, handling, releasing,
                 executed, handled>>

\* ... or until there is none.
BacklogEmpty ==
  /\ mainPc \in {"backlog", "drain"} /\ backlog = <<>>
  /\ mainPc' = IF mainPc = "drain" THEN "visit" ELSE "game"
  /\ UNCHANGED <<issued, backlog, cur, pending, answers, at, batch, handling, releasing,
                 executed, handled>>

-----------------------------------------------------------------------------
\* A connection carries out its oldest query (DBThread).
Execute(c) ==
  LET q == Head(pending[c])
  IN /\ pending[c] # <<>>
     /\ pending' = [pending EXCEPT ![c] = Tail(@)]
     /\ answers' = [answers EXCEPT ![c] = Append(@, q)]
     /\ executed' = [executed EXCEPT ![q.src] =
                       Append(@, [n |-> q.n, direct |-> q.direct, conn |-> c])]
     /\ UNCHANGED <<issued, backlog, cur, mainPc, at, batch, handling, releasing, handled>>

Release ==
  /\ mainPc = "game" /\ ~releasing
  /\ releasing' = TRUE
  /\ UNCHANGED <<issued, backlog, cur, pending, answers, mainPc, at, batch, handling,
                 executed, handled>>

\* Faulty: the login and the log connection are forgotten.
ThreadsCleared == backlog = <<>> /\ \A c \in Thread : Used(c) = 0

AllCleared == backlog = <<>> /\ \A c \in Conn : Used(c) = 0

\* The connections are closed and m_pDB is NULL.
EndRelease ==
  /\ mainPc = "game" /\ releasing
  /\ AllCleared
  /\ mainPc' = "released"
  /\ UNCHANGED <<issued, backlog, cur, pending, answers, at, batch, handling, releasing,
                 executed, handled>>

Pass == BeginPass \/ Visit \/ BeginHandler \/ EndHandler \/ NextVisit
        \/ SendBacklog \/ BacklogBlocked \/ BacklogEmpty \/ EndRelease

Next == \/ \E s \in Source : AddQueryQueue(s)
        \/ Pass
        \/ \E c \in Conn : Execute(c)
        \/ Release

\* The main thread makes a pass at every tick, and each connection works.
Fairness == WF_vars(Pass) /\ \A c \in Conn : WF_vars(Execute(c))

Spec == Init /\ [][Next]_vars /\ Fairness

-----------------------------------------------------------------------------
TypeOK ==
  /\ \A s \in Source : issued[s] \in 0..Limit[s]
  /\ backlog \in Seq(Query) /\ cur \in Thread
  /\ pending \in [Conn -> Seq(Query)] /\ answers \in [Conn -> Seq(Query)]
  /\ mainPc \in {"game", "visit", "collect", "backlog", "drain", "released"}
  /\ at \in Conn /\ batch \in Seq(Query) /\ handling \in Query \cup {NoQuery}
  /\ releasing \in BOOLEAN
  /\ \A s \in Source : executed[s] \in Seq([n : Nat, direct : BOOLEAN, conn : Conn])
  /\ handled \subseteq [src : Source, n : Nat]

\* What connection c looks like to those who wrote DBQueue for it.
AllQueries == UNION {[src : {s}, n : 1..Limit[s], direct : BOOLEAN] : s \in Source}
Ready(c)   == IF c = at THEN batch \o answers[c] ELSE answers[c]
Running(c) == IF c = at THEN handling ELSE NoQuery
Unused(c)  == {q \in AllQueries :
                 /\ q # Running(c)
                 /\ \A i \in DOMAIN pending[c] : pending[c][i] # q
                 /\ \A i \in DOMAIN Ready(c) : Ready(c)[i] # q}

Connection(c) == INSTANCE DBQueue
  WITH Message <- AllQueries, NoMessage <- NoQuery, free <- Unused(c), pending <- pending[c],
       answers <- Ready(c), handling <- Running(c), open <- mainPc # "released"

\* Every connection is used, and behaves, as DBQueue says: what DBThread is shown
\* to implement is what CDataBase relies on.
ConnectionsAreQueues ==
  /\ \A c \in Conn : Connection(c)!Init
  /\ [][\A c \in Conn : Connection(c)!Next \/ UNCHANGED Connection(c)!vars]_vars

\* Where query n of source s is.
InList(list, s, n) == {i \in DOMAIN list : list[i].src = s /\ list[i].n = n}

Places(s, n) ==
  ({"backlog"} \X InList(backlog, s, n)) \cup ({"batch"} \X InList(batch, s, n))
    \cup (UNION {{"pending"} \X {c} \X InList(pending[c], s, n) : c \in Conn})
    \cup (UNION {{"answered"} \X {c} \X InList(answers[c], s, n) : c \in Conn})
    \cup (IF handling # NoQuery /\ handling.src = s /\ handling.n = n THEN {<<"handling">>} ELSE {})
    \cup (IF [src |-> s, n |-> n] \in handled THEN {<<"handled">>} ELSE {})

\* Whatever was sent is at every moment in exactly one place, the backlog, one
\* connection or the hands of its handler, until it has been handled.
QueryInOnePlace ==
  \A s \in Source : \A n \in 1..issued[s] : Cardinality(Places(s, n)) = 1

\* The same with the types of everything that holds a query.
QueriesSound == TypeOK /\ QueryInOnePlace

\* The sources whose queries always ask for the same connection.
Keyed == {s \in Source : Kind[s] # "ADMIN" \/ Index[s] # 0}

\* The queries a keyed source gets straight to its connection are carried out in
\* the order it sent them, however they interleave with the others.
DirectInOrder ==
  \A s \in Keyed : \A i, j \in DOMAIN executed[s] :
    i < j /\ executed[s][i].direct /\ executed[s][j].direct
      => executed[s][i].n < executed[s][j].n

\* So are those of a login or log source that went through the backlog.
BackloggedInOrder ==
  \A s \in Source : Kind[s] # "ADMIN" => \A i, j \in DOMAIN executed[s] :
    i < j /\ ~executed[s][i].direct /\ ~executed[s][j].direct
      => executed[s][i].n < executed[s][j].n

\* What order there is: among the direct ones, and among those from the backlog.
QueriesInOrder == DirectInOrder /\ BackloggedInOrder

\* A server that goes down takes no query with it.
NothingLostAtRelease ==
  mainPc = "released" => \A s \in Source : \A n \in 1..issued[s] :
    [src |-> s, n |-> n] \in handled

\* Every query is answered in the end.
EveryQueryHandled ==
  \A s \in Source : \A n \in 1..Limit[s] :
    (issued[s] >= n) ~> ([src |-> s, n |-> n] \in handled)

\* "The thread is determined by the argument": the queries of one character all
\* go to one connection, which keeps them in order.
ThreadByArgument ==
  \A s \in Source : Kind[s] = "ADMIN" /\ Index[s] # 0 =>
    \A i \in DOMAIN executed[s] : executed[s][i].conn = Index[s] % NumThreads
=============================================================================
