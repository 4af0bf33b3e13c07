------------------------------ MODULE DBThread ------------------------------
(***************************************************************************)
(* One database connection of a server: the class CDB with its worker      *)
(* thread DBThread, and the server's main thread, which hands queries over *)
(* (DBTH::Query, SendMessageDB), collects the answers each tick            *)
(* (ProcessingDBMessage, ReadDBResultMessage) and closes the connection    *)
(* (CloseDBThread).                                                        *)
(*                                                                         *)
(* The two threads share a pair of lists in each direction.  One list of a *)
(* pair is added to under a lock; the other is taken from without it, by   *)
(* one thread only; under the lock that thread swaps the two.  Each        *)
(* critical section and each system call is one action.                    *)
(*                                                                         *)
(* Queries are of the kinds the servers send (bFNNo above 100), whose      *)
(* answer always comes back.  A query takes one block of m_pDBStackMemory  *)
(* and one of m_pDBMessageMemory, two pools of the same size that only the *)
(* main thread touches: they are modelled as one.  m_hResultMessageEvent   *)
(* is left out, no thread waits for it.                                    *)
(*                                                                         *)
(* An operator whose comment begins with "Faulty" is a variant of the one  *)
(* after it that no action uses.                                           *)
(***************************************************************************)
EXTENDS Integers, Sequences, FiniteSets

CONSTANTS Message,      \* the blocks of m_pDBMessageMemory
          NoMessage,    \* NULL
          NumResults    \* dwNumofResult, the blocks of m_pResultMemory

ASSUME DBAssumption ==
  /\ IsFiniteSet(Message)
  /\ NoMessage \notin Message
  /\ NumResults \in Nat

VARIABLES freeMsg,      \* m_pDBMessageMemory: the blocks that are not in use
          freeReply,    \* m_pDBMessageResultMemory: how many are not in use
          freeResult,   \* m_pResultMemory: how many are not in use
          addList, popList,       \* m_pDBProcess1 and 2: queries
          resultAdd, resultPop,   \* m_pDBResultMessage1 and 2: answers
          dbEvent,      \* m_hDBEvent is signalled
          killEvent,    \* m_hKillDBEvent is signalled
          killReturn,   \* m_hKillReturnEvent is signalled
          dbPc, executing, rows,  \* where DBThread is, its lpSend and pRet
          mainPc, handling,       \* where the main thread is, its lpBuffer
          signal        \* the main thread is about to set m_hDBEvent

dbVars   == <<dbPc, executing, rows>>
mainVars == <<mainPc, handling, signal>>
pools    == <<freeMsg, freeReply, freeResult>>
lists    == <<addList, popList, resultAdd, resultPop>>
events   == <<dbEvent, killEvent, killReturn>>
vars     == <<dbVars, mainVars, pools, lists, events>>

NumMessages == Cardinality(Message)

\* An answer: the message, and whether it brings a block of m_pResultMemory.
Reply   == [msg : Message, rows : BOOLEAN]
NoReply == [msg |-> NoMessage, rows |-> FALSE]

DBPc   == {"wait", "switch", "take", "execute", "alloc", "post", "killed", "ended", "crashed"}
MainPc == {"game", "take", "handle", "free", "closing", "closed"}

Init == /\ freeMsg = Message /\ freeReply = NumMessages /\ freeResult = NumResults
        /\ addList = <<>> /\ popList = <<>>
        /\ resultAdd = <<>> /\ resultPop = <<>>
        /\ dbEvent = FALSE /\ killEvent = FALSE /\ killReturn = FALSE
        /\ dbPc = "wait" /\ executing = NoMessage /\ rows = FALSE
        /\ mainPc = "game" /\ handling = NoReply /\ signal = FALSE

-----------------------------------------------------------------------------
(* The main thread hands a query over, from the game or from a handler.    *)

\* Faulty: the query forgets to wake the worker.
QueryWithoutSignal(m) ==
  /\ mainPc \in {"game", "handle"} /\ ~signal
  /\ m \in freeMsg
  /\ freeMsg' = freeMsg \ {m}
  /\ addList' = Append(addList, m)
  /\ UNCHANGED <<signal, dbVars, mainPc, handling, freeReply, freeResult>>
  /\ UNCHANGED <<popList, resultAdd, resultPop, events>>

\* DBTH::Query, and SendMessageDB up to the end of its critical section.
Query(m) ==
  /\ mainPc \in {"game", "handle"} /\ ~signal
  /\ m \in freeMsg
  /\ freeMsg' = freeMsg \ {m}
  /\ addList' = Append(addList, m)
  /\ signal' = TRUE
  /\ UNCHANGED <<dbVars, mainPc, handling, freeReply, freeResult>>
  /\ UNCHANGED <<popList, resultAdd, resultPop, events>>

\* The SetEvent that ends SendMessageDB.
SignalDB ==
  /\ signal
  /\ signal' = FALSE
  /\ dbEvent' = TRUE
  /\ UNCHANGED <<dbVars, mainPc, handling, pools, lists, killEvent, killReturn>>

-----------------------------------------------------------------------------
(* The main thread collects the answers: ProcessingDBMessage.              *)

ProcessBegin ==
  /\ mainPc = "game" /\ ~signal
  /\ resultAdd' = resultPop /\ resultPop' = resultAdd
  /\ mainPc' = "take"
  /\ UNCHANGED <<dbVars, handling, signal, pools, addList, popList, events>>

\* The handler of the answer begins.
TakeReply ==
  /\ mainPc = "take" /\ resultPop # <<>>
  /\ handling' = Head(resultPop)
  /\ resultPop' = Tail(resultPop)
  /\ mainPc' = "handle"
  /\ UNCHANGED <<dbVars, signal, pools, addList, popList, resultAdd, events>>

\* The end of ReadDBResultMessage, DeletePointer: the rows and the blocks of the
\* query are given back.
DeletePointer ==
  /\ mainPc = "handle" /\ ~signal
  /\ freeResult' = IF handling.rows THEN freeResult + 1 ELSE freeResult
  /\ freeMsg' = freeMsg \cup {handling.msg}
  /\ mainPc' = "free"
  /\ UNCHANGED <<dbVars, handling, signal, freeReply, lists, events>>

\* Only then the block of the answer.
FreeReply ==
  /\ mainPc = "free"
  /\ freeReply' = freeReply + 1
  /\ handling' = NoReply
  /\ mainPc' = "take"
  /\ UNCHANGED <<dbVars, signal, freeMsg, freeResult, lists, events>>

\* The second critical section: what has come in the meantime is swapped in,
\* found, and swapped back for the next tick.
ProcessEnd ==
  /\ mainPc = "take" /\ resultPop = <<>>
  /\ mainPc' = "game"
  /\ IF resultAdd # <<>> THEN UNCHANGED <<resultAdd, resultPop>>
                         ELSE resultAdd' = resultPop /\ resultPop' = resultAdd
  /\ UNCHANGED <<dbVars, handling, signal, pools, addList, popList, events>>

-----------------------------------------------------------------------------
(* The worker.                                                             *)

\* WaitForMultipleObjects returns the first of {m_hDBEvent, m_hKillDBEvent}
\* that is signalled and resets it.
Wake ==
  /\ dbPc = "wait" /\ dbEvent
  /\ dbEvent' = FALSE
  /\ dbPc' = "switch"
  /\ UNCHANGED <<executing, rows, mainVars, pools, lists, killEvent, killReturn>>

WakeToEnd ==
  /\ dbPc = "wait" /\ ~dbEvent /\ killEvent
  /\ killEvent' = FALSE
  /\ dbPc' = "killed"
  /\ UNCHANGED <<executing, rows, mainVars, pools, lists, dbEvent, killReturn>>

Switch ==
  /\ dbPc = "switch"
  /\ addList' = popList /\ popList' = addList
  /\ dbPc' = "take"
  /\ UNCHANGED <<executing, rows, mainVars, pools, resultAdd, resultPop, events>>

\* Faulty: the query stays in the list while it is carried out.
TakeKeeping ==
  /\ dbPc = "take" /\ popList # <<>>
  /\ executing' = Head(popList)
  /\ dbPc' = "execute"
  /\ UNCHANGED <<rows, mainVars, pools, lists, events>>

Take ==
  /\ dbPc = "take" /\ popList # <<>>
  /\ executing' = Head(popList)
  /\ popList' = Tail(popList)
  /\ dbPc' = "execute"
  /\ UNCHANGED <<rows, mainVars, pools, addList, resultAdd, resultPop, events>>

\* ExcuteThreadFN: the statement is carried out; if it selects anything a block
\* of m_pResultMemory is taken for the rows.  With none left, or with no rows,
\* or with an error, the answer is NULL.
Execute(selects) ==
  /\ dbPc = "execute"
  /\ rows' = (selects /\ freeResult > 0)
  /\ freeResult' = IF rows' THEN freeResult - 1 ELSE freeResult
  /\ dbPc' = "alloc"
  /\ UNCHANGED <<executing, mainVars, freeMsg, freeReply, lists, events>>

\* DispatchDBMessage takes the block of the answer.  If there is none it goes on
\* with a null pointer.
AllocReply ==
  /\ dbPc = "alloc"
  /\ IF freeReply = 0 THEN dbPc' = "crashed" /\ UNCHANGED freeReply
                      ELSE dbPc' = "post" /\ freeReply' = freeReply - 1
  /\ UNCHANGED <<executing, rows, mainVars, freeMsg, freeResult, lists, events>>

PostReply ==
  /\ dbPc = "post"
  /\ resultAdd' = Append(resultAdd, [msg |-> executing, rows |-> rows])
  /\ executing' = NoMessage /\ rows' = FALSE
  /\ dbPc' = "take"
  /\ UNCHANGED <<mainVars, pools, addList, popList, resultPop, events>>

\* Faulty: what is found is left in the list that is taken from.
RecheckKeeping ==
  /\ dbPc = "take" /\ popList = <<>>
  /\ dbPc' = "wait"
  /\ addList' = popList /\ popList' = addList
  /\ dbEvent' = (dbEvent \/ addList # <<>>)
  /\ UNCHANGED <<executing, rows, mainVars, pools, resultAdd, resultPop, killEvent, killReturn>>

\* The second critical section of the loop: what has come in the meantime is
\* swapped in, found, swapped back, and the worker wakes itself.
Recheck ==
  /\ dbPc = "take" /\ popList = <<>>
  /\ dbPc' = "wait"
  /\ IF addList # <<>>
       THEN dbEvent' = TRUE /\ UNCHANGED <<addList, popList>>
       ELSE addList' = popList /\ popList' = addList /\ UNCHANGED dbEvent
  /\ UNCHANGED <<executing, rows, mainVars, pools, resultAdd, resultPop, killEvent, killReturn>>

\* Faulty: the worker ends without a word.
EndSilently ==
  /\ dbPc = "killed"
  /\ dbPc' = "ended"
  /\ UNCHANGED <<executing, rows, mainVars, pools, lists, events>>

EndThread ==
  /\ dbPc = "killed"
  /\ killReturn' = TRUE
  /\ dbPc' = "ended"
  /\ UNCHANGED <<executing, rows, mainVars, pools, lists, dbEvent, killEvent>>

-----------------------------------------------------------------------------
(* The connection is closed.                                               *)

\* CDataBase::Release goes on collecting until AllCleared says that no block is
\* in use; then CloseDBThread tells the worker to end ...
CloseDBThread ==
  /\ mainPc = "game" /\ ~signal
  /\ freeMsg = Message
  /\ killEvent' = TRUE
  /\ mainPc' = "closing"
  /\ UNCHANGED <<dbVars, handling, signal, pools, lists, dbEvent, killReturn>>

\* Faulty: it does not wait for the worker.
CloseAtOnce ==
  /\ mainPc = "closing"
  /\ mainPc' = "closed"
  /\ UNCHANGED <<dbVars, handling, signal, pools, lists, events>>

\* ... waits for it, and deletes the locks and the lists.
CloseHandles ==
  /\ mainPc = "closing" /\ killReturn
  /\ killReturn' = FALSE
  /\ mainPc' = "closed"
  /\ UNCHANGED <<dbVars, handling, signal, pools, lists, dbEvent, killEvent>>

-----------------------------------------------------------------------------
MainStep == SignalDB \/ ProcessBegin \/ TakeReply \/ DeletePointer \/ FreeReply
            \/ ProcessEnd \/ CloseHandles

WorkerStep == Wake \/ WakeToEnd \/ Switch \/ Take \/ (\E b \in BOOLEAN : Execute(b))
              \/ AllocReply \/ PostReply \/ Recheck \/ EndThread

Next == (\E m \in Message : Query(m)) \/ MainStep \/ WorkerStep \/ CloseDBThread

SafeSpec == Init /\ [][Next]_vars

\* Both threads get the processor, and the main thread collects at every tick.
\* Nothing makes a server send a query or close the connection.
Fairness == WF_vars(MainStep) /\ WF_vars(WorkerStep)

Spec == SafeSpec /\ Fairness

-----------------------------------------------------------------------------
TypeOK ==
  /\ freeMsg \subseteq Message
  /\ freeReply \in 0..NumMessages /\ freeResult \in 0..NumResults
  /\ addList \in Seq(Message) /\ popList \in Seq(Message)
  /\ resultAdd \in Seq(Reply) /\ resultPop \in Seq(Reply)
  /\ dbEvent \in BOOLEAN /\ killEvent \in BOOLEAN /\ killReturn \in BOOLEAN
  /\ dbPc \in DBPc /\ rows \in BOOLEAN
  /\ executing \in Message \cup {NoMessage}
  /\ mainPc \in MainPc /\ signal \in BOOLEAN
  /\ handling \in Reply \cup {NoReply}

\* How many elements of the list belong to S.
Count(list, S)  == Cardinality({i \in DOMAIN list : list[i] \in S})
AnswersFor(m)   == [msg : {m}, rows : BOOLEAN]
WithRows        == [msg : Message, rows : {TRUE}]
One(b)          == IF b THEN 1 ELSE 0

\* A block is in one place at a time: in the pool, in one list, with the worker,
\* or with the handler of its answer.  In particular no query is lost or carried
\* out twice, and no handler reads a block that has been given out again.
BlockInOnePlace ==
  \A m \in Message :
    One(m \in freeMsg) + Count(addList, {m}) + Count(popList, {m}) + One(executing = m)
      + Count(resultAdd, AnswersFor(m)) + Count(resultPop, AnswersFor(m))
      + One(mainPc = "handle" /\ handling.msg = m) = 1

\* DispatchDBMessage never meets an empty pool, although the block of an answer
\* is given back after the block of its query.
ReplyBlockFound == dbPc # "crashed"

\* No block of rows is lost or given back twice.
RowsAccounted ==
  NumResults - freeResult =
    Count(resultAdd, WithRows) + Count(resultPop, WithRows)
      + One(rows) + One(mainPc = "handle" /\ handling.rows)

\* The locks and the lists are deleted only after the worker has left them, and
\* with nothing in them.
DeletedWhenQuiet ==
  mainPc = "closed" =>
    /\ dbPc = "ended"
    /\ addList = <<>> /\ popList = <<>> /\ resultAdd = <<>> /\ resultPop = <<>>

\* The pools and the lists together: where every block is, with its type, up to the
\* end of the connection.
BlocksSound == TypeOK /\ BlockInOnePlace /\ RowsAccounted /\ ReplyBlockFound /\ DeletedWhenQuiet

\* The worker never sleeps over a query: it has been woken, or is about to be.
NoLostWakeup ==
  dbPc = "wait" /\ (addList # <<>> \/ popList # <<>>) => dbEvent \/ signal

\* A connection that is being closed gets closed.
CloseReturns == mainPc = "closing" ~> mainPc = "closed"

-----------------------------------------------------------------------------
\* What a server sees of all this.
Messages(list) == [i \in DOMAIN list |-> list[i].msg]

pendingBar  == (IF executing = NoMessage THEN <<>> ELSE <<executing>>) \o popList \o addList
answersBar  == Messages(resultPop \o resultAdd)
handlingBar == IF mainPc = "handle" THEN handling.msg ELSE NoMessage
openBar     == mainPc \notin {"closing", "closed"}

Queue == INSTANCE DBQueue WITH free <- freeMsg, pending <- pendingBar, answers <- answersBar,
                               handling <- handlingBar, open <- openBar

\* Queries are carried out and answered once each, in the order they were
\* handed over, and every one is answered.
ImplementsQueue == Queue!Spec
=============================================================================
