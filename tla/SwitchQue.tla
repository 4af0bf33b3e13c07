------------------------------ MODULE SwitchQue ------------------------------
(***************************************************************************)
(* How the network library of the servers, 4DyuchiNET, hands what the      *)
(* connections receive to the main thread, and how it is taken down.       *)
(*                                                                         *)
(* Worker threads take finished reads from the completion port, write the  *)
(* messages into the writable of two queues (PushMsg) and ask for a change *)
(* of the queues.  The switch thread then enters the critical sections of  *)
(* all workers, one after another, swaps the two queues, tells the main    *)
(* thread and waits until that has handled the readable queue.             *)
(* DestroyNetwork ends the workers, the main thread and the switch thread, *)
(* in this order.                                                          *)
(*                                                                         *)
(* A system call or a critical section is one action, except that the      *)
(* section of a worker is two: the room in the queue is taken under        *)
(* g_csWrite, the messages are copied after that lock has been left.  A    *)
(* connection has one read pending at most.  Left out: the sending side,   *)
(* the closing of connections by the server, the timers and new            *)
(* connections (which the main thread serves between two batches), and     *)
(* BreakMainThread, which no server calls.                                 *)
(*                                                                         *)
(* An operator whose comment begins with "Faulty" is a variant of the one  *)
(* after it that no action uses.                                           *)
(***************************************************************************)
EXTENDS Integers, Sequences, FiniteSets, SequencesExt

CONSTANTS NumWorkers,    \* dwWorkThreadNum, twice the number of processors
          Connection,    \* the connections that receive something
          NoConnection,  \* none of them
          QueSize,       \* m_dwMaxBufferSize of a queue, in messages
          MaxReceived,   \* a bound: how many messages of the connections there may be
          MaxBatch       \* a bound: the messages one read completes

ASSUME SwitchQueAssumption ==
  /\ NumWorkers \in Nat \ {0}
  /\ NoConnection \notin Connection
  /\ QueSize \in Nat \ {0}
  /\ MaxReceived \subseteq [Connection -> Nat] /\ MaxBatch \in Nat

Worker == 1..NumWorkers
Que    == {0, 1}
Nobody == 0

VARIABLES
  port,        \* g_hCompletionPort: what GetQueuedCompletionStatus will return
  reading,     \* the connections with a read pending
  received,    \* how many messages each has received
  wPc, job,    \* where each worker is, and what it works on
  asked,       \* its dwQueMsgNum is not 0
  que,         \* the two queues: their messages, and who still copies them
  writable,    \* m_pWritableQue; the other one is m_pReadableQue
  mustSwitch, endSwitch,            \* g_hEventMustSwitch[0] and [1]
  msgEvent, resume, destroy,        \* three of g_hMainThreadEvent
  processComplete,                  \* g_hProcessComplete
  sPc, entered, swapped,  \* the switch thread, how many sections it is in, dwMsgNum
  mPc, pQ, next,          \* the main thread, its queue, how many of it are handled
  dPc,                    \* the thread that calls DestroyNetwork
  handled,                \* the messages of each connection, as they were handled
  discarded               \* how many of them did not fit

netVars    == <<port, reading, received>>
workerVars == <<wPc, job, asked, discarded>>
queVars    == <<que, writable>>
swEvents   == <<mustSwitch, endSwitch>>
mainEvents == <<msgEvent, resume, destroy>>
switchVars == <<sPc, entered, swapped>>
mainVars   == <<mPc, pQ, next, handled>>
vars == <<netVars, workerVars, queVars, swEvents, mainEvents, processComplete,
          switchVars, mainVars, dPc>>

\* A finished read: the number of the first message it completes, and how many;
\* "bye" is the read of 0 bytes that says the peer has gone, one message.
Completion == [from : Connection, first : Nat, n : Nat, bye : BOOLEAN]
\* The packet ACTION_TYPE_DESTROY.
Destroy == [from |-> NoConnection, first |-> 0, n |-> 0, bye |-> FALSE]
NoJob == Destroy
Slot == [from : Connection, no : Nat, copying : Worker \cup {Nobody}]

Init ==
  /\ port = <<>> /\ reading = Connection /\ received = [c \in Connection |-> 0]
  /\ wPc = [w \in Worker |-> "idle"] /\ job = [w \in Worker |-> NoJob]
  /\ asked = [w \in Worker |-> FALSE]
  /\ que = [q \in Que |-> <<>>] /\ writable = 0
  /\ mustSwitch = FALSE /\ endSwitch = FALSE
  /\ msgEvent = FALSE /\ resume = FALSE /\ destroy = FALSE
  /\ processComplete = FALSE
  /\ sPc = "wait" /\ entered = 0 /\ swapped = FALSE
  /\ mPc = "wait" /\ pQ = 1 /\ next = 0
  /\ dPc = "run"
  /\ handled = [c \in Connection |-> <<>>]
  /\ discarded = [c \in Connection |-> 0]

-----------------------------------------------------------------------------
(* The network.                                                            *)

\* A read finishes with n whole messages, possibly none, or because the peer has
\* gone.
Receive(c, n, bye) ==
  /\ c \in reading
  /\ bye => n = 1
  /\ reading' = reading \ {c}
  /\ received' = [received EXCEPT ![c] = @ + n]
  /\ \E m \in MaxReceived : \A d \in Connection : received'[d] <= m[d]
  /\ port' = Append(port, [from |-> c, first |-> received[c] + 1, n |-> n, bye |-> bye])
  /\ UNCHANGED <<workerVars, queVars, swEvents, mainEvents, processComplete>>
  /\ UNCHANGED <<switchVars, mainVars, dPc>>

-----------------------------------------------------------------------------
(* A worker: ServerWorkerThread.                                           *)

\* GetQueuedCompletionStatus returns.
Dequeue(w) ==
  /\ wPc[w] = "idle" /\ port # <<>>
  /\ port' = Tail(port)
  /\ IF Head(port) = Destroy
       THEN wPc' = [wPc EXCEPT ![w] = "ended"] /\ UNCHANGED job
       ELSE /\ job' = [job EXCEPT ![w] = Head(port)]
            /\ wPc' = [wPc EXCEPT ![w] = IF Head(port).n = 0 THEN "signal" ELSE "push"]
  /\ UNCHANGED <<reading, received, asked, discarded, queVars, swEvents, mainEvents>>
  /\ UNCHANGED <<processComplete, switchVars, mainVars, dPc>>

\* The switch thread enters the sections in the order of the workers.
Locked(w) == w <= entered

Slots(w) ==
  [i \in 1..job[w].n |-> [from |-> job[w].from, no |-> job[w].first + i - 1, copying |-> w]]

\* Faulty: the worker writes without its critical section.
PushUnlocked(w) ==
  /\ wPc[w] = "push"
  /\ que' = [que EXCEPT ![writable] = @ \o Slots(w)]
  /\ asked' = [asked EXCEPT ![w] = TRUE]
  /\ wPc' = [wPc EXCEPT ![w] = "copy"]
  /\ UNCHANGED <<netVars, job, discarded, writable, swEvents, mainEvents>>
  /\ UNCHANGED <<processComplete, switchVars, mainVars, dPc>>

\* EnterCriticalSection and the first part of PushMsg, where there is room: room
\* is taken and the messages are counted.
Push(w) ==
  /\ wPc[w] = "push" /\ ~Locked(w)
  /\ Len(que[writable]) + job[w].n < QueSize
  /\ que' = [que EXCEPT ![writable] = @ \o Slots(w)]
  /\ asked' = [asked EXCEPT ![w] = TRUE]
  /\ wPc' = [wPc EXCEPT ![w] = "copy"]
  /\ UNCHANGED <<netVars, job, discarded, writable, swEvents, mainEvents>>
  /\ UNCHANGED <<processComplete, switchVars, mainVars, dPc>>

\* PushMsg returns FALSE.  Nothing looks at the result.
Discard(w) ==
  /\ wPc[w] = "push" /\ ~Locked(w)
  /\ Len(que[writable]) + job[w].n >= QueSize
  /\ discarded' = [discarded EXCEPT ![job[w].from] = @ + job[w].n]
  /\ wPc' = [wPc EXCEPT ![w] = "signal"]
  /\ UNCHANGED <<netVars, job, asked, queVars, swEvents, mainEvents>>
  /\ UNCHANGED <<processComplete, switchVars, mainVars, dPc>>

\* The second part of PushMsg, and LeaveCriticalSection.
Copied(q, w) ==
  [i \in DOMAIN que[q] |->
     IF que[q][i].copying = w THEN [que[q][i] EXCEPT !.copying = Nobody] ELSE que[q][i]]

Copy(w) ==
  /\ wPc[w] = "copy"
  /\ que' = [q \in Que |-> Copied(q, w)]
  /\ wPc' = [wPc EXCEPT ![w] = "signal"]
  /\ UNCHANGED <<netVars, job, asked, discarded, writable, swEvents, mainEvents>>
  /\ UNCHANGED <<processComplete, switchVars, mainVars, dPc>>

\* A connection whose peer has gone is not read again.
AfterSignal(w) ==
  IF job[w].bye THEN wPc' = [wPc EXCEPT ![w] = "idle"] /\ job' = [job EXCEPT ![w] = NoJob]
                ELSE wPc' = [wPc EXCEPT ![w] = "arm"] /\ UNCHANGED job

\* Faulty: the change of the queues is not asked for.
SignalNever(w) ==
  /\ wPc[w] = "signal"
  /\ AfterSignal(w)
  /\ UNCHANGED <<netVars, asked, discarded, queVars, swEvents, mainEvents>>
  /\ UNCHANGED <<processComplete, switchVars, mainVars, dPc>>

\* SwitchQue, if this worker has ever pushed anything.
Signal(w) ==
  /\ wPc[w] = "signal"
  /\ mustSwitch' = (mustSwitch \/ asked[w])
  /\ AfterSignal(w)
  /\ UNCHANGED <<netVars, asked, discarded, queVars, endSwitch, mainEvents>>
  /\ UNCHANGED <<processComplete, switchVars, mainVars, dPc>>

\* ResetBuffer and PrepareRead: only now the connection reads again.
PrepareRead(w) ==
  /\ wPc[w] = "arm"
  /\ reading' = reading \cup {job[w].from}
  /\ wPc' = [wPc EXCEPT ![w] = "idle"] /\ job' = [job EXCEPT ![w] = NoJob]
  /\ UNCHANGED <<port, received, asked, discarded, queVars, swEvents, mainEvents>>
  /\ UNCHANGED <<processComplete, switchVars, mainVars, dPc>>

-----------------------------------------------------------------------------
(* The switch thread: SwitchQueThread.                                     *)

SwitchWake ==
  /\ sPc = "wait" /\ mustSwitch
  /\ mustSwitch' = FALSE
  /\ sPc' = "enter"
  /\ UNCHANGED <<netVars, workerVars, queVars, endSwitch, mainEvents, processComplete>>
  /\ UNCHANGED <<entered, swapped, mainVars, dPc>>

SwitchEnd ==
  /\ sPc = "wait" /\ ~mustSwitch /\ endSwitch
  /\ endSwitch' = FALSE
  /\ sPc' = "ended"
  /\ UNCHANGED <<netVars, workerVars, queVars, mustSwitch, mainEvents, processComplete>>
  /\ UNCHANGED <<entered, swapped, mainVars, dPc>>

\* Faulty: the section of the last worker is not entered.
EnterButOne ==
  /\ sPc = "enter" /\ entered < NumWorkers
  /\ wPc[entered + 1] # "copy" \/ entered + 1 = NumWorkers
  /\ entered' = entered + 1
  /\ UNCHANGED <<netVars, workerVars, queVars, swEvents, mainEvents, processComplete>>
  /\ UNCHANGED <<sPc, swapped, mainVars, dPc>>

EnterSection ==
  /\ sPc = "enter" /\ entered < NumWorkers
  /\ wPc[entered + 1] # "copy"
  /\ entered' = entered + 1
  /\ UNCHANGED <<netVars, workerVars, queVars, swEvents, mainEvents, processComplete>>
  /\ UNCHANGED <<sPc, swapped, mainVars, dPc>>

Swap ==
  /\ sPc = "enter" /\ entered = NumWorkers
  /\ swapped' = (que[writable] # <<>>)
  /\ writable' = IF swapped' THEN 1 - writable ELSE writable
  /\ sPc' = "leave"
  /\ UNCHANGED <<netVars, workerVars, que, swEvents, mainEvents, processComplete>>
  /\ UNCHANGED <<entered, mainVars, dPc>>

\* In the opposite order.
LeaveSection ==
  /\ sPc = "leave" /\ entered > 0
  /\ entered' = entered - 1
  /\ UNCHANGED <<netVars, workerVars, queVars, swEvents, mainEvents, processComplete>>
  /\ UNCHANGED <<sPc, swapped, mainVars, dPc>>

SwitchAgain ==
  /\ sPc = "leave" /\ entered = 0 /\ ~swapped
  /\ sPc' = "wait"
  /\ UNCHANGED <<netVars, workerVars, queVars, swEvents, mainEvents, processComplete>>
  /\ UNCHANGED <<entered, swapped, mainVars, dPc>>

\* Faulty: it does not wait until the main thread is done.
TellOnly ==
  /\ sPc = "leave" /\ entered = 0 /\ swapped
  /\ msgEvent' = TRUE
  /\ sPc' = "wait"
  /\ UNCHANGED <<netVars, workerVars, queVars, swEvents, resume, destroy>>
  /\ UNCHANGED <<processComplete, entered, swapped, mainVars, dPc>>

TellMain ==
  /\ sPc = "leave" /\ entered = 0 /\ swapped
  /\ msgEvent' = TRUE
  /\ sPc' = "complete"
  /\ UNCHANGED <<netVars, workerVars, queVars, swEvents, resume, destroy>>
  /\ UNCHANGED <<processComplete, entered, swapped, mainVars, dPc>>

AwaitComplete ==
  /\ sPc = "complete" /\ processComplete
  /\ processComplete' = FALSE
  /\ sPc' = "wait"
  /\ UNCHANGED <<netVars, workerVars, queVars, swEvents, mainEvents>>
  /\ UNCHANGED <<entered, swapped, mainVars, dPc>>

-----------------------------------------------------------------------------
(* The main thread: ProcessMsgThread.                                      *)

\* The readable queue is handled when the switch thread says so.
BeginMsg ==
  /\ mPc = "wait" /\ msgEvent
  /\ msgEvent' = FALSE
  /\ pQ' = 1 - writable /\ next' = 0
  /\ mPc' = "loop"
  /\ UNCHANGED <<netVars, workerVars, queVars, swEvents, resume, destroy>>
  /\ UNCHANGED <<processComplete, switchVars, handled, dPc>>

\* EVENT_INDEX_RESUME, outside a break, has no case of its own: the code of a
\* switch is run.
BeginResume ==
  /\ mPc = "wait" /\ ~msgEvent /\ ~destroy /\ resume
  /\ resume' = FALSE
  /\ pQ' = 1 - writable /\ next' = 0
  /\ mPc' = "loop"
  /\ UNCHANGED <<netVars, workerVars, queVars, swEvents, msgEvent, destroy>>
  /\ UNCHANGED <<processComplete, switchVars, handled, dPc>>

\* One turn of the loop: GetMsgContainer, OnRecvTCP or OnDisconnect.
Handle ==
  /\ mPc = "loop" /\ next < Len(que[pQ])
  /\ LET slot == que[pQ][next + 1]
     IN  handled' = [handled EXCEPT ![slot.from] = Append(@, slot.no)]
  /\ next' = next + 1
  /\ UNCHANGED <<netVars, workerVars, queVars, swEvents, mainEvents, processComplete>>
  /\ UNCHANGED <<switchVars, mPc, pQ, dPc>>

EndLoop ==
  /\ mPc = "loop" /\ next >= Len(que[pQ])
  /\ mPc' = "clear"
  /\ UNCHANGED <<netVars, workerVars, queVars, swEvents, mainEvents, processComplete>>
  /\ UNCHANGED <<switchVars, pQ, next, handled, dPc>>

\* Faulty: the queue is not emptied.
ClearNot ==
  /\ mPc = "clear"
  /\ next' = 0
  /\ mPc' = "tell"
  /\ UNCHANGED <<netVars, workerVars, queVars, swEvents, mainEvents, processComplete>>
  /\ UNCHANGED <<switchVars, pQ, handled, dPc>>

Clear ==
  /\ mPc = "clear"
  /\ que' = [que EXCEPT ![pQ] = <<>>]
  /\ next' = 0
  /\ mPc' = "tell"
  /\ UNCHANGED <<netVars, workerVars, writable, swEvents, mainEvents, processComplete>>
  /\ UNCHANGED <<switchVars, pQ, handled, dPc>>

TellSwitch ==
  /\ mPc = "tell"
  /\ processComplete' = TRUE
  /\ mPc' = "wait"
  /\ UNCHANGED <<netVars, workerVars, queVars, swEvents, mainEvents>>
  /\ UNCHANGED <<switchVars, pQ, next, handled, dPc>>

MainEnd ==
  /\ mPc = "wait" /\ ~msgEvent /\ destroy
  /\ destroy' = FALSE
  /\ processComplete' = TRUE
  /\ mPc' = "ended"
  /\ UNCHANGED <<netVars, workerVars, queVars, swEvents, msgEvent, resume>>
  /\ UNCHANGED <<switchVars, pQ, next, handled, dPc>>

-----------------------------------------------------------------------------
(* DestroyNetwork.                                                         *)

\* CloseComplitionIO: one ACTION_TYPE_DESTROY for each worker ...
CloseComplitionIO ==
  /\ dPc = "run"
  /\ port' = port \o [w \in Worker |-> Destroy]
  /\ dPc' = "workers"
  /\ UNCHANGED <<reading, received, workerVars, queVars, swEvents, mainEvents>>
  /\ UNCHANGED <<processComplete, switchVars, mainVars>>

\* ... and their ends are waited for; then EndMainThread, which resumes first ...
ResumeMainThread ==
  /\ dPc = "workers"
  /\ \A w \in Worker : wPc[w] = "ended"
  /\ resume' = TRUE
  /\ dPc' = "resumed"
  /\ UNCHANGED <<netVars, workerVars, queVars, swEvents, msgEvent, destroy>>
  /\ UNCHANGED <<processComplete, switchVars, mainVars>>

\* Faulty: the event is forgotten.
ForgetMainThread ==
  /\ dPc = "resumed"
  /\ dPc' = "main"
  /\ UNCHANGED <<netVars, workerVars, queVars, swEvents, mainEvents>>
  /\ UNCHANGED <<processComplete, switchVars, mainVars>>

EndMainThread ==
  /\ dPc = "resumed"
  /\ destroy' = TRUE
  /\ dPc' = "main"
  /\ UNCHANGED <<netVars, workerVars, queVars, swEvents, msgEvent, resume>>
  /\ UNCHANGED <<processComplete, switchVars, mainVars>>

\* ... and then EndSwitchQueThread.
EndSwitchQueThread ==
  /\ dPc = "main" /\ mPc = "ended"
  /\ endSwitch' = TRUE
  /\ dPc' = "switch"
  /\ UNCHANGED <<netVars, workerVars, queVars, mustSwitch, mainEvents>>
  /\ UNCHANGED <<processComplete, switchVars, mainVars>>

\* The critical sections and the queues are deleted.
DeleteQues ==
  /\ dPc = "switch" /\ sPc = "ended"
  /\ dPc' = "done"
  /\ UNCHANGED <<netVars, workerVars, queVars, swEvents, mainEvents>>
  /\ UNCHANGED <<processComplete, switchVars, mainVars>>

-----------------------------------------------------------------------------
WorkerStep(w) == Dequeue(w) \/ Push(w) \/ Discard(w) \/ Copy(w) \/ Signal(w) \/ PrepareRead(w)

SwitchStep == SwitchWake \/ SwitchEnd \/ EnterSection \/ Swap \/ LeaveSection
              \/ SwitchAgain \/ TellMain \/ AwaitComplete

MainStep == BeginMsg \/ BeginResume \/ Handle \/ EndLoop \/ Clear \/ TellSwitch \/ MainEnd

DestroyStep == ResumeMainThread \/ EndMainThread \/ EndSwitchQueThread \/ DeleteQues

Next == (\E c \in Connection, n \in 0..MaxBatch, bye \in BOOLEAN : Receive(c, n, bye))
        \/ (\E w \in Worker : WorkerStep(w))
        \/ SwitchStep \/ MainStep \/ CloseComplitionIO \/ DestroyStep

SafeSpec == Init /\ [][Next]_vars

\* Every thread gets the processor, and a thread that waits for a critical section
\* which is left again and again gets it in the end.  Nothing makes the peers send
\* or the server stop.
Fairness == /\ \A w \in Worker : WF_vars(WorkerStep(w)) /\ SF_vars(Push(w) \/ Discard(w))
            /\ WF_vars(SwitchStep) /\ SF_vars(EnterSection)
            /\ WF_vars(MainStep) /\ WF_vars(DestroyStep)

Spec == SafeSpec /\ Fairness

-----------------------------------------------------------------------------
TypeOK ==
  /\ port \in Seq(Completion \cup {Destroy})
  /\ reading \subseteq Connection /\ received \in [Connection -> Nat]
  /\ wPc \in [Worker -> {"idle", "push", "copy", "signal", "arm", "ended"}]
  /\ job \in [Worker -> Completion \cup {Destroy}]
  /\ asked \in [Worker -> BOOLEAN] /\ discarded \in [Connection -> Nat]
  /\ que \in [Que -> Seq(Slot)] /\ writable \in Que
  /\ mustSwitch \in BOOLEAN /\ endSwitch \in BOOLEAN
  /\ msgEvent \in BOOLEAN /\ resume \in BOOLEAN /\ destroy \in BOOLEAN
  /\ processComplete \in BOOLEAN
  /\ sPc \in {"wait", "enter", "leave", "complete", "ended"}
  /\ entered \in 0..NumWorkers /\ swapped \in BOOLEAN
  /\ mPc \in {"wait", "loop", "clear", "tell", "ended"}
  /\ pQ \in Que /\ next \in Nat
  /\ handled \in [Connection -> Seq(Nat)]
  /\ dPc \in {"run", "workers", "resumed", "main", "switch", "done"}

\* What of a queue is still to be handled, and all that is, the readable queue first.
Rest(q) == IF q = pQ THEN SubSeq(que[q], next + 1, Len(que[q])) ELSE que[q]
Waiting == Rest(1 - writable) \o Rest(writable)

\* Those of connection c, by their places, and the numbers of its messages that have
\* been read but are in no queue yet.
InQueues(c) == {i \in DOMAIN Waiting : Waiting[i].from = c}
UnderWay    == {job[w] : w \in {v \in Worker : wPc[v] = "push"}} \cup ToSet(port)
Pending(c)  == {k \in 1..received[c] : \E d \in UnderWay :
                  d.from = c /\ k >= d.first /\ k < d.first + d.n}

\* What a connection sends is handled in order and once: no message is lost,
\* doubled or overtaken between the read and its handler, those that found the
\* queue full excepted.  (When the main thread has ended the rest is dropped.)
FlowInOrder ==
  mPc # "ended" => \A c \in Connection :
    /\ \A i, j \in DOMAIN handled[c] : i < j => handled[c][i] < handled[c][j]
    /\ \A i \in DOMAIN handled[c], j \in InQueues(c) : handled[c][i] < Waiting[j].no
    /\ \A i, j \in InQueues(c) : i < j => Waiting[i].no < Waiting[j].no
    /\ \A k \in Pending(c) : /\ \A i \in DOMAIN handled[c] : handled[c][i] < k
                             /\ \A i \in InQueues(c) : Waiting[i].no < k
    /\ Len(handled[c]) + Cardinality(InQueues(c)) + Cardinality(Pending(c)) + discarded[c]
         = received[c]

\* The workers write into the writable queue only (quemanager.h:2): in the other
\* one nothing is still being copied.
WritableOnly == \A i \in DOMAIN que[1 - writable] : que[1 - writable][i].copying = Nobody

\* The same with the types: what is written, and where.
WritesSound == TypeOK /\ WritableOnly

\* The main thread never reads a message that is still being copied.
NothingReadUnfinished ==
  mPc \in {"loop", "clear"} => \A i \in DOMAIN que[pQ] : que[pQ][i].copying = Nobody

\* No message is wiped out unread when the main thread empties its queue.
NothingClearedUnread == mPc = "clear" => next = Len(que[pQ])

\* Whatever a batch reads is whole, and whatever it wipes out has been read.
BatchSound == NothingReadUnfinished /\ NothingClearedUnread

\* Until the server is taken down the queues change only between two batches: the
\* main thread is not at one, and has left nothing in the queue the workers get.
HandedOverWhole ==
  [][writable' # writable /\ dPc \in {"run", "workers"} =>
       mPc \notin {"loop", "clear"} /\ que[1 - writable] = <<>>]_vars

\* What has been received gets handled, or has been discarded, while the server
\* runs.
ReceivedIsHandled ==
  \A c \in Connection : \A k \in UNION {1..m[c] : m \in MaxReceived} :
    received[c] >= k ~> Len(handled[c]) + discarded[c] >= k \/ dPc # "run"

\* EndMainThread returns: the workers and the main thread come to their ends.
MainThreadEnds == dPc = "workers" ~> dPc = "switch"
=============================================================================
