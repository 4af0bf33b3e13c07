--------------------------- MODULE SwitchQueProofs ---------------------------
(* What the threads of the network library guarantee for any number of       *)
(* workers and connections.                                                  *)
EXTENDS SwitchQue, SequenceTheorems, FiniteSetTheorems, TLAPS

(***************************************************************************)
(* Sequences.                                                              *)
(***************************************************************************)

\* A function on 1..n is a sequence.
LEMMA SeqOfFunction ==
  ASSUME NEW T, NEW n \in Nat, NEW f \in [1..n -> T]
  PROVE  /\ f \in Seq(T)
         /\ Len(f) = n
OBVIOUS

(***************************************************************************)
(* Types.  A worker that is past GetQueuedCompletionStatus has a job of a  *)
(* connection.                                                             *)
(***************************************************************************)

JobKnown == \A w \in Worker : wPc[w] \notin {"idle", "ended"} => job[w] \in Completion

Types == TypeOK /\ JobKnown

LEMMA InitTypes == Init => Types
<1> SUFFICES ASSUME Init PROVE Types
  OBVIOUS
<1> USE SwitchQueAssumption DEF Init
<1>1. port \in Seq(Completion \cup {Destroy}) /\ job \in [Worker -> Completion \cup {Destroy}]
  BY EmptySeq DEF NoJob
<1>2. que \in [Que -> Seq(Slot)] /\ handled \in [Connection -> Seq(Nat)]
  BY EmptySeq
<1>3. entered \in 0..NumWorkers /\ writable \in Que /\ pQ \in Que
  BY DEF Que
<1> QED BY <1>1, <1>2, <1>3 DEF Types, TypeOK, JobKnown

\* The messages a worker writes into the queue.
LEMMA SlotsType ==
  ASSUME NEW w \in Worker, job[w] \in Completion
  PROVE  Slots(w) \in Seq(Slot) /\ Len(Slots(w)) = job[w].n
<1>1. job[w].n \in Nat /\ job[w].first \in Nat /\ job[w].from \in Connection
  BY DEF Completion
<1>2. Slots(w) \in [1..job[w].n -> Slot]
  BY <1>1 DEF Slots, Slot
<1> QED BY <1>1, <1>2, SeqOfFunction

\* When the worker has copied them, each queue is as long as before and holds the
\* same messages.
LEMMA CopiedType ==
  ASSUME NEW w \in Worker, NEW q \in Que, que[q] \in Seq(Slot)
  PROVE  /\ Copied(q, w) \in Seq(Slot)
         /\ Len(Copied(q, w)) = Len(que[q])
         /\ DOMAIN Copied(q, w) = DOMAIN que[q]
         /\ \A i \in DOMAIN que[q] :
              Copied(q, w)[i].copying =
                IF que[q][i].copying = w THEN Nobody ELSE que[q][i].copying
<1>1. Len(que[q]) \in Nat /\ DOMAIN que[q] = 1..Len(que[q])
  BY LenProperties
<1>2. \A i \in DOMAIN que[q] : que[q][i] \in Slot
  BY <1>1, ElementOfSeq
<1>3. Copied(q, w) \in [1..Len(que[q]) -> Slot]
  BY <1>1, <1>2 DEF Copied, Slot
<1>4. \A i \in DOMAIN que[q] :
         Copied(q, w)[i].copying =
           IF que[q][i].copying = w THEN Nobody ELSE que[q][i].copying
  BY <1>2 DEF Copied, Slot
<1> QED BY <1>1, <1>3, <1>4, SeqOfFunction

LEMMA StepTypes == Types /\ [Next]_vars => Types'
<1> SUFFICES ASSUME Types, [Next]_vars PROVE Types'
  OBVIOUS
<1> USE SwitchQueAssumption
    DEF Types, TypeOK, JobKnown, netVars, workerVars, queVars, swEvents, mainEvents, switchVars,
        mainVars
<1>1. ASSUME NEW c \in Connection, NEW n \in 0..MaxBatch, NEW bye \in BOOLEAN,
             Receive(c, n, bye)
      PROVE  Types'
  <2>1. [from |-> c, first |-> received[c] + 1, n |-> n, bye |-> bye] \in Completion
    BY <1>1 DEF Completion
  <2> QED BY <1>1, <2>1 DEF Receive
<1>2. ASSUME NEW w \in Worker, Dequeue(w) PROVE Types'
  <2>1. /\ Head(port) \in Completion \cup {Destroy}
        /\ Tail(port) \in Seq(Completion \cup {Destroy})
    BY <1>2, HeadTailProperties DEF Dequeue
  <2>2. /\ wPc' \in [Worker -> {"idle", "push", "copy", "signal", "arm", "ended"}]
        /\ job' \in [Worker -> Completion \cup {Destroy}]
    BY <1>2, <2>1 DEF Dequeue
  <2>3. JobKnown'
    BY <1>2, <2>1 DEF Dequeue
  <2> QED BY <1>2, <2>1, <2>2, <2>3 DEF Dequeue
<1>3. ASSUME NEW w \in Worker, Push(w) PROVE Types'
  <2>1. Slots(w) \in Seq(Slot) /\ que[writable] \in Seq(Slot)
    BY <1>3, SlotsType DEF Push
  <2>2. que[writable] \o Slots(w) \in Seq(Slot)
    BY <2>1, ConcatProperties
  <2> QED BY <1>3, <2>2 DEF Push
<1>4. ASSUME NEW w \in Worker, Discard(w) PROVE Types'
  <2>1. job[w].n \in Nat /\ job[w].from \in Connection
    BY <1>4 DEF Discard, Completion
  <2> QED BY <1>4, <2>1 DEF Discard
<1>5. ASSUME NEW w \in Worker, Copy(w) PROVE Types'
  <2>1. \A q \in Que : Copied(q, w) \in Seq(Slot)
    BY <1>5, CopiedType
  <2> QED BY <1>5, <2>1 DEF Copy
<1>6. ASSUME NEW w \in Worker, Signal(w) PROVE Types'
  <2>1. /\ wPc' \in [Worker -> {"idle", "push", "copy", "signal", "arm", "ended"}]
        /\ job' \in [Worker -> Completion \cup {Destroy}]
    BY <1>6 DEF Signal, AfterSignal, NoJob
  <2>2. JobKnown'
    BY <1>6 DEF Signal, AfterSignal
  <2>3. mustSwitch' \in BOOLEAN
    BY <1>6 DEF Signal
  <2> QED BY <1>6, <2>1, <2>2, <2>3 DEF Signal
<1>7. ASSUME NEW w \in Worker, PrepareRead(w) PROVE Types'
  <2>1. job[w].from \in Connection
    BY <1>7 DEF PrepareRead, Completion
  <2> QED BY <1>7, <2>1 DEF PrepareRead, NoJob
<1>8. CASE SwitchStep
  <2>1. CASE SwitchWake
    BY <2>1 DEF SwitchWake
  <2>2. CASE SwitchEnd
    BY <2>2 DEF SwitchEnd
  <2>3. CASE EnterSection
    BY <2>3 DEF EnterSection
  <2>4. CASE Swap
    BY <2>4 DEF Swap, Que
  <2>5. CASE LeaveSection
    BY <2>5 DEF LeaveSection
  <2>6. CASE SwitchAgain
    BY <2>6 DEF SwitchAgain
  <2>7. CASE TellMain
    BY <2>7 DEF TellMain
  <2>8. CASE AwaitComplete
    BY <2>8 DEF AwaitComplete
  <2> QED BY <1>8, <2>1, <2>2, <2>3, <2>4, <2>5, <2>6, <2>7, <2>8 DEF SwitchStep
<1>9. CASE MainStep
  <2>1. CASE BeginMsg
    <3>1. 1 - writable \in Que
      BY DEF Que
    <3> QED BY <2>1, <3>1 DEF BeginMsg
  <2>2. CASE BeginResume
    <3>1. 1 - writable \in Que
      BY DEF Que
    <3> QED BY <2>2, <3>1 DEF BeginResume
  <2>3. CASE Handle
    <3>1. que[pQ] \in Seq(Slot) /\ next + 1 \in 1..Len(que[pQ])
      BY <2>3, LenProperties DEF Handle
    <3>2. que[pQ][next + 1] \in Slot
      BY <3>1, ElementOfSeq
    <3>3. que[pQ][next + 1].from \in Connection /\ que[pQ][next + 1].no \in Nat
      BY <3>2 DEF Slot
    <3>4. Append(handled[que[pQ][next + 1].from], que[pQ][next + 1].no) \in Seq(Nat)
      BY <3>3, AppendProperties
    <3>5. handled' \in [Connection -> Seq(Nat)]
      BY <2>3, <3>3, <3>4 DEF Handle
    <3> QED BY <2>3, <3>5 DEF Handle
  <2>4. CASE EndLoop
    BY <2>4 DEF EndLoop
  <2>5. CASE Clear
    BY <2>5, EmptySeq DEF Clear
  <2>6. CASE TellSwitch
    BY <2>6 DEF TellSwitch
  <2>7. CASE MainEnd
    BY <2>7 DEF MainEnd
  <2> QED BY <1>9, <2>1, <2>2, <2>3, <2>4, <2>5, <2>6, <2>7 DEF MainStep
<1>10. CASE CloseComplitionIO
  <2>1. [w \in Worker |-> Destroy] \in [1..NumWorkers -> Completion \cup {Destroy}]
    BY DEF Worker
  <2>2. [w \in Worker |-> Destroy] \in Seq(Completion \cup {Destroy})
    BY <2>1, SeqOfFunction
  <2>3. port \o [w \in Worker |-> Destroy] \in Seq(Completion \cup {Destroy})
    BY <2>2, ConcatProperties
  <2> QED BY <1>10, <2>3 DEF CloseComplitionIO
<1>11. CASE DestroyStep
  <2>1. CASE ResumeMainThread
    BY <2>1 DEF ResumeMainThread
  <2>2. CASE EndMainThread
    BY <2>2 DEF EndMainThread
  <2>3. CASE EndSwitchQueThread
    BY <2>3 DEF EndSwitchQueThread
  <2>4. CASE DeleteQues
    BY <2>4 DEF DeleteQues
  <2> QED BY <1>11, <2>1, <2>2, <2>3, <2>4 DEF DestroyStep
<1>12. CASE UNCHANGED vars
  BY <1>12 DEF vars
<1> HIDE DEF Types
<1> QED BY <1>1, <1>2, <1>3, <1>4, <1>5, <1>6, <1>7, <1>8, <1>9, <1>10, <1>11, <1>12
        DEF Next, WorkerStep

\* The variables keep their types, whatever the number of workers and connections.
THEOREM TypeCorrect == SafeSpec => []TypeOK
<1>1. SafeSpec => []Types
  BY InitTypes, StepTypes, PTL DEF SafeSpec
<1>2. Types => TypeOK
  BY DEF Types
<1> QED BY <1>1, <1>2, PTL

(***************************************************************************)
(* Who writes where.  A message that is still being copied is in the       *)
(* writable queue and its worker is at PushMsg, in a critical section that *)
(* the switch thread has not entered.                                      *)
(***************************************************************************)

HoldsSection == \A w \in Worker : wPc[w] = "copy" => w > entered

CopierAtWork ==
  \A q \in Que : \A i \in DOMAIN que[q] :
    que[q][i].copying # Nobody => q = writable /\ wPc[que[q][i].copying] = "copy"

Writing == HoldsSection /\ CopierAtWork

LEMMA InitWriting == Init => Writing
  BY SwitchQueAssumption DEF Init, Writing, HoldsSection, CopierAtWork

\* The slots of a queue to which worker w has appended its messages.
LEMMA PushedSlots ==
  ASSUME Types, NEW w \in Worker, job[w] \in Completion,
         NEW i \in DOMAIN (que[writable] \o Slots(w))
  PROVE  \/ i \in DOMAIN que[writable] /\ (que[writable] \o Slots(w))[i] = que[writable][i]
         \/ (que[writable] \o Slots(w))[i].copying = w
<1>1. que[writable] \in Seq(Slot) /\ Slots(w) \in Seq(Slot) /\ Len(Slots(w)) = job[w].n
  BY SlotsType DEF Types, TypeOK
<1>2. \A k \in 1..job[w].n : Slots(w)[k].copying = w
  BY DEF Slots
<1> QED BY <1>1, <1>2, ConcatProperties, LenProperties

\* Only workers copy.
LEMMA CopierType ==
  ASSUME Types, NEW q \in Que, NEW i \in DOMAIN que[q]
  PROVE  que[q][i].copying \in Worker \cup {Nobody}
<1>1. que[q] \in Seq(Slot)
  BY DEF Types, TypeOK
<1>2. que[q][i] \in Slot
  BY <1>1, ElementOfSeq, LenProperties
<1> QED BY <1>2 DEF Slot

LEMMA StepWriting == Types /\ Writing /\ [Next]_vars => Writing'
<1> SUFFICES ASSUME Types, Writing, [Next]_vars PROVE Writing'
  OBVIOUS
<1> USE SwitchQueAssumption
    DEF netVars, workerVars, queVars, swEvents, mainEvents, switchVars, mainVars
<1>0. /\ wPc \in [Worker -> {"idle", "push", "copy", "signal", "arm", "ended"}]
      /\ que \in [Que -> Seq(Slot)] /\ writable \in Que /\ entered \in 0..NumWorkers
  BY DEF Types, TypeOK
<1>1. ASSUME UNCHANGED <<wPc, que, writable>>, entered' <= entered, entered' \in Nat
      PROVE  Writing'
  BY <1>0, <1>1 DEF Writing, HoldsSection, CopierAtWork, Worker
\* The steps of a worker that do not touch a queue.
<1>2. ASSUME NEW w \in Worker, wPc[w] # "copy", UNCHANGED <<que, writable, entered>>,
             wPc' = [wPc EXCEPT ![w] = wPc'[w]], wPc'[w] # "copy"
      PROVE  Writing'
  BY <1>0, <1>2, CopierType DEF Writing, HoldsSection, CopierAtWork
<1>3. ASSUME NEW w \in Worker, Push(w) PROVE Writing'
  <2>1. HoldsSection'
    BY <1>0, <1>3 DEF Push, Locked, Writing, HoldsSection, Worker
  <2>2. ASSUME NEW q \in Que, NEW i \in DOMAIN que'[q], que'[q][i].copying # Nobody
        PROVE  q = writable' /\ wPc'[que'[q][i].copying] = "copy"
    <3>1. CASE q # writable
      <4>1. que'[q] = que[q]
        BY <1>0, <1>3, <3>1 DEF Push
      <4> QED BY <2>2, <3>1, <4>1 DEF Writing, CopierAtWork
    <3>2. CASE q = writable
      <4>1. que'[q] = que[writable] \o Slots(w) /\ writable' = writable
        BY <1>0, <1>3, <3>2 DEF Push
      <4>2. job[w] \in Completion
        BY <1>3 DEF Push, Types, JobKnown
      <4>3. CASE que'[q][i].copying = w
        BY <1>0, <1>3, <3>2, <4>1, <4>3 DEF Push
      <4>4. CASE i \in DOMAIN que[writable] /\ que'[q][i] = que[writable][i]
        <5>1. wPc[que'[q][i].copying] = "copy"
          BY <1>0, <2>2, <4>4 DEF Writing, CopierAtWork
        <5>2. que'[q][i].copying \in Worker
          BY <1>0, <2>2, <4>4, CopierType
        <5> QED BY <1>0, <1>3, <3>2, <4>1, <5>1, <5>2 DEF Push
      <4> QED BY <4>1, <4>2, <4>3, <4>4, PushedSlots
    <3> QED BY <3>1, <3>2
  <2> QED BY <2>1, <2>2 DEF Writing, CopierAtWork
<1>4. ASSUME NEW w \in Worker, Copy(w) PROVE Writing'
  <2>1. HoldsSection'
    BY <1>0, <1>4 DEF Copy, Writing, HoldsSection
  <2>2. ASSUME NEW q \in Que, NEW i \in DOMAIN que'[q], que'[q][i].copying # Nobody
        PROVE  q = writable' /\ wPc'[que'[q][i].copying] = "copy"
    <3>1. que'[q] = Copied(q, w) /\ que[q] \in Seq(Slot)
      BY <1>0, <1>4 DEF Copy
    <3>2. /\ i \in DOMAIN que[q] /\ que'[q][i].copying = que[q][i].copying
          /\ que[q][i].copying # w
      BY <2>2, <3>1, CopiedType
    <3>3. q = writable /\ wPc[que[q][i].copying] = "copy"
      BY <2>2, <3>2 DEF Writing, CopierAtWork
    <3>4. que[q][i].copying \in Worker
      BY <2>2, <3>2, CopierType
    <3> QED BY <1>0, <1>4, <3>2, <3>3, <3>4 DEF Copy
  <2> QED BY <2>1, <2>2 DEF Writing, CopierAtWork
\* The switch thread is in all the sections: nobody copies.
<1>5. CASE Swap
  <2>1. \A w \in Worker : wPc[w] # "copy"
    BY <1>0, <1>5 DEF Swap, Writing, HoldsSection, Worker
  <2>2. ASSUME NEW q \in Que, NEW i \in DOMAIN que[q] PROVE que[q][i].copying = Nobody
    <3>1. que[q][i].copying \in Worker \cup {Nobody}
      BY CopierType
    <3> QED BY <2>1, <2>2, <3>1 DEF Writing, CopierAtWork
  <2> QED BY <2>1, <2>2, <1>5 DEF Swap, Writing, HoldsSection, CopierAtWork
<1>6. CASE EnterSection
  <2>1. HoldsSection'
    BY <1>0, <1>6 DEF EnterSection, Writing, HoldsSection, Worker
  <2> QED BY <1>6, <2>1 DEF EnterSection, Writing, CopierAtWork
<1>7. CASE Clear
  <2>1. \A q \in Que : que'[q] = que[q] \/ que'[q] = <<>>
    BY <1>0, <1>7 DEF Clear
  <2> QED BY <1>7, <2>1 DEF Clear, Writing, HoldsSection, CopierAtWork
<1>8. ASSUME NEW w \in Worker, WorkerStep(w) PROVE Writing'
  <2>1. CASE Dequeue(w)
    BY <1>0, <1>2, <2>1 DEF Dequeue
  <2>2. CASE Discard(w)
    BY <1>0, <1>2, <2>2 DEF Discard
  <2>3. CASE Signal(w)
    BY <1>0, <1>2, <2>3 DEF Signal, AfterSignal
  <2>4. CASE PrepareRead(w)
    BY <1>0, <1>2, <2>4 DEF PrepareRead
  <2> QED BY <1>3, <1>4, <1>8, <2>1, <2>2, <2>3, <2>4 DEF WorkerStep
<1>9. CASE SwitchStep
  <2>1. CASE LeaveSection
    BY <1>0, <1>1, <2>1 DEF LeaveSection
  <2>2. CASE SwitchWake \/ SwitchEnd \/ SwitchAgain \/ TellMain \/ AwaitComplete
    BY <1>0, <1>1, <2>2 DEF SwitchWake, SwitchEnd, SwitchAgain, TellMain, AwaitComplete
  <2> QED BY <1>5, <1>6, <1>9, <2>1, <2>2 DEF SwitchStep
<1>10. CASE MainStep
  <2>1. CASE BeginMsg \/ BeginResume \/ Handle \/ EndLoop \/ TellSwitch \/ MainEnd
    BY <1>0, <1>1, <2>1 DEF BeginMsg, BeginResume, Handle, EndLoop, TellSwitch, MainEnd
  <2> QED BY <1>7, <1>10, <2>1 DEF MainStep
<1>11. CASE CloseComplitionIO \/ DestroyStep
  BY <1>0, <1>1, <1>11
  DEF CloseComplitionIO, DestroyStep, ResumeMainThread, EndMainThread, EndSwitchQueThread,
      DeleteQues
<1>12. ASSUME NEW c \in Connection, NEW n \in 0..MaxBatch, NEW bye \in BOOLEAN,
              Receive(c, n, bye)
       PROVE  Writing'
  BY <1>0, <1>1, <1>12 DEF Receive
<1>13. CASE UNCHANGED vars
  BY <1>0, <1>1, <1>13 DEF vars
<1> QED BY <1>8, <1>9, <1>10, <1>11, <1>12, <1>13 DEF Next

\* What the workers copy is in the writable queue, for any number of workers.
THEOREM WritesWritableOnly == SafeSpec => []WritableOnly
<1>1. SafeSpec => [](Types /\ Writing)
  BY InitTypes, InitWriting, StepTypes, StepWriting, PTL DEF SafeSpec
<1>2. Types /\ Writing => WritableOnly
  BY DEF Types, TypeOK, Writing, CopierAtWork, WritableOnly, Que
<1> QED BY <1>1, <1>2, PTL

(***************************************************************************)
(* The turn.  Until DestroyNetwork has seen the workers end, the switch    *)
(* thread and the main thread work in turns: while the first one waits for *)
(* g_hProcessComplete the turn is in g_hEventMsg, with the main thread or  *)
(* in g_hProcessComplete, at one place only, and at any other time nowhere *)
(* at all.                                                                 *)
(***************************************************************************)

Serving == dPc \in {"run", "workers"}
AtBatch == mPc \in {"loop", "clear", "tell"}

WorkersGone == ~Serving => \A w \in Worker : wPc[w] = "ended"
NoEndYet    == Serving => ~resume /\ ~destroy /\ mPc # "ended"

TurnWithMain ==
  \/ msgEvent /\ mPc = "wait" /\ ~processComplete
  \/ ~msgEvent /\ AtBatch /\ ~processComplete
  \/ ~msgEvent /\ mPc = "wait" /\ processComplete
NoTurn == ~msgEvent /\ mPc = "wait" /\ ~processComplete
InTurns == Serving => IF sPc = "complete" THEN TurnWithMain ELSE NoTurn

\* The main thread is in the readable queue, and that is empty unless it has been
\* handed over and not emptied since.
ReadsReadable == Serving /\ AtBatch => pQ = 1 - writable
HandedOver == \/ sPc = "leave" /\ swapped
              \/ sPc = "complete" /\ mPc # "tell" /\ ~processComplete
ReadableEmpty == Serving /\ ~HandedOver => que[1 - writable] = <<>>

Turns == WorkersGone /\ NoEndYet /\ InTurns /\ ReadsReadable /\ ReadableEmpty

LEMMA InitTurns == Init => Turns
  BY DEF Init, Turns, Serving, AtBatch, WorkersGone, NoEndYet, NoTurn, InTurns, ReadsReadable,
         ReadableEmpty, Que

\* No worker touches the readable queue, but for a copy that leaves its length.
LEMMA WorkerKeepsReadable ==
  ASSUME Types, NEW w \in Worker, WorkerStep(w)
  PROVE  /\ writable' = writable
         /\ Len(que'[1 - writable]) = Len(que[1 - writable])
         /\ que[1 - writable] = <<>> => que'[1 - writable] = <<>>
<1>1. que \in [Que -> Seq(Slot)] /\ writable \in Que /\ 1 - writable \in Que
  BY DEF Types, TypeOK, Que
<1>2. writable # 1 - writable
  BY <1>1 DEF Que
<1>3. CASE Copy(w)
  <2>1. writable' = writable /\ que'[1 - writable] = Copied(1 - writable, w)
    BY <1>1, <1>3 DEF Copy, queVars
  <2>2. /\ que'[1 - writable] \in Seq(Slot)
        /\ Len(que'[1 - writable]) = Len(que[1 - writable])
    BY <1>1, <2>1, CopiedType
  <2> QED BY <2>1, <2>2, EmptySeq
<1>4. CASE ~Copy(w)
  <2>1. writable' = writable /\ que'[1 - writable] = que[1 - writable]
    BY <1>1, <1>2, <1>4
    DEF WorkerStep, Dequeue, Push, Discard, Signal, PrepareRead, queVars
  <2> QED BY <2>1
<1> QED BY <1>3, <1>4

LEMMA StepTurns == Types /\ Turns /\ [Next]_vars => Turns'
<1> SUFFICES ASSUME Types, Turns, [Next]_vars PROVE Turns'
  OBVIOUS
<1> USE DEF netVars, workerVars, queVars, swEvents, mainEvents, switchVars, mainVars, Serving
<1>0. /\ wPc \in [Worker -> {"idle", "push", "copy", "signal", "arm", "ended"}]
      /\ que \in [Que -> Seq(Slot)] /\ writable \in Que /\ 1 - writable \in Que
      /\ writable # 1 - writable /\ 1 - (1 - writable) = writable
  BY DEF Types, TypeOK, Que
\* What no step of the switch thread, the main thread or DestroyNetwork changes.
<1>1. ASSUME UNCHANGED <<wPc, dPc>> PROVE WorkersGone'
  BY <1>1 DEF Turns, WorkersGone
<1>2. ASSUME NEW w \in Worker, WorkerStep(w) PROVE Turns'
  <2>1. UNCHANGED <<writable, msgEvent, resume, destroy, processComplete, sPc, swapped, mPc, pQ,
                    dPc>>
    BY <1>2, WorkerKeepsReadable
    DEF WorkerStep, Dequeue, Push, Discard, Copy, Signal, PrepareRead
  <2>2. WorkersGone'
    <3>1. wPc[w] # "ended"
      BY <1>2 DEF WorkerStep, Dequeue, Push, Discard, Copy, Signal, PrepareRead
    <3> QED BY <2>1, <3>1 DEF Turns, WorkersGone
  <2>3. ReadableEmpty'
    BY <1>2, <2>1, WorkerKeepsReadable DEF Turns, ReadableEmpty, HandedOver
  <2>4. NoEndYet' /\ InTurns' /\ ReadsReadable'
    BY <2>1 DEF Turns, NoEndYet, InTurns, ReadsReadable, TurnWithMain, NoTurn, AtBatch
  <2> QED BY <2>2, <2>3, <2>4 DEF Turns
<1>3. CASE SwitchStep
  <2> USE <1>0 DEF Turns, NoEndYet, InTurns, ReadsReadable, ReadableEmpty, TurnWithMain, NoTurn,
                   AtBatch, HandedOver
  <2>1. CASE SwitchWake
    BY <1>1, <2>1 DEF SwitchWake
  <2>2. CASE SwitchEnd
    BY <1>1, <2>2 DEF SwitchEnd
  <2>3. CASE EnterSection
    BY <1>1, <2>3 DEF EnterSection
  <2>4. CASE Swap
    BY <1>1, <2>4 DEF Swap
  <2>5. CASE LeaveSection
    BY <1>1, <2>5 DEF LeaveSection
  <2>6. CASE SwitchAgain
    BY <1>1, <2>6 DEF SwitchAgain
  <2>7. CASE TellMain
    BY <1>1, <2>7 DEF TellMain
  <2>8. CASE AwaitComplete
    BY <1>1, <2>8 DEF AwaitComplete
  <2> QED BY <1>3, <2>1, <2>2, <2>3, <2>4, <2>5, <2>6, <2>7, <2>8 DEF SwitchStep
<1>4. CASE MainStep
  <2> USE <1>0 DEF Turns, NoEndYet, InTurns, ReadsReadable, ReadableEmpty, TurnWithMain, NoTurn,
                   AtBatch, HandedOver
  <2>1. CASE BeginMsg
    BY <1>1, <2>1 DEF BeginMsg
  <2>2. CASE BeginResume
    BY <1>1, <2>2 DEF BeginResume
  <2>3. CASE Handle
    BY <1>1, <2>3 DEF Handle
  <2>4. CASE EndLoop
    BY <1>1, <2>4 DEF EndLoop
  <2>5. CASE Clear
    BY <1>1, <2>5 DEF Clear
  <2>6. CASE TellSwitch
    BY <1>1, <2>6 DEF TellSwitch
  <2>7. CASE MainEnd
    BY <1>1, <2>7 DEF MainEnd
  <2> QED BY <1>4, <2>1, <2>2, <2>3, <2>4, <2>5, <2>6, <2>7 DEF MainStep
<1>5. CASE CloseComplitionIO
  BY <1>5 DEF CloseComplitionIO, Turns, WorkersGone, NoEndYet, InTurns, ReadsReadable,
              ReadableEmpty, TurnWithMain, NoTurn, AtBatch, HandedOver
<1>6. CASE DestroyStep
  <2>1. ~Serving' /\ WorkersGone'
    BY <1>6 DEF DestroyStep, ResumeMainThread, EndMainThread, EndSwitchQueThread, DeleteQues,
                Turns, WorkersGone
  <2> QED BY <2>1 DEF Turns, NoEndYet, InTurns, ReadsReadable, ReadableEmpty
<1>7. ASSUME NEW c \in Connection, NEW n \in 0..MaxBatch, NEW bye \in BOOLEAN,
             Receive(c, n, bye)
      PROVE  Turns'
  BY <1>7 DEF Receive, Turns, WorkersGone, NoEndYet, InTurns, ReadsReadable, ReadableEmpty,
              TurnWithMain, NoTurn, AtBatch, HandedOver
<1>8. CASE UNCHANGED vars
  BY <1>8 DEF vars, Turns, WorkersGone, NoEndYet, InTurns, ReadsReadable, ReadableEmpty,
              TurnWithMain, NoTurn, AtBatch, HandedOver
<1> QED BY <1>2, <1>3, <1>4, <1>5, <1>6, <1>7, <1>8 DEF Next

LEMMA AllTurns == SafeSpec => [](Types /\ Writing /\ Turns)
  BY InitTypes, InitWriting, InitTurns, StepTypes, StepWriting, StepTurns, PTL DEF SafeSpec

\* The queues change between two batches only, and the workers get an empty one,
\* until the server is taken down: nothing the main thread has not handled yet is
\* mixed with new messages.
THEOREM QueuesHandedOverWhole == SafeSpec => HandedOverWhole
<1>1. ASSUME Types, Turns, [Next]_vars, writable' # writable, Serving
      PROVE  mPc \notin {"loop", "clear"} /\ que[1 - writable] = <<>>
  <2>1. Swap
    BY <1>1 DEF Next, WorkerStep, SwitchStep, MainStep, DestroyStep, Receive, Dequeue, Push,
                Discard, Copy, Signal, PrepareRead, SwitchWake, SwitchEnd, EnterSection,
                LeaveSection, SwitchAgain, TellMain, AwaitComplete, BeginMsg, BeginResume, Handle,
                EndLoop, Clear, TellSwitch, MainEnd, CloseComplitionIO, ResumeMainThread,
                EndMainThread, EndSwitchQueThread, DeleteQues, queVars, vars
  <2> QED BY <1>1, <2>1 DEF Swap, Turns, InTurns, NoTurn, ReadableEmpty, HandedOver
<1>2. Types /\ Writing /\ Turns /\ [Next]_vars
      => [writable' # writable /\ dPc \in {"run", "workers"} =>
            mPc \notin {"loop", "clear"} /\ que[1 - writable] = <<>>]_vars
  BY <1>1 DEF Serving
<1> QED BY <1>2, AllTurns, PTL DEF HandedOverWhole, SafeSpec

\* The main thread finds every message of its batch whole.
THEOREM BatchIsWhole == SafeSpec => []NothingReadUnfinished
<1>1. ASSUME Types, Writing, Turns, mPc \in {"loop", "clear"}, NEW i \in DOMAIN que[pQ],
             que[pQ][i].copying # Nobody
      PROVE  FALSE
  <2>1. pQ \in Que /\ writable \in Que
    BY <1>1 DEF Types, TypeOK
  <2>2. que[pQ][i].copying \in Worker
    BY <1>1, <2>1, CopierType
  <2>3. pQ = writable /\ wPc[que[pQ][i].copying] = "copy"
    BY <1>1, <2>1 DEF Writing, CopierAtWork
  <2>4. Serving
    BY <1>1, <2>2, <2>3 DEF Turns, WorkersGone
  <2> QED BY <1>1, <2>1, <2>3, <2>4 DEF Turns, ReadsReadable, AtBatch, Que
<1>2. Types /\ Writing /\ Turns => NothingReadUnfinished
  BY <1>1 DEF NothingReadUnfinished
<1> QED BY <1>2, AllTurns, PTL

(***************************************************************************)
(* The batch.  While the main thread is at it the queue keeps its length:  *)
(* the workers write into the other one, or have ended.                    *)
(***************************************************************************)

WithinBatch == /\ mPc = "loop" => next <= Len(que[pQ])
               /\ NothingClearedUnread

LEMMA StepBatch == Types /\ Turns /\ WithinBatch /\ [Next]_vars => WithinBatch'
<1> SUFFICES ASSUME Types, Turns, WithinBatch, [Next]_vars PROVE WithinBatch'
  OBVIOUS
<1> USE DEF netVars, workerVars, queVars, swEvents, mainEvents, switchVars, mainVars
<1>0. /\ que \in [Que -> Seq(Slot)] /\ writable \in Que /\ 1 - writable \in Que /\ pQ \in Que
      /\ next \in Nat /\ \A q \in Que : Len(que[q]) \in Nat
  BY LenProperties DEF Types, TypeOK, Que
<1>1. ASSUME UNCHANGED <<mPc, pQ, next>>, mPc \in {"loop", "clear"} => Len(que'[pQ]) = Len(que[pQ])
      PROVE  WithinBatch'
  BY <1>1 DEF WithinBatch, NothingClearedUnread
<1>2. ASSUME NEW w \in Worker, WorkerStep(w) PROVE WithinBatch'
  <2>1. UNCHANGED <<mPc, pQ, next>> /\ wPc[w] # "ended"
    BY <1>2 DEF WorkerStep, Dequeue, Push, Discard, Copy, Signal, PrepareRead
  <2>2. Serving
    BY <2>1 DEF Turns, WorkersGone
  <2> QED BY <1>1, <1>2, <2>1, <2>2, WorkerKeepsReadable DEF Turns, ReadsReadable, AtBatch
<1>3. CASE SwitchStep
  BY <1>1, <1>3 DEF SwitchStep, SwitchWake, SwitchEnd, EnterSection, Swap, LeaveSection,
                    SwitchAgain, TellMain, AwaitComplete
<1>4. CASE MainStep
  <2>1. CASE BeginMsg \/ BeginResume
    BY <1>0, <2>1 DEF BeginMsg, BeginResume, WithinBatch, NothingClearedUnread
  <2>2. CASE Handle
    BY <1>0, <2>2 DEF Handle, WithinBatch, NothingClearedUnread
  <2>3. CASE EndLoop
    BY <1>0, <2>3 DEF EndLoop, WithinBatch, NothingClearedUnread
  <2>4. CASE Clear \/ TellSwitch \/ MainEnd
    BY <2>4 DEF Clear, TellSwitch, MainEnd, WithinBatch, NothingClearedUnread
  <2> QED BY <1>4, <2>1, <2>2, <2>3, <2>4 DEF MainStep
<1>5. CASE CloseComplitionIO \/ DestroyStep
  BY <1>1, <1>5 DEF CloseComplitionIO, DestroyStep, ResumeMainThread, EndMainThread,
                    EndSwitchQueThread, DeleteQues
<1>6. ASSUME NEW c \in Connection, NEW n \in 0..MaxBatch, NEW bye \in BOOLEAN,
             Receive(c, n, bye)
      PROVE  WithinBatch'
  BY <1>1, <1>6 DEF Receive
<1>7. CASE UNCHANGED vars
  BY <1>1, <1>7 DEF vars
<1> QED BY <1>2, <1>3, <1>4, <1>5, <1>6, <1>7 DEF Next

\* The main thread empties its queue only when it has handled all of it.
THEOREM ClearsWhatIsRead == SafeSpec => []NothingClearedUnread
<1>1. Init => WithinBatch
  BY DEF Init, WithinBatch, NothingClearedUnread
<1>2. WithinBatch => NothingClearedUnread
  BY DEF WithinBatch
<1> QED BY <1>1, <1>2, AllTurns, StepBatch, PTL DEF SafeSpec

\* The two invariants as the runs check them, for any number of workers,
\* connections and messages.
THEOREM WritesStaySound == SafeSpec => []WritesSound
<1>1. TypeOK /\ WritableOnly => WritesSound
  BY DEF WritesSound
<1> QED BY <1>1, TypeCorrect, WritesWritableOnly, PTL

\* A batch reads whole messages and wipes out none that it has not handled.
THEOREM BatchStaysSound == SafeSpec => []BatchSound
<1>1. NothingReadUnfinished /\ NothingClearedUnread => BatchSound
  BY DEF BatchSound
<1> QED BY <1>1, BatchIsWhole, ClearsWhatIsRead, PTL

(***************************************************************************)
(* The reads.  A connection has one read at most that is not dealt with:   *)
(* none while it is waiting for the next one to finish, else at the        *)
(* completion port or with one worker.  That read ends with the last       *)
(* message the connection has received.                                    *)
(***************************************************************************)

OnePlace ==
  /\ \A w \in Worker : wPc[w] \in {"idle", "ended"} => job[w] = NoJob
  /\ \A i, j \in DOMAIN port : port[i].from = port[j].from /\ port[i].from # NoConnection => i = j
  /\ \A v, w \in Worker : job[v].from = job[w].from /\ job[v].from # NoConnection => v = w
  /\ \A i \in DOMAIN port, w \in Worker : port[i].from = job[w].from => port[i].from = NoConnection
  /\ \A i \in DOMAIN port : port[i].from \notin reading
  /\ \A w \in Worker : job[w].from \notin reading

Latest(d, r) == d.from # NoConnection => d.first > 0 /\ d.first + d.n = r[d.from] + 1
AllLatest == /\ \A i \in DOMAIN port : Latest(port[i], received)
             /\ \A w \in Worker : Latest(job[w], received)

Reads == OnePlace /\ AllLatest

LEMMA InitReads == Init => Reads
  BY SwitchQueAssumption, EmptySeq
  DEF Init, Reads, OnePlace, AllLatest, Latest, NoJob, Destroy, SwitchQueAssumption

\* What the port and the jobs are made of.
LEMMA ReadTypes ==
  ASSUME Types
  PROVE  /\ Len(port) \in Nat /\ DOMAIN port = 1..Len(port)
         /\ \A i \in DOMAIN port : port[i] \in Completion \cup {Destroy}
         /\ \A w \in Worker : job[w] \in Completion \cup {Destroy}
         /\ \A d \in Completion : /\ d.from \in Connection /\ d.from # NoConnection
                                  /\ d.first \in Nat /\ d.n \in Nat
         /\ Destroy.from = NoConnection
<1>1. port \in Seq(Completion \cup {Destroy})
  BY DEF Types, TypeOK
<1>2. \A d \in Completion : /\ d.from \in Connection /\ d.from # NoConnection
                            /\ d.first \in Nat /\ d.n \in Nat
  BY SwitchQueAssumption DEF Completion, SwitchQueAssumption
<1>3. \A w \in Worker : job[w] \in Completion \cup {Destroy}
  BY DEF Types, TypeOK
<1> QED BY <1>1, <1>2, <1>3, LenProperties DEF Destroy

\* A read finishes.
LEMMA ReceiveReads ==
  ASSUME Types, Reads, NEW c \in Connection, NEW n \in 0..MaxBatch, NEW bye \in BOOLEAN,
         Receive(c, n, bye)
  PROVE  Reads'
<1>0. received[c] \in Nat /\ n \in Nat
  BY SwitchQueAssumption DEF Types, TypeOK, SwitchQueAssumption
<1>1. PICK d \in Completion : /\ d = [from |-> c, first |-> received[c] + 1, n |-> n, bye |-> bye]
                              /\ d.from = c /\ d.first = received[c] + 1 /\ d.n = n
  <2>1. [from |-> c, first |-> received[c] + 1, n |-> n, bye |-> bye] \in Completion
    BY <1>0 DEF Completion
  <2> QED BY <2>1
<1>2. /\ c \in reading /\ reading' = reading \ {c} /\ port' = Append(port, d)
      /\ received' = [received EXCEPT ![c] = @ + n] /\ UNCHANGED <<wPc, job>>
  BY <1>1 DEF Receive, workerVars
<1>3. /\ Len(port') = Len(port) + 1 /\ DOMAIN port' = 1..(Len(port) + 1)
      /\ port'[Len(port) + 1] = d
      /\ \A i \in DOMAIN port : port'[i] = port[i]
      /\ DOMAIN port' = DOMAIN port \cup {Len(port) + 1}
  BY <1>2, ReadTypes DEF Types, TypeOK
<1>4. c # NoConnection /\ \A i \in DOMAIN port : port[i].from # c
  BY <1>2, SwitchQueAssumption DEF Reads, OnePlace, SwitchQueAssumption
<1>5. \A w \in Worker : job[w].from # c
  BY <1>2 DEF Reads, OnePlace
<1>6. OnePlace'
  BY <1>1, <1>2, <1>3, <1>4, <1>5 DEF Reads, OnePlace
<1>7. ASSUME NEW e \in Completion \cup {Destroy}, Latest(e, received), e.from # c
      PROVE  Latest(e, received')
  BY <1>2, <1>7, ReadTypes DEF Latest, Types, TypeOK
<1>8. Latest(d, received')
  <2>1. received'[c] = received[c] + n
    BY <1>2 DEF Types, TypeOK
  <2> QED BY <1>0, <1>1, <2>1 DEF Latest
<1>9. AllLatest'
  <2>1. \A i \in DOMAIN port : Latest(port[i], received')
    BY <1>4, <1>7, ReadTypes DEF Reads, AllLatest
  <2>2. \A w \in Worker : Latest(job[w], received')
    BY <1>5, <1>7, ReadTypes DEF Reads, AllLatest
  <2>3. \A i \in DOMAIN port' : Latest(port'[i], received')
    BY <1>3, <1>8, <2>1
  <2>4. \A w \in Worker : Latest(job'[w], received')
    BY <1>2, <2>2
  <2> QED BY <2>3, <2>4 DEF AllLatest
<1> QED BY <1>6, <1>9 DEF Reads

\* A worker takes it from the port.
LEMMA DequeueReads ==
  ASSUME Types, Reads, NEW w \in Worker, Dequeue(w)
  PROVE  Reads'
<1>1. /\ wPc[w] = "idle" /\ job[w] = NoJob /\ port # <<>> /\ port' = Tail(port)
      /\ UNCHANGED <<reading, received>>
  BY DEF Dequeue, Reads, OnePlace
<1>2. /\ Len(port) \in Nat \ {0} /\ 1 \in DOMAIN port /\ Head(port) = port[1]
      /\ DOMAIN port' = 1..(Len(port) - 1)
      /\ \A i \in DOMAIN port' : i + 1 \in DOMAIN port /\ i + 1 # 1 /\ port'[i] = port[i + 1]
  BY <1>1, EmptySeq, HeadTailProperties, LenProperties DEF Types, TypeOK
<1>3. \/ /\ port[1] = Destroy /\ UNCHANGED job /\ wPc' = [wPc EXCEPT ![w] = "ended"]
      \/ /\ port[1] # Destroy /\ job' = [job EXCEPT ![w] = port[1]]
         /\ \/ wPc' = [wPc EXCEPT ![w] = "signal"]
            \/ wPc' = [wPc EXCEPT ![w] = "push"]
  BY <1>2 DEF Dequeue
<1>4. /\ wPc \in [Worker -> {"idle", "push", "copy", "signal", "arm", "ended"}]
      /\ job \in [Worker -> Completion \cup {Destroy}]
  BY DEF Types, TypeOK
<1>5. AllLatest'
  <2>1. \A v \in Worker : job'[v] = job[v] \/ job'[v] = port[1]
    BY <1>3, <1>4
  <2> QED BY <1>1, <1>2, <2>1 DEF Reads, AllLatest
<1>6. OnePlace'
  <2>1. CASE port[1] = Destroy
    <3>1. UNCHANGED job /\ wPc' = [wPc EXCEPT ![w] = "ended"]
      BY <1>3, <2>1
    <3> QED BY <1>1, <1>2, <1>4, <3>1 DEF Reads, OnePlace
  <2>2. CASE port[1] # Destroy
    <3>1. job' = [job EXCEPT ![w] = port[1]] /\ wPc'[w] \in {"signal", "push"}
          /\ \A v \in Worker \ {w} : wPc'[v] = wPc[v]
      BY <1>3, <1>4, <2>2
    <3>2. port[1].from \notin reading /\ job[w].from = NoConnection
      BY <1>1, <1>2 DEF Reads, OnePlace, NoJob, Destroy
    <3>3. /\ \A i \in DOMAIN port' : port'[i].from = port[1].from => port[1].from = NoConnection
          /\ \A v \in Worker : job[v].from = port[1].from => port[1].from = NoConnection
      BY <1>2 DEF Reads, OnePlace
    <3>4. \A v \in Worker : job'[v] = IF v = w THEN port[1] ELSE job[v]
      BY <1>4, <3>1
    <3> QED BY <1>1, <1>2, <3>1, <3>2, <3>3, <3>4 DEF Reads, OnePlace
  <2> QED BY <2>1, <2>2
<1> QED BY <1>5, <1>6 DEF Reads

LEMMA StepReads == Types /\ Reads /\ [Next]_vars => Reads'
<1> SUFFICES ASSUME Types, Reads, [Next]_vars PROVE Reads'
  OBVIOUS
<1> USE DEF netVars, workerVars, queVars, swEvents, mainEvents, switchVars, mainVars
<1>0. /\ wPc \in [Worker -> {"idle", "push", "copy", "signal", "arm", "ended"}]
      /\ job \in [Worker -> Completion \cup {Destroy}]
  BY DEF Types, TypeOK
<1>1. ASSUME UNCHANGED <<port, reading, received, job, wPc>> PROVE Reads'
  BY <1>1 DEF Reads, OnePlace, AllLatest, Latest
<1>2. ASSUME NEW w \in Worker, Push(w) \/ Discard(w) \/ Copy(w) PROVE Reads'
  <2>1. /\ UNCHANGED <<port, reading, received, job>>
        /\ wPc'[w] \notin {"idle", "ended"} /\ \A v \in Worker \ {w} : wPc'[v] = wPc[v]
    BY <1>0, <1>2 DEF Push, Discard, Copy
  <2>2. OnePlace'
    BY <2>1 DEF Reads, OnePlace
  <2> QED BY <2>1, <2>2 DEF Reads, AllLatest, Latest
<1>3. ASSUME NEW w \in Worker, Signal(w) \/ PrepareRead(w) PROVE Reads'
  <2>1. /\ UNCHANGED <<port, received>> /\ wPc[w] \in {"signal", "arm"}
        /\ \/ UNCHANGED <<job, reading>> /\ wPc'[w] = "arm"
           \/ job' = [job EXCEPT ![w] = NoJob] /\ reading' \in {reading, reading \cup {job[w].from}}
        /\ \A v \in Worker \ {w} : wPc'[v] = wPc[v]
    BY <1>0, <1>3 DEF Signal, AfterSignal, PrepareRead
  <2>2. job[w] \in Completion /\ job[w].from # NoConnection /\ NoJob.from = NoConnection
    BY <2>1, ReadTypes DEF Types, JobKnown, NoJob
  <2>3. CASE UNCHANGED <<job, reading>> /\ wPc'[w] = "arm"
    BY <2>1, <2>3 DEF Reads, OnePlace, AllLatest, Latest
  <2>4. CASE job' = [job EXCEPT ![w] = NoJob] /\ reading' \in {reading, reading \cup {job[w].from}}
    <3>1. \A v \in Worker : job'[v] = IF v = w THEN NoJob ELSE job[v]
      BY <1>0, <2>4
    <3>2. AllLatest'
      BY <2>1, <2>2, <3>1 DEF Reads, AllLatest, Latest
    <3>3. NoConnection \notin reading'
      BY <2>2, <2>4, SwitchQueAssumption DEF Types, TypeOK, SwitchQueAssumption
    <3>4. OnePlace'
      BY <2>1, <2>2, <2>4, <3>1, <3>3 DEF Reads, OnePlace
    <3> QED BY <3>2, <3>4 DEF Reads
  <2> QED BY <2>1, <2>3, <2>4
<1>4. CASE CloseComplitionIO
  <2>1. UNCHANGED <<reading, received, job, wPc>>
    BY <1>4 DEF CloseComplitionIO
  <2>2. PICK D : D = [v \in Worker |-> Destroy]
    OBVIOUS
  <2>3. D \in Seq(Completion \cup {Destroy}) /\ Len(D) = NumWorkers
        /\ \A i \in 1..NumWorkers : D[i] = Destroy
    <3>1. D \in [1..NumWorkers -> Completion \cup {Destroy}]
      BY <2>2 DEF Worker
    <3> QED BY <2>2, <3>1, SeqOfFunction, SwitchQueAssumption DEF SwitchQueAssumption, Worker
  <2>4. \A i \in DOMAIN port' : (i \in DOMAIN port /\ port'[i] = port[i]) \/ port'[i] = Destroy
    <3>1. port \in Seq(Completion \cup {Destroy}) /\ port' = port \o D
      BY <1>4, <2>2 DEF CloseComplitionIO, Types, TypeOK
    <3>2. /\ port' \in Seq(Completion \cup {Destroy}) /\ Len(port') = Len(port) + Len(D)
          /\ \A i \in 1..Len(port) + Len(D) :
               port'[i] = IF i <= Len(port) THEN port[i] ELSE D[i - Len(port)]
      BY <2>3, <3>1, ConcatProperties
    <3> QED BY <2>3, <3>1, <3>2, LenProperties, SwitchQueAssumption DEF SwitchQueAssumption
  <2>5. Destroy.from = NoConnection /\ NoConnection \notin reading
    BY SwitchQueAssumption DEF Destroy, Types, TypeOK, SwitchQueAssumption
  <2>6. OnePlace'
    BY <2>1, <2>4, <2>5 DEF Reads, OnePlace
  <2>7. AllLatest'
    BY <2>1, <2>4, <2>5 DEF Reads, AllLatest, Latest
  <2> QED BY <2>6, <2>7 DEF Reads
<1>5. ASSUME NEW w \in Worker, WorkerStep(w) PROVE Reads'
  BY <1>2, <1>3, <1>5, DequeueReads DEF WorkerStep
<1>6. CASE SwitchStep \/ MainStep \/ DestroyStep \/ UNCHANGED vars
  BY <1>1, <1>6 DEF SwitchStep, SwitchWake, SwitchEnd, EnterSection, Swap, LeaveSection,
     SwitchAgain, TellMain, AwaitComplete, MainStep, BeginMsg, BeginResume, Handle, EndLoop, Clear,
     TellSwitch, MainEnd, DestroyStep, ResumeMainThread, EndMainThread, EndSwitchQueThread,
     DeleteQues, vars
<1> QED BY <1>4, <1>5, <1>6, ReceiveReads DEF Next

(***************************************************************************)
(* One connection's messages in a queue L: their places, and what it means *)
(* that the numbers in H, which have been handled, and then those in L,    *)
(* are in order, reach up to r, and leave k of them out.                   *)
(***************************************************************************)

Mine(c, L) == {i \in DOMAIN L : L[i].from = c}

InLine(c, H, L, k, r) ==
  /\ \A i, j \in DOMAIN H : i < j => H[i] < H[j]
  /\ \A i \in DOMAIN H, j \in Mine(c, L) : H[i] < L[j].no
  /\ \A i, j \in Mine(c, L) : i < j => L[i].no < L[j].no
  /\ \A i \in DOMAIN H : H[i] <= r
  /\ \A i \in Mine(c, L) : L[i].no <= r
  /\ Len(H) + Cardinality(Mine(c, L)) + k = r

\* The places, and that they are finitely many.
LEMMA MineIn ==
  ASSUME NEW c, NEW L \in Seq(Slot), NEW i \in Mine(c, L)
  PROVE  /\ i \in DOMAIN L /\ i \in 1..Len(L) /\ i \in Nat /\ i >= 1 /\ Len(L) \in Nat
         /\ L[i].from = c /\ L[i].no \in Nat
<1>1. DOMAIN L = 1..Len(L) /\ Len(L) \in Nat
  BY LenProperties
<1>2. i \in DOMAIN L /\ L[i].from = c
  BY DEF Mine
<1>3. L[i] \in Slot
  BY <1>1, <1>2, ElementOfSeq
<1> QED BY <1>1, <1>2, <1>3 DEF Slot

LEMMA MineType ==
  ASSUME NEW c, NEW L \in Seq(Slot)
  PROVE  IsFiniteSet(Mine(c, L)) /\ Cardinality(Mine(c, L)) \in Nat
<1>1. Len(L) \in Nat /\ Mine(c, L) \subseteq 1..Len(L)
  BY LenProperties DEF Mine
<1>2. IsFiniteSet(1..Len(L))
  BY <1>1, FS_Interval
<1>3. IsFiniteSet(Mine(c, L))
  BY <1>1, <1>2, FS_Subset
<1> QED BY <1>3, FS_CardinalityType

\* Two queues that agree on senders and numbers.
LEMMA LineSame ==
  ASSUME NEW c, NEW H, NEW k, NEW r, NEW L \in Seq(Slot), NEW M \in Seq(Slot),
         Len(M) = Len(L), \A i \in 1..Len(L) : M[i].from = L[i].from /\ M[i].no = L[i].no,
         InLine(c, H, L, k, r)
  PROVE  InLine(c, H, M, k, r)
<1>1. Mine(c, M) = Mine(c, L)
  BY LenProperties DEF Mine
<1>2. \A i \in Mine(c, L) : M[i].no = L[i].no
  BY MineIn
<1> QED BY <1>1, <1>2 DEF InLine

\* What is thrown away is not in the line.
LEMMA LineSkips ==
  ASSUME NEW c, NEW H \in Seq(Nat), NEW L \in Seq(Slot), NEW k \in Nat, NEW r \in Nat,
         NEW n \in Nat, InLine(c, H, L, k, r)
  PROVE  InLine(c, H, L, k + n, r + n)
<1>1. Len(H) \in Nat /\ DOMAIN H = 1..Len(H) /\ \A i \in DOMAIN H : H[i] \in Nat
  BY LenProperties
<1>2. \A i \in Mine(c, L) : L[i].no \in Nat
  BY MineIn
<1>3. Cardinality(Mine(c, L)) \in Nat
  BY MineType
<1>4. \A i \in DOMAIN H : H[i] <= r + n
  BY <1>1 DEF InLine
<1>5. \A i \in Mine(c, L) : L[i].no <= r + n
  BY <1>2 DEF InLine
<1>6. Len(H) + Cardinality(Mine(c, L)) + (k + n) = r + n
  <2>1. Len(H) + Cardinality(Mine(c, L)) + k = r
    BY DEF InLine
  <2> QED BY <1>1, <1>3, <2>1
<1> QED BY <1>4, <1>5, <1>6 DEF InLine

\* The first of the queue is handled.
LEMMA MineTail ==
  ASSUME NEW c, NEW L \in Seq(Slot), L # <<>>
  PROVE  /\ Tail(L) \in Seq(Slot)
         /\ \A i \in Mine(c, Tail(L)) : i + 1 \in Mine(c, L) \ {1} /\ Tail(L)[i] = L[i + 1]
         /\ 1 \in DOMAIN L /\ Head(L) = L[1]
         /\ Cardinality(Mine(c, Tail(L)))
              = IF Head(L).from = c THEN Cardinality(Mine(c, L)) - 1 ELSE Cardinality(Mine(c, L))
<1>1. /\ Tail(L) \in Seq(Slot) /\ Len(Tail(L)) = Len(L) - 1 /\ Len(L) \in Nat \ {0}
      /\ \A i \in 1..(Len(L) - 1) : Tail(L)[i] = L[i + 1]
      /\ DOMAIN L = 1..Len(L) /\ DOMAIN Tail(L) = 1..(Len(L) - 1)
  BY HeadTailProperties, EmptySeq, LenProperties
<1>2. \A i \in Mine(c, Tail(L)) : i + 1 \in Mine(c, L) \ {1} /\ Tail(L)[i] = L[i + 1]
  BY <1>1 DEF Mine
<1>3. \A j \in Mine(c, L) \ {1} : j \in Nat /\ j - 1 \in Mine(c, Tail(L))
  <2> SUFFICES ASSUME NEW j \in Mine(c, L) \ {1} PROVE j \in Nat /\ j - 1 \in Mine(c, Tail(L))
    OBVIOUS
  <2>1. j \in 1..Len(L) /\ j # 1 /\ L[j].from = c
    BY <1>1 DEF Mine
  <2>2. j - 1 \in 1..(Len(L) - 1) /\ (j - 1) + 1 = j
    BY <1>1, <2>1
  <2>3. Tail(L)[j - 1] = L[j]
    BY <1>1, <2>2
  <2> QED BY <1>1, <2>1, <2>2, <2>3 DEF Mine
<1>4. IsFiniteSet(Mine(c, Tail(L))) /\ \A i \in Mine(c, Tail(L)) : i \in Nat
  BY <1>1, MineType, MineIn
<1>5. Cardinality(Mine(c, L) \ {1}) = Cardinality(Mine(c, Tail(L)))
  <2>1. PICK f : f = [i \in Mine(c, Tail(L)) |-> i + 1]
    OBVIOUS
  <2>2. f \in [Mine(c, Tail(L)) -> Mine(c, L) \ {1}]
    BY <1>2, <2>1
  <2>3. \A i, j \in Mine(c, Tail(L)) : f[i] = f[j] => i = j
    BY <1>4, <2>1
  <2>4. \A j \in Mine(c, L) \ {1} : f[j - 1] = j
    BY <1>3, <2>1
  <2>5. f \in Bijection(Mine(c, Tail(L)), Mine(c, L) \ {1})
    BY <1>3, <2>2, <2>3, <2>4 DEF Bijection, Injection, Surjection, IsInjective
  <2> QED BY <1>4, <2>5, FS_Bijection DEF ExistsBijection
<1>6. 1 \in Mine(c, L) <=> Head(L).from = c
  BY <1>1 DEF Mine
<1>7. IsFiniteSet(Mine(c, L))
  BY MineType
<1>8. Cardinality(Mine(c, L) \ {1})
        = IF 1 \in Mine(c, L) THEN Cardinality(Mine(c, L)) - 1 ELSE Cardinality(Mine(c, L))
  BY <1>7, FS_RemoveElement
<1>9. 1 \in DOMAIN L /\ Head(L) = L[1]
  BY <1>1
<1> QED BY <1>1, <1>2, <1>5, <1>6, <1>8, <1>9

LEMMA LineHandled ==
  ASSUME NEW c, NEW H \in Seq(Nat), NEW L \in Seq(Slot), L # <<>>, NEW k \in Nat,
         NEW r \in Nat, InLine(c, H, L, k, r)
  PROVE  InLine(c, IF Head(L).from = c THEN Append(H, Head(L).no) ELSE H, Tail(L), k, r)
<1>1. Len(H) \in Nat /\ DOMAIN H = 1..Len(H) /\ \A i \in DOMAIN H : H[i] \in Nat
  BY LenProperties
<1>2. \A i \in Mine(c, L) : L[i].no \in Nat /\ i \in Nat /\ i >= 1
  BY MineIn
<1>3. Cardinality(Mine(c, L)) \in Nat
  BY MineType
<1>4. CASE Head(L).from # c
  <2>1. Cardinality(Mine(c, Tail(L))) = Cardinality(Mine(c, L))
    BY <1>4, MineTail
  <2>2. PICK M : M = Tail(L)
    OBVIOUS
  <2>3. \A i \in Mine(c, M) : i + 1 \in Mine(c, L) /\ M[i] = L[i + 1] /\ i \in Nat
    <3>1. \A i \in Mine(c, Tail(L)) : i + 1 \in Mine(c, L) \ {1} /\ Tail(L)[i] = L[i + 1]
      BY MineTail, Zenon
    <3>2. Tail(L) \in Seq(Slot)
      BY MineTail
    <3>3. \A i \in Mine(c, Tail(L)) : i \in Nat /\ i >= 1
      BY <3>2, MineIn, Zenon
    <3> QED BY <2>2, <3>1, <3>3
  <2>4. \A i, j \in Mine(c, M) : i < j => M[i].no < M[j].no
    <3> SUFFICES ASSUME NEW i \in Mine(c, M), NEW j \in Mine(c, M), i < j
                 PROVE  M[i].no < M[j].no
      OBVIOUS
    <3>1. i + 1 < j + 1 /\ i + 1 \in Mine(c, L) /\ j + 1 \in Mine(c, L)
      BY <2>3
    <3>2. L[i + 1].no < L[j + 1].no
      BY <3>1 DEF InLine
    <3> QED BY <2>3, <3>2
  <2> QED BY <1>4, <2>1, <2>2, <2>3, <2>4 DEF InLine
<1>5. CASE Head(L).from = c
  <2>1. PICK M : M = Tail(L)
    OBVIOUS
  <2>2. Cardinality(Mine(c, M)) = Cardinality(Mine(c, L)) - 1
    BY <1>5, <2>1, MineTail
  <2>3. \A i \in Mine(c, M) : i + 1 \in Mine(c, L) /\ M[i] = L[i + 1] /\ i \in Nat /\ i >= 1
    <3>1. \A i \in Mine(c, Tail(L)) : i + 1 \in Mine(c, L) \ {1} /\ Tail(L)[i] = L[i + 1]
      BY MineTail, Zenon
    <3>2. Tail(L) \in Seq(Slot)
      BY MineTail
    <3>3. \A i \in Mine(c, Tail(L)) : i \in Nat /\ i >= 1
      BY <3>2, MineIn, Zenon
    <3> QED BY <2>1, <3>1, <3>3
  <2>4. 1 \in Mine(c, L) /\ Head(L) = L[1] /\ L[1].no \in Nat
    <3>1. 1 \in DOMAIN L /\ Head(L) = L[1]
      BY MineTail
    <3>2. 1 \in Mine(c, L)
      BY <1>5, <3>1 DEF Mine
    <3> QED BY <1>2, <3>1, <3>2
  <2>5. PICK a \in Nat : a = L[1].no
    BY <2>4
  <2>6. PICK G : G = Append(H, a)
    OBVIOUS
  <2>7. /\ Len(G) = Len(H) + 1 /\ DOMAIN G = 1..(Len(H) + 1) /\ G[Len(H) + 1] = a
        /\ \A i \in 1..Len(H) : G[i] = H[i]
    BY <1>1, <2>6, AppendProperties, LenProperties
  <2>8. \A i \in DOMAIN H : H[i] < a
    BY <2>4, <2>5 DEF InLine
  <2>9. \A i, j \in DOMAIN G : i < j => G[i] < G[j]
    <3> SUFFICES ASSUME NEW i \in DOMAIN G, NEW j \in DOMAIN G, i < j PROVE G[i] < G[j]
      OBVIOUS
    <3>1. i \in DOMAIN H /\ G[i] = H[i]
      BY <1>1, <2>7
    <3>2. CASE j = Len(H) + 1
      BY <2>7, <2>8, <3>1, <3>2
    <3>3. CASE j \in DOMAIN H
      BY <1>1, <2>7, <3>1, <3>3 DEF InLine
    <3> QED BY <1>1, <2>7, <3>2, <3>3
  <2>10. \A i \in DOMAIN G : G[i] \in Nat /\ G[i] <= a
    BY <1>1, <2>7, <2>8
  <2>11. \A j \in Mine(c, M) : M[j].no \in Nat /\ a < M[j].no /\ M[j].no <= r
    <3> SUFFICES ASSUME NEW j \in Mine(c, M)
                 PROVE  M[j].no \in Nat /\ a < M[j].no /\ M[j].no <= r
      OBVIOUS
    <3>1. j + 1 \in Mine(c, L) /\ M[j] = L[j + 1] /\ 1 < j + 1
      BY <2>3
    <3>2. L[1].no < L[j + 1].no /\ L[j + 1].no <= r
      BY <2>4, <3>1 DEF InLine
    <3> QED BY <1>2, <2>5, <3>1, <3>2
  <2>12. \A i \in DOMAIN G, j \in Mine(c, M) : G[i] < M[j].no
    BY <2>10, <2>11
  <2>13. \A i, j \in Mine(c, M) : i < j => M[i].no < M[j].no
    <3> SUFFICES ASSUME NEW i \in Mine(c, M), NEW j \in Mine(c, M), i < j
                 PROVE  M[i].no < M[j].no
      OBVIOUS
    <3>1. i + 1 < j + 1 /\ i + 1 \in Mine(c, L) /\ j + 1 \in Mine(c, L)
      BY <2>3
    <3>2. L[i + 1].no < L[j + 1].no
      BY <3>1 DEF InLine
    <3> QED BY <2>3, <3>2
  <2>14. a <= r
    BY <2>4, <2>5 DEF InLine
  <2>15. \A i \in DOMAIN G : G[i] <= r
    BY <2>10, <2>14
  <2>16. Len(G) + Cardinality(Mine(c, M)) + k = r
    <3>1. Len(H) + Cardinality(Mine(c, L)) + k = r
      BY DEF InLine
    <3> QED BY <1>1, <1>3, <2>2, <2>7, <3>1
  <2>17. InLine(c, G, M, k, r)
    BY <2>9, <2>11, <2>12, <2>13, <2>15, <2>16 DEF InLine
  <2> QED BY <1>5, <2>1, <2>4, <2>5, <2>6, <2>17
<1> QED BY <1>4, <1>5

\* n messages of connection d, from number s + 1 on, are put behind the queue.
Grown(M, L, d, n, s) ==
  /\ M \in Seq(Slot) /\ Len(M) = Len(L) + n
  /\ \A i \in 1..Len(L) : M[i] = L[i]
  /\ \A i \in 1..n : M[Len(L) + i].from = d /\ M[Len(L) + i].no = s + i

LEMMA LineGrows ==
  ASSUME NEW c, NEW H \in Seq(Nat), NEW L \in Seq(Slot), NEW k \in Nat, NEW r \in Nat,
         NEW n \in Nat, NEW d, NEW s \in Nat, NEW M, Grown(M, L, d, n, s), c = d => s = r,
         InLine(c, H, L, k, r)
  PROVE  InLine(c, H, M, k, IF c = d THEN r + n ELSE r)
<1>2. PICK l \in Nat : l = Len(L) /\ DOMAIN L = 1..l
  BY LenProperties
<1>3. /\ M \in Seq(Slot) /\ Len(M) = l + n
      /\ \A i \in 1..l : M[i] = L[i]
      /\ \A i \in 1..n : M[l + i].from = d /\ M[l + i].no = s + i
  BY <1>2 DEF Grown
<1>4. DOMAIN M = 1..(l + n)
  BY <1>3, LenProperties
<1>5. \A i \in 1..l : M[i] = L[i] /\ i \in 1..(l + n)
  BY <1>2, <1>3
<1>6. ASSUME NEW i \in (l + 1)..(l + n)
      PROVE  M[i].no = s + (i - l) /\ M[i].from = d /\ i \in 1..(l + n) /\ i \in Int /\ i > l
  <2>1. i - l \in 1..n /\ l + (i - l) = i /\ i \in 1..(l + n) /\ i \in Int /\ i > l
    BY <1>2
  <2> QED BY <1>3, <2>1
<1>7. \A i \in 1..(l + n) : i \in 1..l \/ i \in (l + 1)..(l + n)
  BY <1>2
<1>8. Len(H) \in Nat /\ DOMAIN H = 1..Len(H) /\ \A i \in DOMAIN H : H[i] \in Nat
  BY LenProperties
<1>9. \A i \in Mine(c, L) : L[i].no \in Nat /\ i \in 1..l /\ M[i] = L[i]
  BY <1>2, <1>5, MineIn
<1>10. IsFiniteSet(Mine(c, L)) /\ Cardinality(Mine(c, L)) \in Nat
  BY MineType
<1>11. CASE c # d
  <2>1. Mine(c, M) = Mine(c, L)
    BY <1>2, <1>4, <1>5, <1>6, <1>7, <1>11 DEF Mine
  <2>2. Cardinality(Mine(c, M)) = Cardinality(Mine(c, L))
    BY <2>1, Zenon
  <2>3. InLine(c, H, M, k, r)
    BY <1>9, <2>1, <2>2 DEF InLine
  <2> QED BY <1>11, <2>3
<1>12. CASE c = d
  <2>1. PICK N : N = (l + 1)..(l + n)
    OBVIOUS
  <2>2. \A i \in N : /\ i \in 1..(l + n) /\ i \in Int /\ i > l /\ M[i].from = c
                     /\ M[i].no = r + (i - l) /\ M[i].no > r /\ M[i].no <= r + n /\ M[i].no \in Nat
    <3> SUFFICES ASSUME NEW i \in N
                 PROVE  /\ i \in 1..(l + n) /\ i \in Int /\ i > l /\ M[i].from = c
                        /\ M[i].no = r + (i - l) /\ M[i].no > r /\ M[i].no <= r + n
                        /\ M[i].no \in Nat
      OBVIOUS
    <3>1. /\ M[i].no = r + (i - l) /\ M[i].from = c /\ i \in 1..(l + n) /\ i \in Int /\ i > l
          /\ i <= l + n
      BY <1>6, <1>12, <2>1
    <3>2. PICK x \in Int : x = i - l /\ x > 0 /\ x <= n
      BY <1>2, <3>1
    <3> QED BY <3>1, <3>2
  <2>3. Mine(c, M) = Mine(c, L) \cup N
    BY <1>2, <1>4, <1>5, <1>7, <2>1, <2>2 DEF Mine
  <2>4. Cardinality(Mine(c, M)) = Cardinality(Mine(c, L) \cup N)
    BY <2>3, Zenon
  <2>5. Mine(c, L) \cap N = {}
    BY <1>9, <2>2
  <2>6. Cardinality(Mine(c, L) \cap N) = 0
    BY <2>5, FS_EmptySet, Zenon
  <2>7. IsFiniteSet(N) /\ Cardinality(N) = n
    <3>1. l + 1 \in Int /\ l + n \in Int
      BY <1>2
    <3>2. IsFiniteSet(N) /\ Cardinality(N) = IF l + 1 > l + n THEN 0 ELSE (l + n) - (l + 1) + 1
      BY <2>1, <3>1, FS_Interval
    <3> QED BY <1>2, <3>2
  <2>8. Cardinality(Mine(c, L) \cup N)
          = Cardinality(Mine(c, L)) + Cardinality(N) - Cardinality(Mine(c, L) \cap N)
    BY <1>10, <2>7, FS_Union
  <2>9. Cardinality(Mine(c, M)) = Cardinality(Mine(c, L)) + n
    BY <1>10, <2>4, <2>6, <2>7, <2>8
  <2>10. \A i \in Mine(c, L) : M[i].no \in Nat /\ M[i].no <= r /\ M[i] = L[i]
    BY <1>9 DEF InLine
  <2>11. \A i \in DOMAIN H, j \in Mine(c, M) : H[i] < M[j].no
    <3> SUFFICES ASSUME NEW i \in DOMAIN H, NEW j \in Mine(c, M) PROVE H[i] < M[j].no
      OBVIOUS
    <3>1. CASE j \in Mine(c, L)
      BY <2>10, <3>1 DEF InLine
    <3>2. CASE j \in N
      <4>1. H[i] \in Nat /\ H[i] <= r /\ M[j].no \in Nat /\ M[j].no > r
        BY <1>8, <2>2, <3>2 DEF InLine
      <4> QED BY <4>1
    <3> QED BY <2>3, <3>1, <3>2
  <2>12. \A i, j \in Mine(c, M) : i < j => M[i].no < M[j].no
    <3> SUFFICES ASSUME NEW i \in Mine(c, M), NEW j \in Mine(c, M), i < j
                 PROVE  M[i].no < M[j].no
      OBVIOUS
    <3>1. CASE j \in Mine(c, L)
      <4>1. j \in 1..l
        BY <1>9, <3>1
      <4>2. i \in Mine(c, L)
        BY <1>2, <2>2, <2>3, <4>1
      <4> QED BY <2>10, <3>1, <4>2 DEF InLine
    <3>2. CASE i \in Mine(c, L) /\ j \in N
      <4>1. M[i].no \in Nat /\ M[i].no <= r /\ M[j].no \in Nat /\ M[j].no > r
        BY <2>2, <2>10, <3>2
      <4> QED BY <4>1
    <3>3. CASE i \in N /\ j \in N
      <4>1. M[i].no = r + (i - l) /\ M[j].no = r + (j - l) /\ i \in Int /\ j \in Int
        BY <2>2, <3>3
      <4> QED BY <1>2, <4>1
    <3> QED BY <2>3, <3>1, <3>2, <3>3
  <2>13. \A i \in DOMAIN H : H[i] <= r + n
    BY <1>8 DEF InLine
  <2>14. \A i \in Mine(c, M) : M[i].no <= r + n
    BY <2>2, <2>3, <2>10
  <2>15. Len(H) + Cardinality(Mine(c, M)) + k = r + n
    <3>1. Len(H) + Cardinality(Mine(c, L)) + k = r
      BY DEF InLine
    <3>2. PICK h \in Nat : h = Len(H)
      BY <1>8
    <3>3. PICK m \in Nat : m = Cardinality(Mine(c, L))
      BY <1>10
    <3>4. h + m + k = r
      BY <3>1, <3>2, <3>3
    <3>5. Cardinality(Mine(c, M)) = m + n
      BY <2>9, <3>3
    <3>6. h + (m + n) + k = r + n
      BY <3>4
    <3> QED BY <3>2, <3>5, <3>6
  <2>16. \A i, j \in DOMAIN H : i < j => H[i] < H[j]
    BY DEF InLine
  <2>17. InLine(c, H, M, k, r + n)
    BY <2>11, <2>12, <2>13, <2>14, <2>15, <2>16 DEF InLine
  <2> QED BY <1>12, <2>17
<1> QED BY <1>11, <1>12

(***************************************************************************)
(* The number up to which the messages of a connection have been put into  *)
(* a queue or thrown away: the last one it has received, or the last one   *)
(* before the read that is still at the port or about to be pushed.        *)
(***************************************************************************)

Coming(c)  == {d \in UnderWay : d.from = c}
LastOf(D, n) == IF D = {} THEN n ELSE (CHOOSE d \in D : TRUE).first - 1
LastPut(c) == LastOf(Coming(c), received[c])

LEMMA LastOfOne ==
  ASSUME NEW d, NEW n
  PROVE  LastOf({d}, n) = d.first - 1
<1>1. (CHOOSE e \in {d} : TRUE) = d
  OBVIOUS
<1> QED BY <1>1 DEF LastOf

LEMMA UnderWayIs ==
  ASSUME NEW d
  PROVE  d \in UnderWay <=> \/ \E i \in DOMAIN port : d = port[i]
                            \/ \E w \in Worker : wPc[w] = "push" /\ d = job[w]
BY DEF UnderWay, ToSet

\* A read at the port or with a worker that has not pushed is the only one of its
\* connection.
LEMMA ComingOne ==
  ASSUME Types, Reads, NEW c \in Connection, NEW d \in UnderWay, d.from = c
  PROVE  /\ Coming(c) = {d}
         /\ d.first \in Nat \ {0} /\ d.n \in Nat /\ d.first + d.n = received[c] + 1
         /\ LastPut(c) = d.first - 1
<1>1. c # NoConnection
  BY SwitchQueAssumption DEF SwitchQueAssumption
<1>2. \A e \in UnderWay : e.from = c => e = d
  <2> SUFFICES ASSUME NEW e \in UnderWay, e.from = c PROVE e = d
    OBVIOUS
  <2>1. (\E i \in DOMAIN port : d = port[i]) \/ (\E w \in Worker : d = job[w])
    BY UnderWayIs
  <2>2. (\E i \in DOMAIN port : e = port[i]) \/ (\E w \in Worker : e = job[w])
    BY UnderWayIs
  <2>3. CASE (\E i \in DOMAIN port : d = port[i]) /\ (\E i \in DOMAIN port : e = port[i])
    BY <1>1, <2>3 DEF Reads, OnePlace
  <2>4. CASE (\E w \in Worker : d = job[w]) /\ (\E w \in Worker : e = job[w])
    BY <1>1, <2>4 DEF Reads, OnePlace
  <2>5. CASE (\E i \in DOMAIN port : d = port[i]) /\ (\E w \in Worker : e = job[w])
    BY <1>1, <2>5 DEF Reads, OnePlace
  <2>6. CASE (\E w \in Worker : d = job[w]) /\ (\E i \in DOMAIN port : e = port[i])
    BY <1>1, <2>6 DEF Reads, OnePlace
  <2> QED BY <2>1, <2>2, <2>3, <2>4, <2>5, <2>6
<1>3. Coming(c) = {d}
  BY <1>2 DEF Coming
<1>4. d \in Completion \cup {Destroy} /\ Latest(d, received)
  BY UnderWayIs, ReadTypes DEF Reads, AllLatest
<1>5. d \in Completion
  BY <1>1, <1>4, ReadTypes
<1>6. d.first \in Nat /\ d.n \in Nat
  BY <1>5, ReadTypes
<1>7. d.first > 0 /\ d.first + d.n = received[c] + 1
  BY <1>1, <1>4 DEF Latest
<1>8. LastPut(c) = LastOf({d}, received[c])
  BY <1>3, Zenon DEF LastPut
<1> QED BY <1>3, <1>6, <1>7, <1>8, LastOfOne

LEMMA LastPutType ==
  ASSUME Types, Reads, NEW c \in Connection
  PROVE  LastPut(c) \in Nat /\ LastPut(c) <= received[c] /\ received[c] \in Nat
<1>1. received[c] \in Nat
  BY DEF Types, TypeOK
<1>2. CASE Coming(c) = {}
  BY <1>1, <1>2 DEF LastPut, LastOf
<1>3. CASE Coming(c) # {}
  <2>1. PICK d \in UnderWay : d.from = c
    BY <1>3 DEF Coming
  <2>2. d.first \in Nat \ {0} /\ d.n \in Nat /\ d.first + d.n = received[c] + 1
    BY <2>1, ComingOne
  <2>3. LastPut(c) = d.first - 1
    BY <2>1, ComingOne
  <2> QED BY <1>1, <2>2, <2>3
<1> QED BY <1>2, <1>3

\* A step after which the same reads are under way.
LEMMA LastPutSame ==
  ASSUME NEW c, Coming(c)' = Coming(c), received'[c] = received[c]
  PROVE  LastPut(c)' = LastPut(c)
BY DEF LastPut

LEMMA UnderWaySame ==
  ASSUME UNCHANGED <<port, received>>,
         \A w \in Worker : /\ wPc'[w] = "push" <=> wPc[w] = "push"
                           /\ wPc[w] = "push" => job'[w] = job[w]
  PROVE  \A c : LastPut(c)' = LastPut(c)
<1>1. UnderWay' = UnderWay
  BY DEF UnderWay, ToSet
<1>2. \A c : Coming(c)' = Coming(c)
  BY <1>1 DEF Coming
<1> QED BY <1>2, LastPutSame

LEMMA ReceiveLast ==
  ASSUME Types, Reads, NEW b \in Connection, NEW n \in 0..MaxBatch, NEW bye \in BOOLEAN,
         Receive(b, n, bye), NEW c \in Connection
  PROVE  LastPut(c)' = LastPut(c)
<1>1. PICK d : d = [from |-> b, first |-> received[b] + 1, n |-> n, bye |-> bye]
  OBVIOUS
<1>2. /\ b \in reading /\ port' = Append(port, d) /\ UNCHANGED <<wPc, job>>
      /\ received' = [received EXCEPT ![b] = @ + n]
  BY <1>1 DEF Receive, workerVars
<1>3. /\ DOMAIN port' = DOMAIN port \cup {Len(port) + 1} /\ port'[Len(port) + 1] = d
      /\ \A i \in DOMAIN port : port'[i] = port[i]
  <2>1. Len(port) \in Nat /\ DOMAIN port = 1..Len(port)
    BY ReadTypes
  <2>2. /\ DOMAIN port' = 1..(Len(port) + 1) /\ port'[Len(port) + 1] = d
        /\ \A i \in 1..Len(port) : port'[i] = port[i]
    BY <1>2, <2>1
  <2> QED BY <2>1, <2>2
<1>4. UnderWay' = UnderWay \cup {d}
  BY <1>2, <1>3 DEF UnderWay, ToSet
<1>5. CASE c = b
  <2>1. Coming(c) = {}
    BY <1>2, <1>5, UnderWayIs DEF Reads, OnePlace, Coming
  <2>2. Coming(c)' = {d}
    BY <1>1, <1>4, <1>5, <2>1 DEF Coming
  <2>3. received[c] \in Nat /\ d.first = received[c] + 1
    BY <1>1, <1>5 DEF Types, TypeOK
  <2>4. LastPut(c)' = LastOf({d}, received'[c])
    BY <2>2, Zenon DEF LastPut
  <2>5. LastPut(c) = received[c]
    BY <2>1 DEF LastPut, LastOf
  <2> QED BY <2>3, <2>4, <2>5, LastOfOne
<1>6. CASE c # b
  <2>1. Coming(c)' = Coming(c)
    BY <1>1, <1>4, <1>6 DEF Coming
  <2>2. received'[c] = received[c]
    BY <1>2, <1>6 DEF Types, TypeOK
  <2> QED BY <2>1, <2>2, LastPutSame
<1> QED BY <1>5, <1>6

LEMMA DequeueLast ==
  ASSUME Types, Reads, NEW w \in Worker, Dequeue(w), NEW c \in Connection
  PROVE  LastPut(c)' = LastPut(c)
<1>1. /\ wPc[w] = "idle" /\ port # <<>> /\ port' = Tail(port) /\ received' = received
  BY DEF Dequeue
<1>2. PICK d : d = Head(port)
  OBVIOUS
<1>3. /\ 1 \in DOMAIN port /\ d = port[1]
      /\ \A i \in DOMAIN port : i = 1 \/ (i - 1 \in DOMAIN port' /\ port'[i - 1] = port[i])
      /\ \A i \in DOMAIN port' : /\ i + 1 \in DOMAIN port /\ port'[i] = port[i + 1]
                                 /\ i \in Nat \ {0}
  BY <1>1, <1>2, EmptySeq, HeadTailProperties, LenProperties DEF Types, TypeOK
<1>4. {port[i] : i \in DOMAIN port} = {d} \cup {port'[i] : i \in DOMAIN port'}
  BY <1>3
<1>5. d \in UnderWay
  BY <1>3, UnderWayIs
<1>6. /\ wPc \in [Worker -> {"idle", "push", "copy", "signal", "arm", "ended"}]
      /\ job \in [Worker -> Completion \cup {Destroy}]
  BY DEF Types, TypeOK
<1>7. CASE d = Destroy \/ d.n = 0
  <2>1. \A v \in Worker : /\ wPc'[v] = "push" <=> wPc[v] = "push"
                          /\ wPc[v] = "push" => job'[v] = job[v]
    BY <1>1, <1>2, <1>6, <1>7 DEF Dequeue
  <2>2. UnderWay = {d} \cup UnderWay'
    BY <1>4, <2>1 DEF UnderWay, ToSet
  <2>3. CASE d.from # c
    <3>1. Coming(c)' = Coming(c)
      BY <2>2, <2>3 DEF Coming
    <3> QED BY <1>1, <3>1, LastPutSame
  <2>4. CASE d.from = c
    <3>1. d # Destroy
      BY <2>4, SwitchQueAssumption DEF Destroy, SwitchQueAssumption
    <3>2. d.n = 0 /\ d.first \in Nat /\ d.first + d.n = received[c] + 1 /\ received[c] \in Nat
      BY <1>5, <1>7, <2>4, <3>1, ComingOne DEF Types, TypeOK
    <3>3. LastPut(c) = received[c]
      BY <1>5, <2>4, <3>2, ComingOne
    <3>4. d \notin UnderWay'
      <4>1. \A i \in DOMAIN port' : port'[i] # d
        <5> SUFFICES ASSUME NEW i \in DOMAIN port', port'[i] = d PROVE FALSE
          OBVIOUS
        <5>1. i + 1 \in DOMAIN port /\ port[i + 1] = d /\ d = port[1] /\ 1 \in DOMAIN port
          BY <1>3
        <5>2. d.from # NoConnection
          BY <2>4, SwitchQueAssumption DEF SwitchQueAssumption
        <5>3. i + 1 = 1
          BY <5>1, <5>2 DEF Reads, OnePlace
        <5>4. i \in Nat \ {0}
          BY <1>3
        <5> QED BY <5>3, <5>4
      <4>2. \A v \in Worker : wPc[v] = "push" => job[v] # d
        BY <1>3, <2>4, SwitchQueAssumption DEF Reads, OnePlace, SwitchQueAssumption
      <4> QED BY <2>1, <4>1, <4>2 DEF UnderWay, ToSet
    <3>5. Coming(c)' = {}
      <4>1. Coming(c) = {d}
        BY <1>5, <2>4, ComingOne
      <4> QED BY <2>2, <3>4, <4>1 DEF Coming
    <3>6. LastPut(c)' = received'[c]
      BY <3>5 DEF LastPut, LastOf
    <3> QED BY <1>1, <3>3, <3>6
  <2> QED BY <2>3, <2>4
<1>8. CASE d # Destroy /\ d.n # 0
  <2>1. job' = [job EXCEPT ![w] = d] /\ wPc' = [wPc EXCEPT ![w] = "push"]
    BY <1>2, <1>8 DEF Dequeue
  <2>2. \A v \in Worker : /\ wPc'[v] = IF v = w THEN "push" ELSE wPc[v]
                          /\ job'[v] = IF v = w THEN d ELSE job[v]
    BY <1>6, <2>1
  <2>3. UnderWay' = UnderWay
    BY <1>1, <1>4, <2>2 DEF UnderWay, ToSet
  <2>4. Coming(c)' = Coming(c)
    BY <2>3 DEF Coming
  <2> QED BY <1>1, <2>4, LastPutSame
<1> QED BY <1>7, <1>8

\* A worker has put its messages into the queue, or thrown them away.
LEMMA PutLast ==
  ASSUME Types, Reads, NEW w \in Worker, wPc[w] = "push", UNCHANGED <<port, received, job>>,
         wPc'[w] # "push", \A v \in Worker \ {w} : wPc'[v] = wPc[v], NEW c \in Connection
  PROVE  /\ LastPut(c)' = IF c = job[w].from THEN LastPut(c) + job[w].n ELSE LastPut(c)
         /\ c = job[w].from => job[w].first \in Nat /\ LastPut(c) = job[w].first - 1
<1>1. job[w] \in UnderWay
  BY UnderWayIs
<1>2. UnderWay = UnderWay' \cup {job[w]}
  BY <1>1 DEF UnderWay, ToSet
<1>3. CASE c # job[w].from
  <2>1. Coming(c)' = Coming(c)
    BY <1>2, <1>3 DEF Coming
  <2> QED BY <1>3, <2>1, LastPutSame
<1>4. CASE c = job[w].from
  <2>1. /\ job[w].first \in Nat \ {0} /\ job[w].n \in Nat
        /\ job[w].first + job[w].n = received[c] + 1
        /\ LastPut(c) = job[w].first - 1 /\ received[c] \in Nat
    BY <1>1, <1>4, ComingOne DEF Types, TypeOK
  <2>2. job[w] \notin UnderWay'
    <3>1. \A i \in DOMAIN port : port[i] # job[w]
      BY <1>4, SwitchQueAssumption DEF Reads, OnePlace, SwitchQueAssumption
    <3>2. \A v \in Worker \ {w} : job[v] # job[w]
      BY <1>4, SwitchQueAssumption DEF Reads, OnePlace, SwitchQueAssumption
    <3> QED BY <3>1, <3>2 DEF UnderWay, ToSet
  <2>3. Coming(c)' = {}
    <3>1. Coming(c) = {job[w]}
      BY <1>1, <1>4, ComingOne
    <3> QED BY <1>2, <2>2, <3>1 DEF Coming
  <2>4. LastPut(c)' = received[c]
    BY <2>3 DEF LastPut, LastOf
  <2>5. PICK f \in Nat : f = job[w].first
    BY <2>1
  <2>6. PICK m \in Nat : m = job[w].n
    BY <2>1
  <2>7. f + m = received[c] + 1 /\ received[c] \in Nat /\ LastPut(c) = f - 1
    BY <2>1, <2>5, <2>6
  <2>8. LastPut(c)' = LastPut(c) + m
    BY <2>4, <2>7
  <2> QED BY <1>4, <2>5, <2>6, <2>7, <2>8
<1> QED BY <1>3, <1>4

LEMMA CloseLast ==
  ASSUME Types, CloseComplitionIO, NEW c \in Connection
  PROVE  LastPut(c)' = LastPut(c)
<1>1. PICK D : D = [v \in Worker |-> Destroy]
  OBVIOUS
<1>2. D \in Seq(Completion \cup {Destroy}) /\ Len(D) = NumWorkers
  <2>1. D \in [1..NumWorkers -> Completion \cup {Destroy}]
    BY <1>1 DEF Worker
  <2> QED BY <1>1, <2>1, SeqOfFunction, SwitchQueAssumption DEF SwitchQueAssumption
<1>3. /\ port \in Seq(Completion \cup {Destroy}) /\ port' = port \o D
      /\ UNCHANGED <<received, wPc, job>>
  BY <1>1 DEF CloseComplitionIO, workerVars, Types, TypeOK
<1>4. /\ \A i \in DOMAIN port : i \in DOMAIN port' /\ port'[i] = port[i]
      /\ \A i \in DOMAIN port' : (i \in DOMAIN port /\ port'[i] = port[i]) \/ port'[i] = Destroy
  <2>1. /\ port' \in Seq(Completion \cup {Destroy}) /\ Len(port') = Len(port) + NumWorkers
        /\ \A i \in 1..Len(port) + NumWorkers :
             port'[i] = IF i <= Len(port) THEN port[i] ELSE D[i - Len(port)]
    BY <1>2, <1>3, ConcatProperties
  <2>2. DOMAIN port = 1..Len(port) /\ Len(port) \in Nat /\ NumWorkers \in Nat
    BY <1>3, LenProperties, SwitchQueAssumption DEF SwitchQueAssumption
  <2>3. DOMAIN port' = 1..Len(port) + NumWorkers
    BY <2>1, LenProperties
  <2>4. \A i \in 1..NumWorkers : D[i] = Destroy
    BY <1>1 DEF Worker
  <2>5. ASSUME NEW i \in DOMAIN port', i \notin DOMAIN port PROVE port'[i] = Destroy
    <3>1. ~(i <= Len(port)) /\ i - Len(port) \in 1..NumWorkers
      BY <2>2, <2>3, <2>5
    <3> QED BY <2>1, <2>3, <2>4, <3>1
  <2> QED BY <2>1, <2>2, <2>3, <2>5
<1>5. Destroy.from # c
  BY SwitchQueAssumption DEF Destroy, SwitchQueAssumption
<1>6. \A d : d.from = c => (d \in UnderWay' <=> d \in UnderWay)
  BY <1>3, <1>4, <1>5 DEF UnderWay, ToSet
<1>7. Coming(c)' = Coming(c)
  BY <1>6 DEF Coming
<1> QED BY <1>3, <1>7, LastPutSame

(***************************************************************************)
(* What of a queue s is left when n of it have been handled, if it is the  *)
(* one the main thread is in.                                              *)
(***************************************************************************)

RestOf(s, here, n) == IF here THEN SubSeq(s, n + 1, Len(s)) ELSE s

LEMMA RestType ==
  ASSUME NEW s \in Seq(Slot), NEW n \in Nat, NEW here \in BOOLEAN
  PROVE  /\ RestOf(s, here, n) \in Seq(Slot)
         /\ Len(RestOf(s, here, n))
              = IF here THEN IF n < Len(s) THEN Len(s) - n ELSE 0 ELSE Len(s)
         /\ \A i \in 1..Len(RestOf(s, here, n)) :
              RestOf(s, here, n)[i] = s[IF here THEN n + i ELSE i]
<1>1. Len(s) \in Nat
  BY LenProperties
<1>2. CASE ~here
  BY <1>1, <1>2 DEF RestOf
<1>3. CASE here
  <2>1. \A i \in (n + 1)..Len(s) : s[i] \in Slot
    BY <1>1, ElementOfSeq
  <2>2. /\ SubSeq(s, n + 1, Len(s)) \in Seq(Slot)
        /\ Len(SubSeq(s, n + 1, Len(s)))
             = IF n + 1 <= Len(s) THEN Len(s) - (n + 1) + 1 ELSE 0
        /\ \A i \in 1..(Len(s) - (n + 1) + 1) : SubSeq(s, n + 1, Len(s))[i] = s[(n + 1) + i - 1]
    BY <1>1, <2>1, SubSeqProperties
  <2>3. Len(SubSeq(s, n + 1, Len(s))) = IF n < Len(s) THEN Len(s) - n ELSE 0
    BY <1>1, <2>2
  <2>4. \A i \in 1..Len(SubSeq(s, n + 1, Len(s))) : SubSeq(s, n + 1, Len(s))[i] = s[n + i]
    <3> SUFFICES ASSUME NEW i \in 1..Len(SubSeq(s, n + 1, Len(s)))
                 PROVE  SubSeq(s, n + 1, Len(s))[i] = s[n + i]
      OBVIOUS
    <3>1. i \in 1..(Len(s) - (n + 1) + 1) /\ (n + 1) + i - 1 = n + i
      BY <1>1, <2>3
    <3> QED BY <2>2, <3>1
  <2> QED BY <1>3, <2>2, <2>3, <2>4 DEF RestOf
<1> QED BY <1>2, <1>3

\* Nothing of it has been handled, or all, or there never was anything.
LEMMA RestWhole ==
  ASSUME NEW s \in Seq(Slot), NEW here \in BOOLEAN
  PROVE  RestOf(s, here, 0) = s
<1>1. Len(RestOf(s, here, 0)) = Len(s) /\ RestOf(s, here, 0) \in Seq(Slot) /\ Len(s) \in Nat
  BY RestType, LenProperties
<1>2. \A i \in 1..Len(s) : RestOf(s, here, 0)[i] = s[i]
  BY <1>1, RestType
<1> QED BY <1>1, <1>2, SeqEqual

LEMMA RestNone ==
  ASSUME NEW s \in Seq(Slot), NEW n \in Nat, NEW here \in BOOLEAN,
         s = <<>> \/ (here /\ n = Len(s))
  PROVE  RestOf(s, here, n) = <<>>
<1>1. Len(s) \in Nat /\ (s = <<>> => Len(s) = 0)
  BY LenProperties, EmptySeq
<1>2. Len(RestOf(s, here, n)) = IF here THEN IF n < Len(s) THEN Len(s) - n ELSE 0 ELSE Len(s)
  BY RestType
<1>3. RestOf(s, here, n) \in Seq(Slot)
  BY RestType
<1>4. Len(RestOf(s, here, n)) = 0
  <2>1. CASE s = <<>>
    BY <1>1, <1>2, <2>1
  <2>2. CASE here /\ n = Len(s)
    BY <1>1, <1>2, <2>2
  <2> QED BY <2>1, <2>2
<1> QED BY <1>3, <1>4, EmptySeq

\* One of it is handled.
LEMMA RestTail ==
  ASSUME NEW s \in Seq(Slot), NEW n \in Nat, n < Len(s), NEW t \in Seq(Slot)
  PROVE  /\ RestOf(s, TRUE, n) \o t # <<>>
         /\ Head(RestOf(s, TRUE, n) \o t) = s[n + 1]
         /\ Tail(RestOf(s, TRUE, n) \o t) = RestOf(s, TRUE, n + 1) \o t
<1>1. Len(s) \in Nat /\ Len(t) \in Nat
  BY LenProperties
<1>2. PICK a : a = RestOf(s, TRUE, n)
  OBVIOUS
<1>3. a \in Seq(Slot) /\ Len(a) = Len(s) - n /\ \A i \in 1..Len(a) : a[i] = s[n + i]
  BY <1>1, <1>2, RestType
<1>4. PICK b : b = RestOf(s, TRUE, n + 1)
  OBVIOUS
<1>5. b \in Seq(Slot) /\ Len(b) = Len(s) - n - 1 /\ \A i \in 1..Len(b) : b[i] = s[n + 1 + i]
  <2>0. PICK m \in Nat : m = n + 1
    OBVIOUS
  <2>1. /\ b \in Seq(Slot) /\ \A i \in 1..Len(b) : b[i] = s[m + i]
        /\ Len(b) = IF m < Len(s) THEN Len(s) - m ELSE 0
    BY <1>4, <2>0, RestType
  <2> QED BY <1>1, <2>0, <2>1
<1>6. PICK u : u = a \o t
  OBVIOUS
<1>7. /\ u \in Seq(Slot) /\ Len(u) = Len(a) + Len(t)
      /\ \A i \in 1..(Len(a) + Len(t)) : u[i] = IF i <= Len(a) THEN a[i] ELSE t[i - Len(a)]
  BY <1>3, <1>6, ConcatProperties
<1>8. PICK v : v = b \o t
  OBVIOUS
<1>9. /\ v \in Seq(Slot) /\ Len(v) = Len(b) + Len(t)
      /\ \A i \in 1..(Len(b) + Len(t)) : v[i] = IF i <= Len(b) THEN b[i] ELSE t[i - Len(b)]
  BY <1>5, <1>8, ConcatProperties
<1>10. Len(u) \in Nat \ {0} /\ u # <<>>
  BY <1>1, <1>3, <1>7, EmptySeq
<1>11. Head(u) = s[n + 1]
  <2>1. u[1] = s[n + 1]
    BY <1>1, <1>3, <1>7
  <2> QED BY <1>7, <1>10, <2>1
<1>12. /\ Tail(u) \in Seq(Slot) /\ Len(Tail(u)) = Len(u) - 1
       /\ \A i \in 1..(Len(u) - 1) : Tail(u)[i] = u[i + 1]
  BY <1>7, <1>10, HeadTailProperties
<1>13. Len(Tail(u)) = Len(v)
  BY <1>1, <1>3, <1>5, <1>7, <1>9, <1>12
<1>14. \A i \in 1..Len(v) : Tail(u)[i] = v[i]
  <2> SUFFICES ASSUME NEW i \in 1..Len(v) PROVE Tail(u)[i] = v[i]
    OBVIOUS
  <2>1. /\ i \in 1..(Len(u) - 1) /\ i + 1 \in 1..(Len(a) + Len(t)) /\ Len(a) = Len(b) + 1
        /\ i \in 1..(Len(b) + Len(t)) /\ Len(b) \in Nat
    BY <1>1, <1>3, <1>5, <1>7, <1>9
  <2>2. Tail(u)[i] = u[i + 1]
    BY <1>12, <2>1
  <2>3. CASE i <= Len(b)
    <3>1. i + 1 <= Len(a) /\ i + 1 \in 1..Len(a) /\ i \in 1..Len(b) /\ n + (i + 1) = n + 1 + i
      BY <2>1, <2>3
    <3>2. v[i] = s[n + 1 + i]
      BY <1>5, <1>9, <2>1, <2>3, <3>1
    <3>3. u[i + 1] = s[n + (i + 1)]
      BY <1>3, <1>7, <2>1, <3>1
    <3> QED BY <2>2, <3>1, <3>2, <3>3
  <2>4. CASE ~(i <= Len(b))
    <3>1. ~(i + 1 <= Len(a)) /\ (i + 1) - Len(a) = i - Len(b)
      BY <2>1, <2>4
    <3> QED BY <1>7, <1>9, <2>1, <2>2, <2>4, <3>1
  <2> QED BY <2>3, <2>4
<1>15. Tail(u) = v
  BY <1>9, <1>12, <1>13, <1>14, SeqEqual
<1> QED BY <1>2, <1>4, <1>6, <1>8, <1>10, <1>11, <1>15

LEMMA WaitingIs ==
  Waiting = RestOf(que[1 - writable], 1 - writable = pQ, next)
            \o RestOf(que[writable], writable = pQ, next)
BY DEF Waiting, Rest, RestOf

LEMMA WaitingType ==
  ASSUME Types
  PROVE  /\ que[writable] \in Seq(Slot) /\ que[1 - writable] \in Seq(Slot) /\ next \in Nat
         /\ writable \in Que /\ 1 - writable \in Que /\ writable # 1 - writable
         /\ 1 - (1 - writable) = writable /\ pQ \in {writable, 1 - writable}
         /\ Waiting \in Seq(Slot)
<1>1. /\ que[writable] \in Seq(Slot) /\ que[1 - writable] \in Seq(Slot) /\ next \in Nat
      /\ writable \in Que /\ 1 - writable \in Que /\ writable # 1 - writable
      /\ 1 - (1 - writable) = writable /\ pQ \in {writable, 1 - writable}
  BY DEF Types, TypeOK, Que
<1>2. /\ RestOf(que[1 - writable], 1 - writable = pQ, next) \in Seq(Slot)
      /\ RestOf(que[writable], writable = pQ, next) \in Seq(Slot)
  BY <1>1, RestType
<1>3. Waiting \in Seq(Slot)
  BY <1>2, WaitingIs, ConcatProperties
<1> QED BY <1>1, <1>3

(***************************************************************************)
(* How the steps change what is waiting.  What they need to know of the    *)
(* batch: the main thread has nothing behind it between two batches, and,  *)
(* also after the workers have ended, it is never in the middle of the     *)
(* queue that is written to, and a queue is empty before it is handed out. *)
(***************************************************************************)

NextZero == mPc \in {"wait", "tell"} => next = 0
OneEmpty == que[writable] = <<>> \/ que[1 - writable] = <<>>
OneLine ==
  mPc # "ended" =>
    /\ mPc = "tell" => que[pQ] = <<>>
    /\ ~Serving /\ mPc \in {"loop", "clear"} /\ pQ = writable => que[writable] = <<>>
    /\ ~Serving /\ (sPc \in {"wait", "enter"} \/ (sPc = "leave" /\ ~swapped) \/ processComplete)
         => OneEmpty

Lined == NextZero /\ OneLine

LEMMA StepLined == Types /\ Turns /\ Lined /\ [Next]_vars => Lined'
<1> SUFFICES ASSUME Types, Turns, Lined, [Next]_vars PROVE Lined'
  OBVIOUS
<1> USE DEF netVars, workerVars, queVars, swEvents, mainEvents, switchVars, mainVars, Serving,
            Lined
<1>0. /\ que \in [Que -> Seq(Slot)] /\ writable \in Que /\ 1 - writable \in Que /\ pQ \in Que
      /\ writable # 1 - writable /\ 1 - (1 - writable) = writable
      /\ pQ \in {writable, 1 - writable}
      /\ \A q \in Que : q = writable \/ q = 1 - writable
  BY DEF Types, TypeOK, Que
<1>1. ASSUME NEW w \in Worker, WorkerStep(w) PROVE Lined'
  <2>1. UNCHANGED <<writable, processComplete, sPc, swapped, mPc, pQ, next, dPc>>
    BY <1>1, WorkerKeepsReadable
    DEF WorkerStep, Dequeue, Push, Discard, Copy, Signal, PrepareRead
  <2>2. Serving
    <3>1. wPc[w] # "ended"
      BY <1>1 DEF WorkerStep, Dequeue, Push, Discard, Copy, Signal, PrepareRead
    <3> QED BY <3>1 DEF Turns, WorkersGone
  <2>3. mPc = "tell" => pQ = 1 - writable /\ que[pQ] = <<>>
    BY <2>2 DEF Turns, NoEndYet, ReadsReadable, AtBatch, OneLine
  <2>4. mPc = "tell" => que'[pQ] = <<>>
    BY <1>1, <2>3, WorkerKeepsReadable
  <2> QED BY <2>1, <2>2, <2>4 DEF NextZero, OneLine
<1>2. CASE Swap
  <2>1. /\ sPc = "enter" /\ sPc' = "leave" /\ UNCHANGED <<que, mPc, pQ, next, processComplete, dPc>>
        /\ \/ que[writable] # <<>> /\ swapped' /\ writable' = 1 - writable
           \/ que[writable] = <<>> /\ ~swapped' /\ writable' = writable
    BY <1>2 DEF Swap
  <2>2. ~Serving /\ mPc # "ended" => OneEmpty
    BY <2>1 DEF OneLine
  <2>3. ~Serving /\ mPc # "ended" => OneEmpty'
    BY <1>0, <2>1, <2>2 DEF OneEmpty
  <2>4. ~Serving /\ mPc \in {"loop", "clear"} /\ pQ = writable' => que[writable'] = <<>>
    BY <1>0, <2>1, <2>2 DEF OneEmpty, OneLine
  <2> QED BY <2>1, <2>3, <2>4 DEF NextZero, OneLine
<1>3. CASE SwitchStep /\ ~Swap
  <2>1. /\ UNCHANGED <<que, writable, mPc, pQ, next, dPc, swapped>>
        /\ processComplete' => processComplete
        /\ \/ sPc' = sPc
           \/ sPc' \in {"complete", "ended"}
           \/ sPc = "wait" /\ sPc' = "enter"
           \/ sPc = "leave" /\ ~swapped
           \/ sPc = "complete" /\ processComplete
    BY <1>3 DEF SwitchStep, SwitchWake, SwitchEnd, EnterSection, LeaveSection, SwitchAgain,
                TellMain, AwaitComplete
  <2>2. sPc' \in {"wait", "enter"} \/ (sPc' = "leave" /\ ~swapped) \/ processComplete'
        => sPc \in {"wait", "enter"} \/ (sPc = "leave" /\ ~swapped) \/ processComplete
    BY <2>1
  <2> QED BY <2>1, <2>2 DEF NextZero, OneLine, OneEmpty
<1>4. CASE MainStep
  <2>1. CASE BeginMsg \/ BeginResume
    BY <1>0, <2>1 DEF BeginMsg, BeginResume, NextZero, OneLine, OneEmpty
  <2>2. CASE Handle \/ EndLoop
    BY <2>2 DEF Handle, EndLoop, NextZero, OneLine, OneEmpty
  <2>3. CASE Clear
    <3>1. /\ que'[pQ] = <<>> /\ \A q \in Que : que[q] = <<>> => que'[q] = <<>>
          /\ UNCHANGED <<writable, pQ, dPc, sPc, swapped, processComplete>>
          /\ mPc # "ended" /\ mPc' = "tell" /\ next' = 0
      BY <1>0, <2>3 DEF Clear
    <3> QED BY <1>0, <3>1 DEF NextZero, OneLine, OneEmpty
  <2>4. CASE TellSwitch
    <3>1. que[pQ] = <<>> /\ mPc = "tell"
      BY <2>4 DEF TellSwitch, OneLine
    <3>2. OneEmpty
      BY <1>0, <3>1 DEF OneEmpty
    <3> QED BY <2>4, <3>1, <3>2 DEF TellSwitch, NextZero, OneLine, OneEmpty
  <2>5. CASE MainEnd
    BY <2>5 DEF MainEnd, NextZero, OneLine
  <2> QED BY <1>4, <2>1, <2>2, <2>3, <2>4, <2>5 DEF MainStep
<1>5. CASE ResumeMainThread
  <2>1. /\ UNCHANGED <<que, writable, mPc, pQ, next, sPc, swapped, processComplete>>
        /\ Serving /\ ~Serving'
    BY <1>5 DEF ResumeMainThread
  <2>2. mPc \in {"loop", "clear"} => pQ # writable
    BY <1>0, <2>1 DEF Turns, ReadsReadable, AtBatch
  <2>3. sPc \in {"wait", "enter"} \/ (sPc = "leave" /\ ~swapped) \/ processComplete => ~HandedOver
    BY <2>1 DEF Turns, InTurns, NoTurn, HandedOver
  <2>4. ~HandedOver => OneEmpty
    BY <2>1 DEF Turns, ReadableEmpty, OneEmpty
  <2> QED BY <2>1, <2>2, <2>3, <2>4 DEF NextZero, OneLine, OneEmpty
<1>6. CASE EndMainThread \/ EndSwitchQueThread \/ DeleteQues
  <2>1. /\ UNCHANGED <<que, writable, mPc, pQ, next, sPc, swapped, processComplete>>
        /\ ~Serving /\ ~Serving'
    BY <1>6 DEF EndMainThread, EndSwitchQueThread, DeleteQues
  <2> QED BY <2>1 DEF NextZero, OneLine, OneEmpty
<1>7. CASE CloseComplitionIO
  <2>1. /\ UNCHANGED <<que, writable, mPc, pQ, next, sPc, swapped, processComplete>>
        /\ Serving /\ Serving'
    BY <1>7 DEF CloseComplitionIO
  <2> QED BY <2>1 DEF NextZero, OneLine, OneEmpty
<1>8. ASSUME NEW c \in Connection, NEW n \in 0..MaxBatch, NEW bye \in BOOLEAN,
             Receive(c, n, bye)
      PROVE  Lined'
  BY <1>8 DEF Receive, NextZero, OneLine, OneEmpty
<1>9. CASE UNCHANGED vars
  BY <1>9 DEF vars, NextZero, OneLine, OneEmpty
<1> QED BY <1>1, <1>2, <1>3, <1>4, <1>5, <1>6, <1>7, <1>8, <1>9 DEF Next, DestroyStep

\* A step that leaves the queues and the batch alone.
LEMMA WaitingSame ==
  ASSUME UNCHANGED <<que, writable, pQ, next>>
  PROVE  Waiting' = Waiting
BY DEF Waiting, Rest

\* A worker pushes.
LEMMA PushWaiting ==
  ASSUME Types, Turns, Lined, mPc # "ended", NEW w \in Worker, Push(w)
  PROVE  Grown(Waiting', Waiting, job[w].from, job[w].n, job[w].first - 1)
<1>1. /\ job[w] \in Completion /\ wPc[w] = "push" /\ UNCHANGED <<writable, pQ, next>>
      /\ que' = [que EXCEPT ![writable] = @ \o Slots(w)]
  BY DEF Push, Types, JobKnown, mainVars
<1>2. Serving
  BY <1>1 DEF Turns, WorkersGone
<1>3. writable = pQ => next = 0
  <2>1. writable = pQ => mPc = "wait"
    BY <1>2, WaitingType DEF Turns, ReadsReadable, AtBatch, Types, TypeOK
  <2> QED BY <2>1 DEF Lined, NextZero
<1>4. PICK a \in Seq(Slot) : a = que[writable]
  BY WaitingType
<1>5. PICK b \in Seq(Slot) : b = RestOf(que[1 - writable], 1 - writable = pQ, next)
  BY WaitingType, RestType
<1>6. PICK S \in Seq(Slot) : S = Slots(w) /\ Len(S) = job[w].n
  BY <1>1, SlotsType
<1>7. /\ job[w].n \in Nat /\ job[w].first \in Nat
      /\ \A i \in 1..job[w].n : S[i].from = job[w].from /\ S[i].no = job[w].first + i - 1
  BY <1>1, <1>6 DEF Completion, Slots
<1>8. que'[writable] = a \o S /\ que'[1 - writable] = que[1 - writable]
  BY <1>1, <1>4, <1>6, WaitingType DEF Types, TypeOK
<1>9. Waiting = b \o a
  <2>1. RestOf(que[writable], writable = pQ, next) = a
    BY <1>3, <1>4, RestWhole DEF RestOf
  <2> QED BY <1>5, <2>1, WaitingIs
<1>10. Waiting' = b \o (a \o S)
  <2>1. a \o S \in Seq(Slot)
    BY ConcatProperties
  <2>2. RestOf(a \o S, writable = pQ, next) = a \o S
    BY <1>3, <2>1, RestWhole DEF RestOf
  <2>3. Waiting' = RestOf(que'[1 - writable], 1 - writable = pQ, next)
                   \o RestOf(que'[writable], writable = pQ, next)
    BY <1>1 DEF Waiting, Rest, RestOf
  <2> QED BY <1>5, <1>8, <2>2, <2>3
<1>11. Waiting' = Waiting \o S
  BY <1>9, <1>10, ConcatAssociative
<1>12. Waiting \in Seq(Slot) /\ Len(Waiting) \in Nat
  BY WaitingType, LenProperties
<1>13. PICK V : V = Waiting
  OBVIOUS
<1>14. PICK U : U = V \o S
  OBVIOUS
<1>15. /\ U \in Seq(Slot) /\ Len(U) = Len(V) + Len(S)
       /\ \A i \in 1..(Len(V) + Len(S)) : U[i] = IF i <= Len(V) THEN V[i] ELSE S[i - Len(V)]
  BY <1>12, <1>13, <1>14, ConcatProperties
<1>16. PICK l \in Nat : l = Len(V)
  BY <1>12, <1>13
<1>17. \A i \in 1..l : U[i] = V[i]
  BY <1>6, <1>7, <1>15, <1>16
<1>18. \A i \in 1..job[w].n : U[l + i].from = job[w].from /\ U[l + i].no = job[w].first - 1 + i
  <2> SUFFICES ASSUME NEW i \in 1..job[w].n
               PROVE  U[l + i].from = job[w].from /\ U[l + i].no = job[w].first - 1 + i
    OBVIOUS
  <2>1. l + i \in 1..(l + job[w].n) /\ ~(l + i <= l) /\ (l + i) - l = i
    BY <1>7
  <2>2. U[l + i] = S[i]
    BY <1>6, <1>15, <1>16, <2>1
  <2>3. S[i].from = job[w].from /\ S[i].no = job[w].first + i - 1
    BY <1>7
  <2>4. job[w].first + i - 1 = job[w].first - 1 + i
    BY <1>7
  <2> QED BY <2>2, <2>3, <2>4
<1>19. Grown(U, V, job[w].from, job[w].n, job[w].first - 1)
  BY <1>6, <1>15, <1>16, <1>17, <1>18 DEF Grown
<1> QED BY <1>11, <1>13, <1>14, <1>19

\* A worker has copied.
LEMMA CopyWaiting ==
  ASSUME Types, NEW w \in Worker, Copy(w)
  PROVE  /\ Waiting' \in Seq(Slot) /\ Len(Waiting') = Len(Waiting)
         /\ \A i \in 1..Len(Waiting) : /\ Waiting'[i].from = Waiting[i].from
                                       /\ Waiting'[i].no = Waiting[i].no
<1> DEFINE Like(s, t) == /\ s \in Seq(Slot) /\ t \in Seq(Slot) /\ Len(t) = Len(s)
                         /\ \A i \in 1..Len(s) : t[i].from = s[i].from /\ t[i].no = s[i].no
<1>1. \A q \in Que : Like(que[q], que'[q])
  <2> SUFFICES ASSUME NEW q \in Que PROVE Like(que[q], que'[q])
    OBVIOUS
  <2>1. que[q] \in Seq(Slot) /\ que'[q] = Copied(q, w)
    BY DEF Copy, Types, TypeOK
  <2>2. DOMAIN que[q] = 1..Len(que[q]) /\ \A i \in DOMAIN que[q] : que[q][i] \in Slot
    BY <2>1, LenProperties, ElementOfSeq
  <2>3. \A i \in DOMAIN que[q] : /\ Copied(q, w)[i].from = que[q][i].from
                                 /\ Copied(q, w)[i].no = que[q][i].no
    BY <2>2 DEF Copied, Slot
  <2> QED BY <2>1, <2>2, <2>3, CopiedType
<1>2. ASSUME NEW s, NEW t, Like(s, t), NEW here \in BOOLEAN
      PROVE  Like(RestOf(s, here, next), RestOf(t, here, next))
  <2>1. next \in Nat /\ Len(s) \in Nat
    BY <1>2, LenProperties DEF Types, TypeOK
  <2>2. PICK a : a = RestOf(s, here, next)
    OBVIOUS
  <2>3. PICK b : b = RestOf(t, here, next)
    OBVIOUS
  <2>4. /\ a \in Seq(Slot) /\ Len(a) = IF here THEN IF next < Len(s) THEN Len(s) - next ELSE 0
                                              ELSE Len(s)
        /\ \A i \in 1..Len(a) : a[i] = s[IF here THEN next + i ELSE i]
    BY <1>2, <2>1, <2>2, RestType
  <2>5. /\ b \in Seq(Slot) /\ Len(b) = IF here THEN IF next < Len(t) THEN Len(t) - next ELSE 0
                                              ELSE Len(t)
        /\ \A i \in 1..Len(b) : b[i] = t[IF here THEN next + i ELSE i]
    BY <1>2, <2>1, <2>3, RestType
  <2>6. Len(b) = Len(a)
    BY <1>2, <2>4, <2>5
  <2>7. ASSUME NEW i \in 1..Len(a)
        PROVE  b[i].from = a[i].from /\ b[i].no = a[i].no
    <3>1. PICK j : j = IF here THEN next + i ELSE i
      OBVIOUS
    <3>2. j \in 1..Len(s)
      BY <2>1, <2>4, <3>1
    <3>3. a[i] = s[j] /\ b[i] = t[j]
      BY <2>4, <2>5, <2>6, <3>1
    <3> QED BY <1>2, <3>2, <3>3
  <2> QED BY <2>2, <2>3, <2>4, <2>5, <2>6, <2>7
<1>3. ASSUME NEW s, NEW t, NEW u, NEW v, Like(s, t), Like(u, v)
      PROVE  Like(s \o u, t \o v)
  <2>1. PICK a : a = s \o u
    OBVIOUS
  <2>2. PICK b : b = t \o v
    OBVIOUS
  <2>3. Len(s) \in Nat /\ Len(u) \in Nat
    BY <1>3, LenProperties
  <2>4. /\ a \in Seq(Slot) /\ Len(a) = Len(s) + Len(u)
        /\ \A i \in 1..(Len(s) + Len(u)) : a[i] = IF i <= Len(s) THEN s[i] ELSE u[i - Len(s)]
    BY <1>3, <2>1, ConcatProperties
  <2>5. /\ b \in Seq(Slot) /\ Len(b) = Len(s) + Len(u)
        /\ \A i \in 1..(Len(s) + Len(u)) : b[i] = IF i <= Len(s) THEN t[i] ELSE v[i - Len(s)]
    <3>1. t \in Seq(Slot) /\ v \in Seq(Slot)
      BY <1>3
    <3>2. Len(t) = Len(s) /\ Len(v) = Len(u)
      BY <1>3
    <3>3. /\ t \o v \in Seq(Slot) /\ Len(t \o v) = Len(t) + Len(v)
          /\ \A i \in 1..(Len(t) + Len(v)) :
               (t \o v)[i] = IF i <= Len(t) THEN t[i] ELSE v[i - Len(t)]
      BY <3>1, ConcatProperties
    <3> QED BY <2>2, <3>2, <3>3
  <2>6. ASSUME NEW i \in 1..(Len(s) + Len(u))
        PROVE  b[i].from = a[i].from /\ b[i].no = a[i].no
    <3>1. CASE i <= Len(s)
      <4>1. i \in 1..Len(s) /\ a[i] = s[i] /\ b[i] = t[i]
        BY <2>3, <2>4, <2>5, <3>1
      <4> QED BY <1>3, <4>1
    <3>2. CASE ~(i <= Len(s))
      <4>1. i - Len(s) \in 1..Len(u) /\ a[i] = u[i - Len(s)] /\ b[i] = v[i - Len(s)]
        BY <2>3, <2>4, <2>5, <3>2
      <4> QED BY <1>3, <4>1
    <3> QED BY <3>1, <3>2
  <2> QED BY <2>1, <2>2, <2>4, <2>5, <2>6
<1>4. UNCHANGED <<writable, pQ, next>>
  BY DEF Copy, mainVars
<1>5. Waiting' = RestOf(que'[1 - writable], 1 - writable = pQ, next)
                 \o RestOf(que'[writable], writable = pQ, next)
  BY <1>4 DEF Waiting, Rest, RestOf
<1>6. /\ Like(RestOf(que[1 - writable], 1 - writable = pQ, next),
              RestOf(que'[1 - writable], 1 - writable = pQ, next))
      /\ Like(RestOf(que[writable], writable = pQ, next),
              RestOf(que'[writable], writable = pQ, next))
  <2> HIDE DEF Like
  <2> QED BY <1>1, <1>2, WaitingType
<1>7. Like(Waiting, Waiting')
  <2> HIDE DEF Like
  <2> QED BY <1>3, <1>5, <1>6, WaitingIs
<1> QED BY <1>7

\* The main thread handles one.
LEMMA HandleWaiting ==
  ASSUME Types, Turns, Lined, Handle
  PROVE  /\ Waiting # <<>> /\ Waiting' = Tail(Waiting)
         /\ Head(Waiting) = que[pQ][next + 1]
<1>1. /\ mPc = "loop" /\ next < Len(que[pQ]) /\ next' = next + 1
      /\ UNCHANGED <<que, writable, pQ>>
  BY DEF Handle, queVars
<1>2. pQ = 1 - writable
  <2>1. CASE Serving
    BY <1>1, <2>1 DEF Turns, ReadsReadable, AtBatch
  <2>2. CASE ~Serving
    <3>1. pQ = writable => que[pQ] = <<>>
      BY <1>1, <2>2 DEF Lined, OneLine
    <3>2. next \in Nat
      BY WaitingType
    <3>3. que[pQ] # <<>>
      BY <1>1, <3>2, EmptySeq
    <3> QED BY <3>1, <3>3, WaitingType
  <2> QED BY <2>1, <2>2
<1>3. PICK a \in Seq(Slot) : a = que[1 - writable]
  BY WaitingType
<1>4. PICK t \in Seq(Slot) : t = que[writable]
  BY WaitingType
<1>5. (1 - writable = pQ) = TRUE /\ (writable = pQ) = FALSE /\ next \in Nat
  BY <1>2, WaitingType
<1>6. Waiting = RestOf(a, TRUE, next) \o t
  <2>1. RestOf(que[writable], writable = pQ, next) = t
    BY <1>4, <1>5 DEF RestOf
  <2> QED BY <1>3, <1>5, <2>1, WaitingIs
<1>7. Waiting' = RestOf(a, TRUE, next + 1) \o t
  <2>1. Waiting' = RestOf(que[1 - writable], 1 - writable = pQ, next + 1)
                   \o RestOf(que[writable], writable = pQ, next + 1)
    BY <1>1 DEF Waiting, Rest, RestOf
  <2>2. RestOf(que[writable], writable = pQ, next + 1) = t
    BY <1>4, <1>5 DEF RestOf
  <2> QED BY <1>3, <1>5, <2>1, <2>2
<1>8. next < Len(a) /\ que[pQ][next + 1] = a[next + 1]
  BY <1>1, <1>2, <1>3
<1> QED BY <1>5, <1>6, <1>7, <1>8, RestTail

\* It begins a batch, or ends one.
LEMMA BatchWaiting ==
  ASSUME Types, Lined, WithinBatch, BeginMsg \/ BeginResume \/ Clear
  PROVE  Waiting' = Waiting
<1>1. ASSUME BeginMsg \/ BeginResume PROVE Waiting' = Waiting
  <2>1. /\ mPc = "wait" /\ pQ' = 1 - writable /\ next' = 0 /\ UNCHANGED <<que, writable>>
    BY <1>1 DEF BeginMsg, BeginResume, queVars
  <2>2. next = 0
    BY <2>1 DEF Lined, NextZero
  <2>3. Waiting' = RestOf(que[1 - writable], 1 - writable = pQ', 0)
                   \o RestOf(que[writable], writable = pQ', 0)
    BY <2>1 DEF Waiting, Rest, RestOf
  <2>4. \A here \in BOOLEAN : /\ RestOf(que[writable], here, 0) = que[writable]
                              /\ RestOf(que[1 - writable], here, 0) = que[1 - writable]
    BY WaitingType, RestWhole
  <2>5. Waiting = que[1 - writable] \o que[writable]
    BY <2>2, <2>4, WaitingIs
  <2>6. Waiting' = que[1 - writable] \o que[writable]
    BY <2>3, <2>4
  <2> QED BY <2>5, <2>6
<1>2. ASSUME Clear PROVE Waiting' = Waiting
  <2>1. /\ mPc = "clear" /\ UNCHANGED <<pQ, writable>> /\ que' = [que EXCEPT ![pQ] = <<>>]
        /\ next = Len(que[pQ])
    BY <1>2 DEF Clear, WithinBatch, NothingClearedUnread
  <2>2. \A q \in Que : RestOf(que'[q], q = pQ, next') = RestOf(que[q], q = pQ, next)
    <3> SUFFICES ASSUME NEW q \in Que
                 PROVE  RestOf(que'[q], q = pQ, next') = RestOf(que[q], q = pQ, next)
      OBVIOUS
    <3>0. que \in [Que -> Seq(Slot)] /\ next \in Nat /\ next' = 0
      BY <1>2 DEF Clear, Types, TypeOK
    <3>1. CASE q = pQ
      <4>1. que'[q] = <<>> /\ que[q] \in Seq(Slot) /\ <<>> \in Seq(Slot)
        BY <2>1, <3>0, <3>1, EmptySeq
      <4>2. RestOf(que[q], q = pQ, next) = <<>>
        BY <2>1, <3>0, <3>1, <4>1, RestNone
      <4>3. RestOf(<<>>, q = pQ, 0) = <<>>
        BY <4>1, RestNone
      <4> QED BY <3>0, <4>1, <4>2, <4>3
    <3>2. CASE q # pQ
      BY <2>1, <3>0, <3>2 DEF RestOf
    <3> QED BY <3>1, <3>2
  <2>3. Waiting' = RestOf(que'[1 - writable], 1 - writable = pQ, next')
                   \o RestOf(que'[writable], writable = pQ, next')
    BY <2>1 DEF Waiting, Rest, RestOf
  <2> QED BY <2>2, <2>3, WaitingType, WaitingIs
<1> QED BY <1>1, <1>2

\* The switch thread swaps the queues.
LEMMA SwapWaiting ==
  ASSUME Types, Turns, Lined, mPc # "ended", Swap
  PROVE  Waiting' = Waiting
<1>1. /\ sPc = "enter" /\ UNCHANGED <<que, mPc, pQ, next>>
      /\ \/ que[writable] # <<>> /\ writable' = 1 - writable
         \/ writable' = writable
  BY DEF Swap, mainVars
<1>2. CASE writable' = writable
  BY <1>1, <1>2, WaitingSame
<1>3. CASE que[writable] # <<>> /\ writable' = 1 - writable
  <2>1. que[1 - writable] = <<>>
    <3>1. CASE Serving
      BY <1>1, <3>1 DEF Turns, ReadableEmpty, HandedOver
    <3>2. CASE ~Serving
      BY <1>1, <1>3, <3>2 DEF Lined, OneLine, OneEmpty
    <3> QED BY <3>1, <3>2
  <2>2. RestOf(que[1 - writable], 1 - writable = pQ, next) = <<>>
    BY <2>1, WaitingType, RestNone
  <2>3. PICK a \in Seq(Slot) : a = RestOf(que[writable], writable = pQ, next)
    BY WaitingType, RestType
  <2>4. Waiting = a
    BY <2>2, <2>3, WaitingIs, ConcatEmptySeq
  <2>5. Waiting' = RestOf(que[writable], writable = pQ, next)
                   \o RestOf(que[1 - writable], 1 - writable = pQ, next)
    BY <1>1, <1>3, WaitingType DEF Waiting, Rest, RestOf
  <2>6. Waiting' = a
    BY <2>2, <2>3, <2>5, ConcatEmptySeq
  <2> QED BY <2>4, <2>6
<1> QED BY <1>1, <1>2, <1>3

(***************************************************************************)
(* The flow.                                                               *)
(***************************************************************************)

Flowing ==
  mPc # "ended" =>
    \A c \in Connection : InLine(c, handled[c], Waiting, discarded[c], LastPut(c))

FlowInv == Types /\ Writing /\ Turns /\ WithinBatch /\ Reads /\ Lined /\ Flowing

LEMMA InitFlow == Init => WithinBatch /\ Reads /\ Lined /\ Flowing
<1> SUFFICES ASSUME Init PROVE WithinBatch /\ Reads /\ Lined /\ Flowing
  OBVIOUS
<1>1. WithinBatch /\ Lined
  BY DEF Init, WithinBatch, NothingClearedUnread, Lined, NextZero, OneLine, Serving
<1>2. Types
  BY InitTypes
<1>3. Waiting = <<>>
  <2>1. que[writable] = <<>> /\ que[1 - writable] = <<>>
    BY DEF Init, Que
  <2>2. /\ RestOf(que[1 - writable], 1 - writable = pQ, next) = <<>>
        /\ RestOf(que[writable], writable = pQ, next) = <<>>
    BY <1>2, <2>1, WaitingType, RestNone
  <2>3. Waiting = <<>> \o <<>>
    BY <2>2, WaitingIs
  <2> QED BY <2>3, EmptySeq, ConcatEmptySeq
<1>4. ASSUME NEW c \in Connection
      PROVE  InLine(c, handled[c], Waiting, discarded[c], LastPut(c))
  <2>1. UnderWay = {}
    BY EmptySeq DEF Init, UnderWay, ToSet
  <2>2. LastPut(c) = 0
    BY <2>1 DEF Init, LastPut, LastOf, Coming
  <2>3. handled[c] = <<>> /\ discarded[c] = 0
    BY DEF Init
  <2>4. Mine(c, <<>>) = {} /\ DOMAIN <<>> = {}
    BY DEF Mine
  <2>5. Cardinality(Mine(c, <<>>)) = 0
    BY <2>4, FS_EmptySet, Zenon
  <2>6. InLine(c, <<>>, <<>>, 0, 0)
    BY <2>4, <2>5, EmptySeq DEF InLine
  <2> QED BY <1>3, <2>2, <2>3, <2>6
<1> QED BY <1>1, <1>4, InitReads DEF Flowing

LEMMA FlowTypes ==
  ASSUME Types, Reads, NEW c \in Connection
  PROVE  /\ handled[c] \in Seq(Nat) /\ discarded[c] \in Nat /\ LastPut(c) \in Nat
         /\ Waiting \in Seq(Slot)
BY LastPutType, WaitingType DEF Types, TypeOK

\* A step that changes nothing a connection's line is made of.
LEMMA FlowSame ==
  ASSUME Flowing, mPc' # "ended" => mPc # "ended", UNCHANGED <<handled, discarded>>,
         mPc' # "ended" => Waiting' = Waiting, \A c \in Connection : LastPut(c)' = LastPut(c)
  PROVE  Flowing'
<1> SUFFICES ASSUME mPc' # "ended", NEW c \in Connection
             PROVE  InLine(c, handled'[c], Waiting', discarded'[c], LastPut(c)')
  BY DEF Flowing
<1>1. InLine(c, handled[c], Waiting, discarded[c], LastPut(c))
  BY DEF Flowing
<1> QED BY <1>1

LEMMA WorkerFlow ==
  ASSUME FlowInv, NEW w \in Worker, WorkerStep(w)
  PROVE  Flowing'
<1> USE DEF netVars, workerVars, queVars, swEvents, mainEvents, switchVars, mainVars
<1>0. /\ wPc \in [Worker -> {"idle", "push", "copy", "signal", "arm", "ended"}]
      /\ job \in [Worker -> Completion \cup {Destroy}]
      /\ discarded \in [Connection -> Nat] /\ Types /\ Reads /\ Turns /\ Lined /\ Flowing
  BY DEF FlowInv, Types, TypeOK
<1>1. CASE Dequeue(w)
  <2>1. UNCHANGED <<que, writable, pQ, next, mPc, handled, discarded>>
    BY <1>1 DEF Dequeue
  <2> QED BY <1>0, <1>1, <2>1, DequeueLast, WaitingSame, FlowSame
<1>2. CASE Push(w)
  <2>1. /\ wPc[w] = "push" /\ UNCHANGED <<port, received, job, mPc, handled, discarded>>
        /\ wPc'[w] # "push" /\ \A v \in Worker \ {w} : wPc'[v] = wPc[v]
    BY <1>0, <1>2 DEF Push
  <2>2. job[w] \in Completion
    BY <1>0, <2>1 DEF Types, JobKnown
  <2>3. PICK d \in Connection : d = job[w].from
    BY <2>2 DEF Completion
  <2>4. job[w].n \in Nat
    BY <2>2 DEF Completion
  <2>5. PICK s \in Nat : s = job[w].first - 1 /\ s = LastPut(d)
    BY <1>0, <2>1, <2>3, PutLast, FlowTypes
  <2>6. ASSUME mPc' # "ended", NEW c \in Connection
        PROVE  InLine(c, handled'[c], Waiting', discarded'[c], LastPut(c)')
    <3>1. Grown(Waiting', Waiting, d, job[w].n, s)
      BY <1>0, <1>2, <2>1, <2>3, <2>5, <2>6, PushWaiting
    <3>2. InLine(c, handled[c], Waiting, discarded[c], LastPut(c))
      BY <1>0, <2>1, <2>6 DEF Flowing
    <3>3. /\ handled[c] \in Seq(Nat) /\ discarded[c] \in Nat /\ LastPut(c) \in Nat
          /\ Waiting \in Seq(Slot)
      BY <1>0, FlowTypes
    <3>4. InLine(c, handled[c], Waiting', discarded[c],
                 IF c = d THEN LastPut(c) + job[w].n ELSE LastPut(c))
      BY <2>4, <2>5, <3>1, <3>2, <3>3, LineGrows
    <3>5. LastPut(c)' = IF c = d THEN LastPut(c) + job[w].n ELSE LastPut(c)
      BY <1>0, <2>1, <2>3, PutLast
    <3> QED BY <2>1, <3>4, <3>5
  <2> QED BY <2>6 DEF Flowing
<1>3. CASE Discard(w)
  <2>1. /\ wPc[w] = "push" /\ UNCHANGED <<port, received, job, mPc, handled, que, writable, pQ, next>>
        /\ wPc'[w] # "push" /\ \A v \in Worker \ {w} : wPc'[v] = wPc[v]
        /\ discarded' = [discarded EXCEPT ![job[w].from] = @ + job[w].n]
    BY <1>0, <1>3 DEF Discard
  <2>2. job[w] \in Completion
    BY <1>0, <2>1 DEF Types, JobKnown
  <2>3. job[w].n \in Nat
    BY <2>2 DEF Completion
  <2>4. ASSUME mPc' # "ended", NEW c \in Connection
        PROVE  InLine(c, handled'[c], Waiting', discarded'[c], LastPut(c)')
    <3>1. Waiting' = Waiting
      BY <2>1, WaitingSame
    <3>2. InLine(c, handled[c], Waiting, discarded[c], LastPut(c))
      BY <1>0, <2>1, <2>4 DEF Flowing
    <3>3. /\ handled[c] \in Seq(Nat) /\ discarded[c] \in Nat /\ LastPut(c) \in Nat
          /\ Waiting \in Seq(Slot)
      BY <1>0, FlowTypes
    <3>4. LastPut(c)' = IF c = job[w].from THEN LastPut(c) + job[w].n ELSE LastPut(c)
      BY <1>0, <2>1, PutLast
    <3>5. discarded'[c] = IF c = job[w].from THEN discarded[c] + job[w].n ELSE discarded[c]
      BY <1>0, <2>1
    <3>6. InLine(c, handled[c], Waiting, discarded[c] + job[w].n, LastPut(c) + job[w].n)
      BY <2>3, <3>2, <3>3, LineSkips
    <3>7. CASE c = job[w].from
      BY <2>1, <3>1, <3>4, <3>5, <3>6, <3>7
    <3>8. CASE c # job[w].from
      BY <2>1, <3>1, <3>2, <3>4, <3>5, <3>8
    <3> QED BY <3>7, <3>8
  <2> QED BY <2>4 DEF Flowing
<1>4. CASE Copy(w)
  <2>1. /\ UNCHANGED <<port, received, job, mPc, handled, discarded>>
        /\ wPc[w] = "copy" /\ wPc' = [wPc EXCEPT ![w] = "signal"]
    BY <1>4 DEF Copy
  <2>2. \A c : LastPut(c)' = LastPut(c)
    BY <1>0, <2>1, UnderWaySame
  <2>3. ASSUME mPc' # "ended", NEW c \in Connection
        PROVE  InLine(c, handled'[c], Waiting', discarded'[c], LastPut(c)')
    <3>1. InLine(c, handled[c], Waiting, discarded[c], LastPut(c))
      BY <1>0, <2>1, <2>3 DEF Flowing
    <3>2. /\ Waiting' \in Seq(Slot) /\ Len(Waiting') = Len(Waiting)
          /\ \A i \in 1..Len(Waiting) : /\ Waiting'[i].from = Waiting[i].from
                                        /\ Waiting'[i].no = Waiting[i].no
      BY <1>0, <1>4, CopyWaiting
    <3>3. Waiting \in Seq(Slot)
      BY <1>0, FlowTypes
    <3>4. InLine(c, handled[c], Waiting', discarded[c], LastPut(c))
      BY <3>1, <3>2, <3>3, LineSame
    <3> QED BY <2>1, <2>2, <3>4
  <2> QED BY <2>3 DEF Flowing
<1>5. CASE Signal(w) \/ PrepareRead(w)
  <2>1. /\ UNCHANGED <<port, received, mPc, handled, discarded, que, writable, pQ, next>>
        /\ wPc[w] # "push" /\ wPc'[w] # "push"
        /\ \A v \in Worker \ {w} : wPc'[v] = wPc[v] /\ job'[v] = job[v]
    BY <1>0, <1>5 DEF Signal, AfterSignal, PrepareRead
  <2>2. \A c : LastPut(c)' = LastPut(c)
    BY <2>1, UnderWaySame
  <2> QED BY <1>0, <2>1, <2>2, WaitingSame, FlowSame
<1> QED BY <1>1, <1>2, <1>3, <1>4, <1>5 DEF WorkerStep

LEMMA HandleFlow ==
  ASSUME FlowInv, Handle
  PROVE  Flowing'
<1>0. Types /\ Reads /\ Turns /\ Lined /\ Flowing /\ handled \in [Connection -> Seq(Nat)]
  BY DEF FlowInv, Types, TypeOK
<1>1. UNCHANGED <<port, received, wPc, job, discarded, mPc>> /\ mPc = "loop"
  BY DEF Handle, netVars, workerVars
<1>2. \A c : LastPut(c)' = LastPut(c)
  BY <1>1, UnderWaySame
<1>3. Waiting # <<>> /\ Waiting' = Tail(Waiting) /\ Head(Waiting) = que[pQ][next + 1]
  BY <1>0, HandleWaiting
<1>4. PICK slot \in Slot : slot = Head(Waiting)
  BY <1>0, <1>3, WaitingType, HeadTailProperties
<1>5. handled' = [handled EXCEPT ![slot.from] = Append(@, slot.no)]
  BY <1>3, <1>4 DEF Handle
<1>6. slot.from \in Connection
  BY <1>4 DEF Slot
<1>7. ASSUME NEW c \in Connection
      PROVE  InLine(c, handled'[c], Waiting', discarded'[c], LastPut(c)')
  <2>1. InLine(c, handled[c], Waiting, discarded[c], LastPut(c))
    BY <1>0, <1>1 DEF Flowing
  <2>2. /\ handled[c] \in Seq(Nat) /\ discarded[c] \in Nat /\ LastPut(c) \in Nat
        /\ Waiting \in Seq(Slot)
    BY <1>0, FlowTypes
  <2>3. InLine(c, IF Head(Waiting).from = c THEN Append(handled[c], Head(Waiting).no)
                                           ELSE handled[c],
               Tail(Waiting), discarded[c], LastPut(c))
    BY <1>3, <2>1, <2>2, LineHandled
  <2>4. handled'[c] = IF slot.from = c THEN Append(handled[c], slot.no) ELSE handled[c]
    BY <1>0, <1>5, <1>6
  <2> QED BY <1>1, <1>2, <1>3, <1>4, <2>3, <2>4
<1> QED BY <1>7 DEF Flowing

LEMMA StepFlow == FlowInv /\ [Next]_vars => Flowing'
<1> SUFFICES ASSUME FlowInv, [Next]_vars PROVE Flowing'
  OBVIOUS
<1> USE DEF netVars, workerVars, queVars, swEvents, mainEvents, switchVars, mainVars
<1>0. Types /\ Reads /\ Turns /\ Lined /\ WithinBatch /\ Flowing
  BY DEF FlowInv
<1>1. ASSUME NEW c \in Connection, NEW n \in 0..MaxBatch, NEW bye \in BOOLEAN,
             Receive(c, n, bye)
      PROVE  Flowing'
  <2>1. UNCHANGED <<que, writable, pQ, next, mPc, handled, discarded>>
    BY <1>1 DEF Receive
  <2> QED BY <1>0, <1>1, <2>1, ReceiveLast, WaitingSame, FlowSame
<1>2. CASE SwitchStep
  <2>1. UNCHANGED <<port, received, wPc, job, discarded, mPc, handled>>
    BY <1>2 DEF SwitchStep, SwitchWake, SwitchEnd, EnterSection, Swap, LeaveSection, SwitchAgain,
                TellMain, AwaitComplete
  <2>2. \A c : LastPut(c)' = LastPut(c)
    BY <2>1, UnderWaySame
  <2>3. mPc # "ended" => Waiting' = Waiting
    <3>1. CASE Swap
      BY <1>0, <3>1, SwapWaiting
    <3>2. CASE ~Swap
      <4>1. UNCHANGED <<que, writable, pQ, next>>
        BY <1>2, <3>2 DEF SwitchStep, SwitchWake, SwitchEnd, EnterSection, LeaveSection,
                          SwitchAgain, TellMain, AwaitComplete
      <4> QED BY <4>1, WaitingSame
    <3> QED BY <3>1, <3>2
  <2> QED BY <1>0, <2>1, <2>2, <2>3, FlowSame
<1>3. CASE MainStep /\ ~Handle
  <2>1. /\ UNCHANGED <<port, received, wPc, job, discarded, handled>>
        /\ mPc # "ended"
    BY <1>3 DEF MainStep, BeginMsg, BeginResume, EndLoop, Clear, TellSwitch, MainEnd
  <2>2. \A c : LastPut(c)' = LastPut(c)
    BY <2>1, UnderWaySame
  <2>3. Waiting' = Waiting
    <3>1. CASE BeginMsg \/ BeginResume \/ Clear
      BY <1>0, <3>1, BatchWaiting
    <3>2. CASE EndLoop \/ TellSwitch \/ MainEnd
      <4>1. UNCHANGED <<que, writable, pQ, next>>
        BY <3>2 DEF EndLoop, TellSwitch, MainEnd
      <4> QED BY <4>1, WaitingSame
    <3> QED BY <1>3, <3>1, <3>2 DEF MainStep
  <2> QED BY <1>0, <2>1, <2>2, <2>3, FlowSame
<1>4. CASE CloseComplitionIO
  <2>1. UNCHANGED <<que, writable, pQ, next, mPc, handled, discarded>>
    BY <1>4 DEF CloseComplitionIO
  <2> QED BY <1>0, <1>4, <2>1, CloseLast, WaitingSame, FlowSame
<1>5. CASE DestroyStep \/ UNCHANGED vars
  <2>1. UNCHANGED <<port, received, wPc, job, discarded, handled, mPc, que, writable, pQ, next>>
    BY <1>5 DEF DestroyStep, ResumeMainThread, EndMainThread, EndSwitchQueThread, DeleteQues, vars
  <2>2. \A c : LastPut(c)' = LastPut(c)
    BY <2>1, UnderWaySame
  <2> QED BY <1>0, <2>1, <2>2, WaitingSame, FlowSame
<1> QED BY <1>1, <1>2, <1>3, <1>4, <1>5, WorkerFlow, HandleFlow DEF Next

LEMMA AllFlow == SafeSpec => []FlowInv
<1>1. Init => FlowInv
  BY InitTypes, InitWriting, InitTurns, InitFlow DEF FlowInv
<1>2. FlowInv /\ [Next]_vars => FlowInv'
  BY StepTypes, StepWriting, StepTurns, StepBatch, StepReads, StepLined, StepFlow DEF FlowInv
<1> QED BY <1>1, <1>2, PTL DEF SafeSpec

\* What has been read but is in no queue yet are the numbers after the last one put.
LEMMA PendingIs ==
  ASSUME Types, Reads, NEW c \in Connection
  PROVE  Pending(c) = (LastPut(c) + 1)..received[c]
<1>1. received[c] \in Nat
  BY DEF Types, TypeOK
<1>2. CASE Coming(c) = {}
  <2>1. LastPut(c) = received[c]
    BY <1>2 DEF LastPut, LastOf
  <2>2. Pending(c) = {}
    BY <1>2 DEF Pending, Coming
  <2> QED BY <1>1, <2>1, <2>2
<1>3. CASE Coming(c) # {}
  <2>1. PICK d \in UnderWay : d.from = c
    BY <1>3 DEF Coming
  <2>2. /\ Coming(c) = {d} /\ LastPut(c) = d.first - 1
        /\ d.first \in Nat \ {0} /\ d.n \in Nat /\ d.first + d.n = received[c] + 1
    BY <2>1, ComingOne
  <2>3. Pending(c) = {k \in 1..received[c] : k >= d.first /\ k < d.first + d.n}
    BY <2>1, <2>2 DEF Pending, Coming
  <2> QED BY <1>1, <2>2, <2>3
<1> QED BY <1>2, <1>3

\* For any number of workers and connections and any sizes of the queues and the
\* reads: what a connection sends is handled in order and once, and all of it that
\* was not discarded.
THEOREM FlowStaysInOrder == SafeSpec => []FlowInOrder
<1>1. ASSUME FlowInv, mPc # "ended", NEW c \in Connection
      PROVE  /\ \A i, j \in DOMAIN handled[c] : i < j => handled[c][i] < handled[c][j]
             /\ \A i \in DOMAIN handled[c], j \in InQueues(c) : handled[c][i] < Waiting[j].no
             /\ \A i, j \in InQueues(c) : i < j => Waiting[i].no < Waiting[j].no
             /\ \A k \in Pending(c) : /\ \A i \in DOMAIN handled[c] : handled[c][i] < k
                                      /\ \A i \in InQueues(c) : Waiting[i].no < k
             /\ Len(handled[c]) + Cardinality(InQueues(c)) + Cardinality(Pending(c))
                  + discarded[c] = received[c]
  <2>1. InLine(c, handled[c], Waiting, discarded[c], LastPut(c))
    BY <1>1 DEF FlowInv, Flowing
  <2>2. /\ handled[c] \in Seq(Nat) /\ discarded[c] \in Nat /\ LastPut(c) \in Nat
        /\ Waiting \in Seq(Slot) /\ LastPut(c) <= received[c] /\ received[c] \in Nat
    BY <1>1, FlowTypes, LastPutType DEF FlowInv
  <2>3. InQueues(c) = Mine(c, Waiting)
    BY DEF InQueues, Mine
  <2>4. Pending(c) = (LastPut(c) + 1)..received[c]
    BY <1>1, PendingIs DEF FlowInv
  <2>5. PICK p \in Nat : p = LastPut(c)
    BY <2>2
  <2>6. Cardinality(Pending(c)) = received[c] - p
    <3>1. Cardinality((p + 1)..received[c]) = IF p + 1 > received[c] THEN 0
                                              ELSE received[c] - (p + 1) + 1
      <4>1. p + 1 \in Int /\ received[c] \in Int
        BY <2>2
      <4> QED BY <4>1, FS_Interval
    <3>2. Cardinality(Pending(c)) = Cardinality((p + 1)..received[c])
      BY <2>4, <2>5, Zenon
    <3> QED BY <2>2, <2>5, <3>1, <3>2
  <2>7. Cardinality(InQueues(c)) = Cardinality(Mine(c, Waiting))
    BY <2>3, Zenon
  <2>8. DOMAIN handled[c] = 1..Len(handled[c]) /\ \A i \in DOMAIN handled[c] : handled[c][i] \in Nat
    BY <2>2, LenProperties, ElementOfSeq
  <2>9. \A i \in Mine(c, Waiting) : Waiting[i].no \in Nat
    BY <2>2, MineIn
  <2>10. \A k \in Pending(c) : k \in Nat /\ k > p
    BY <2>4, <2>5
  <2>11. \A k \in Pending(c) : /\ \A i \in DOMAIN handled[c] : handled[c][i] < k
                               /\ \A i \in InQueues(c) : Waiting[i].no < k
    <3> SUFFICES ASSUME NEW k \in Pending(c)
                 PROVE  /\ \A i \in DOMAIN handled[c] : handled[c][i] < k
                        /\ \A i \in InQueues(c) : Waiting[i].no < k
      OBVIOUS
    <3>1. k \in Nat /\ k > p
      BY <2>10
    <3>2. \A i \in DOMAIN handled[c] : handled[c][i] <= p
      BY <2>1, <2>5 DEF InLine
    <3>3. \A i \in Mine(c, Waiting) : Waiting[i].no <= p
      BY <2>1, <2>5 DEF InLine
    <3>4. \A i \in DOMAIN handled[c] : handled[c][i] < k
      BY <2>8, <3>1, <3>2
    <3>5. \A i \in Mine(c, Waiting) : Waiting[i].no < k
      BY <2>9, <3>1, <3>3
    <3> QED BY <2>3, <3>4, <3>5
  <2>12. Len(handled[c]) + Cardinality(InQueues(c)) + Cardinality(Pending(c)) + discarded[c]
           = received[c]
    <3>1. Len(handled[c]) + Cardinality(Mine(c, Waiting)) + discarded[c] = p
      BY <2>1, <2>5 DEF InLine
    <3>2. PICK h \in Nat : h = Len(handled[c])
      BY <2>2, LenProperties
    <3>3. PICK m \in Nat : m = Cardinality(Mine(c, Waiting))
      BY <2>2, MineType
    <3>4. h + m + discarded[c] = p
      BY <3>1, <3>2, <3>3
    <3>5. h + m + (received[c] - p) + discarded[c] = received[c]
      BY <2>2, <3>4
    <3> QED BY <2>6, <2>7, <3>2, <3>3, <3>5
  <2>13. /\ \A i, j \in DOMAIN handled[c] : i < j => handled[c][i] < handled[c][j]
         /\ \A i \in DOMAIN handled[c], j \in InQueues(c) : handled[c][i] < Waiting[j].no
         /\ \A i, j \in InQueues(c) : i < j => Waiting[i].no < Waiting[j].no
    BY <2>1, <2>3 DEF InLine
  <2> QED BY <2>11, <2>12, <2>13
<1>2. FlowInv => FlowInOrder
  BY <1>1 DEF FlowInOrder
<1> QED BY <1>2, AllFlow, PTL
=============================================================================
