--------------------------- MODULE DBThreadProofs ---------------------------
(* What the two threads of a connection guarantee for any number of blocks. *)
EXTENDS DBThread, FiniteSetTheorems, FunctionTheorems, SequenceTheorems, TLAPS

(***************************************************************************)
(* Lists, and the number of their elements that belong to a set.           *)
(***************************************************************************)

\* The elements counted are finitely many.
LEMMA CountType ==
  ASSUME NEW T, NEW s \in Seq(T), NEW S
  PROVE  /\ IsFiniteSet({i \in DOMAIN s : s[i] \in S})
         /\ Count(s, S) \in Nat
<1>1. Len(s) \in Nat /\ {i \in DOMAIN s : s[i] \in S} \subseteq 1..Len(s)
  BY LenProperties
<1>2. IsFiniteSet(1..Len(s))
  BY <1>1, FS_Interval
<1> QED BY <1>1, <1>2, FS_Subset, FS_CardinalityType DEF Count

LEMMA CountEmpty == \A S : Count(<<>>, S) = 0
<1> SUFFICES ASSUME NEW S PROVE Count(<<>>, S) = 0
  OBVIOUS
<1>1. {i \in DOMAIN <<>> : <<>>[i] \in S} = {}
  OBVIOUS
<1> QED BY <1>1, FS_EmptySet DEF Count

\* An element put at the end is counted if it belongs to the set.
LEMMA CountAppend ==
  ASSUME NEW T, NEW s \in Seq(T), NEW e \in T, NEW S
  PROVE  Count(Append(s, e), S) = Count(s, S) + One(e \in S)
<1>1. PICK A : A = {i \in DOMAIN s : s[i] \in S}
  OBVIOUS
<1>2. PICK B : B = {i \in DOMAIN Append(s, e) : Append(s, e)[i] \in S}
  OBVIOUS
<1>3. IsFiniteSet(A) /\ Cardinality(A) \in Nat
  BY <1>1, CountType DEF Count
<1>4. Len(s) + 1 \notin A
  BY <1>1, LenProperties
<1>5. CASE e \in S
  <2>1. B = A \cup {Len(s) + 1}
    BY <1>1, <1>2, <1>5, AppendProperties, LenProperties
  <2>2. Cardinality(B) = Cardinality(A) + 1
    BY <1>3, <1>4, <2>1, FS_AddElement
  <2> QED BY <1>1, <1>2, <1>5, <2>2 DEF Count, One
<1>6. CASE e \notin S
  <2>1. B = A
    BY <1>1, <1>2, <1>6, AppendProperties, LenProperties
  <2>2. Cardinality(B) = Cardinality(A) + 0
    BY <1>3, <2>1
  <2> QED BY <1>1, <1>2, <1>6, <2>2 DEF Count, One
<1> QED BY <1>5, <1>6

\* The first element is counted no more when it is taken.
LEMMA CountTail ==
  ASSUME NEW T, NEW s \in Seq(T), s # <<>>, NEW S
  PROVE  Count(s, S) = Count(Tail(s), S) + One(Head(s) \in S)
<1>1. PICK A : A = {i \in DOMAIN s : s[i] \in S}
  OBVIOUS
<1>2. PICK B : B = {i \in DOMAIN Tail(s) : Tail(s)[i] \in S}
  OBVIOUS
<1>3. /\ Tail(s) \in Seq(T) /\ Len(s) \in Nat \ {0}
      /\ DOMAIN s = 1..Len(s) /\ DOMAIN Tail(s) = 1..(Len(s) - 1)
      /\ \A i \in 1..(Len(s) - 1) : Tail(s)[i] = s[i + 1]
      /\ Head(s) = s[1]
  BY HeadTailProperties, LenProperties, EmptySeq
<1>4. IsFiniteSet(A) /\ IsFiniteSet(B) /\ Cardinality(B) \in Nat
  BY <1>1, <1>2, <1>3, CountType DEF Count
<1>5. Cardinality(A \ {1}) = Cardinality(B)
  <2>1. PICK f : f = [i \in B |-> i + 1]
    OBVIOUS
  <2>2. f \in [B -> A \ {1}]
    BY <1>1, <1>2, <1>3, <2>1
  <2>3. \A i, j \in B : f[i] = f[j] => i = j
    BY <1>2, <1>3, <2>1
  <2>4. \A k \in A \ {1} : \E i \in B : f[i] = k
    <3> SUFFICES ASSUME NEW k \in A \ {1} PROVE k - 1 \in B /\ f[k - 1] = k
      OBVIOUS
    <3> QED BY <1>1, <1>2, <1>3, <2>1
  <2>5. f \in Bijection(B, A \ {1})
    BY <2>2, <2>3, <2>4, Fun_IsBij
  <2> QED BY <1>4, <2>5, FS_Bijection DEF ExistsBijection
<1>6. Cardinality(A) = Cardinality(A \ {1}) + One(1 \in A)
  <2>1. Cardinality(A \ {1}) = IF 1 \in A THEN Cardinality(A) - 1 ELSE Cardinality(A)
    BY <1>4, FS_RemoveElement
  <2>2. Cardinality(A) \in Nat
    BY <1>4, FS_CardinalityType
  <2> QED BY <2>1, <2>2 DEF One
<1>7. 1 \in A <=> Head(s) \in S
  BY <1>1, <1>3
<1> QED BY <1>1, <1>2, <1>5, <1>6, <1>7 DEF Count, One

-----------------------------------------------------------------------------
(***************************************************************************)
(* Which list is empty and which variable is set, by where the threads     *)
(* are.  The bounds on the pools are left to the counts below.             *)
(***************************************************************************)
Types ==
  /\ freeMsg \subseteq Message /\ freeReply \in Nat /\ freeResult \in Nat
  /\ addList \in Seq(Message) /\ popList \in Seq(Message)
  /\ resultAdd \in Seq(Reply) /\ resultPop \in Seq(Reply)
  /\ dbEvent \in BOOLEAN /\ killEvent \in BOOLEAN /\ killReturn \in BOOLEAN
  /\ dbPc \in DBPc /\ rows \in BOOLEAN
  /\ executing \in Message \cup {NoMessage}
  /\ mainPc \in MainPc /\ signal \in BOOLEAN
  /\ handling \in Reply \cup {NoReply}

Phases ==
  /\ dbPc \in {"wait", "switch", "killed", "ended"} => popList = <<>>
  /\ executing # NoMessage <=> dbPc \in {"execute", "alloc", "post", "crashed"}
  /\ dbPc \notin {"alloc", "post", "crashed"} => ~rows
  /\ mainPc \in {"game", "closing", "closed"} => resultPop = <<>>
  /\ mainPc \in {"handle", "free"} <=> handling # NoReply
  /\ mainPc = "free" => handling.msg \in freeMsg
  /\ signal => mainPc \in {"game", "handle"}

Ending ==
  /\ killReturn \/ mainPc = "closed" => dbPc = "ended"
  /\ mainPc \in {"closing", "closed"} => freeMsg = Message

WellFormed == Types /\ Phases /\ Ending

LEMMA ReplyFacts == ASSUME DBAssumption PROVE NoReply \notin Reply
BY DEF DBAssumption, NoReply, Reply

LEMMA WellFormedInit == ASSUME DBAssumption, Init PROVE WellFormed
<1>1. NumMessages \in Nat /\ NumResults \in Nat
  BY FS_CardinalityType DEF DBAssumption, NumMessages
<1> QED BY <1>1, EmptySeq DEF Init, WellFormed, Types, Phases, Ending, DBPc, MainPc

\* The steps of the main thread.
LEMMA WellFormedMain ==
  ASSUME DBAssumption, WellFormed,
         (\E m \in Message : Query(m)) \/ MainStep \/ CloseDBThread
  PROVE  WellFormed'
<1> USE DEF WellFormed, Types, Phases, Ending, dbVars, pools, lists, events
<1>1. ASSUME NEW m \in Message, Query(m) PROVE WellFormed'
  BY <1>1, AppendProperties DEF Query
<1>2. CASE SignalDB
  BY <1>2 DEF SignalDB
<1>3. CASE ProcessBegin
  BY <1>3 DEF ProcessBegin, MainPc
<1>4. CASE TakeReply
  <2>1. Head(resultPop) \in Reply /\ Tail(resultPop) \in Seq(Reply)
    BY <1>4, HeadTailProperties DEF TakeReply
  <2> QED BY <1>4, <2>1, ReplyFacts DEF TakeReply, MainPc
<1>5. CASE DeletePointer
  <2>1. handling.msg \in Message /\ handling.rows \in BOOLEAN
    BY <1>5 DEF DeletePointer, Reply
  <2> QED BY <1>5, <2>1 DEF DeletePointer, MainPc
<1>6. CASE FreeReply
  BY <1>6, ReplyFacts DEF FreeReply, MainPc
<1>7. CASE ProcessEnd
  BY <1>7 DEF ProcessEnd, MainPc
<1>8. CASE CloseDBThread
  BY <1>8 DEF CloseDBThread, MainPc
<1>9. CASE CloseHandles
  BY <1>9 DEF CloseHandles, MainPc
<1> QED BY <1>1, <1>2, <1>3, <1>4, <1>5, <1>6, <1>7, <1>8, <1>9 DEF MainStep

\* The steps of the worker.
LEMMA WellFormedWorker ==
  ASSUME DBAssumption, WellFormed, WorkerStep
  PROVE  WellFormed'
<1> USE DEF WellFormed, Types, Phases, Ending, mainVars, pools, lists, events, DBPc
<1>1. CASE Wake
  BY <1>1 DEF Wake
<1>2. CASE WakeToEnd
  BY <1>2 DEF WakeToEnd
<1>3. CASE Switch
  BY <1>3 DEF Switch
<1>4. CASE Take
  <2>1. Head(popList) \in Message /\ Tail(popList) \in Seq(Message)
    BY <1>4, HeadTailProperties DEF Take
  <2> QED BY <1>4, <2>1 DEF Take, DBAssumption
<1>5. ASSUME NEW b \in BOOLEAN, Execute(b) PROVE WellFormed'
  BY <1>5 DEF Execute
<1>6. CASE AllocReply
  BY <1>6 DEF AllocReply
<1>7. CASE PostReply
  <2>1. [msg |-> executing, rows |-> rows] \in Reply
    BY <1>7 DEF PostReply, Reply
  <2>2. resultAdd' \in Seq(Reply)
    BY <1>7, <2>1, AppendProperties DEF PostReply
  <2> QED BY <1>7, <2>2 DEF PostReply
<1>8. CASE Recheck
  BY <1>8 DEF Recheck
<1>9. CASE EndThread
  BY <1>9 DEF EndThread
<1> QED BY <1>1, <1>2, <1>3, <1>4, <1>5, <1>6, <1>7, <1>8, <1>9 DEF WorkerStep

LEMMA WellFormedInvariant == SafeSpec => []WellFormed
<1>1. WellFormed /\ UNCHANGED vars => WellFormed'
  BY DEF WellFormed, Types, Phases, Ending, vars, dbVars, mainVars, pools, lists, events
<1>2. WellFormed /\ [Next]_vars => WellFormed'
  BY <1>1, DBAssumption, WellFormedMain, WellFormedWorker DEF Next
<1>3. Init => WellFormed
  BY DBAssumption, WellFormedInit
<1> QED BY <1>2, <1>3, PTL DEF SafeSpec

-----------------------------------------------------------------------------
(* The worker never sleeps over a query (Recheck and the event that        *)
(* SendMessageDB sets).                                                    *)
THEOREM NoWakeupLost == SafeSpec => []NoLostWakeup
<1>1. Init => NoLostWakeup
  BY DEF Init, NoLostWakeup
<1>2. WellFormed /\ NoLostWakeup /\ [Next]_vars => NoLostWakeup'
  <2> SUFFICES ASSUME WellFormed, NoLostWakeup, [Next]_vars PROVE NoLostWakeup'
    OBVIOUS
  <2> USE DEF NoLostWakeup, dbVars, mainVars, pools, lists, events
  <2>1. CASE UNCHANGED vars
    BY <2>1 DEF vars
  <2>2. ASSUME NEW m \in Message, Query(m) PROVE NoLostWakeup'
    BY <2>2 DEF Query
  <2>3. CASE MainStep \/ CloseDBThread
    BY <2>3 DEF MainStep, SignalDB, ProcessBegin, TakeReply, DeletePointer, FreeReply,
                ProcessEnd, CloseHandles, CloseDBThread
  <2>4. CASE WorkerStep
    <3>1. CASE Recheck
      BY <3>1 DEF Recheck
    <3>2. CASE WorkerStep /\ ~Recheck
      BY <3>2 DEF WorkerStep, Wake, WakeToEnd, Switch, Take, Execute, AllocReply, PostReply,
                  EndThread
    <3> QED BY <2>4, <3>1, <3>2
  <2> QED BY <2>1, <2>2, <2>3, <2>4 DEF Next
<1> QED BY <1>1, <1>2, WellFormedInvariant, PTL DEF SafeSpec

-----------------------------------------------------------------------------
(* Every block is in one place.                                            *)

LEMMA CountsAreNaturals ==
  ASSUME WellFormed, NEW S
  PROVE  /\ Count(addList, S) \in Nat /\ Count(popList, S) \in Nat
         /\ Count(resultAdd, S) \in Nat /\ Count(resultPop, S) \in Nat
BY CountType DEF WellFormed, Types

\* The steps of the main thread that move a block.
LEMMA OnePlaceMain ==
  ASSUME DBAssumption, WellFormed, WellFormed', BlockInOnePlace,
         (\E n \in Message : Query(n)) \/ MainStep \/ CloseDBThread
  PROVE  BlockInOnePlace'
<1> SUFFICES ASSUME NEW m \in Message
             PROVE  One(m \in freeMsg') + Count(addList', {m}) + Count(popList', {m})
                      + One(executing' = m) + Count(resultAdd', AnswersFor(m))
                      + Count(resultPop', AnswersFor(m))
                      + One(mainPc' = "handle" /\ handling'.msg = m) = 1
  BY DEF BlockInOnePlace, AnswersFor
<1>0. One(m \in freeMsg) + Count(addList, {m}) + Count(popList, {m})
        + One(executing = m) + Count(resultAdd, AnswersFor(m))
        + Count(resultPop, AnswersFor(m))
        + One(mainPc = "handle" /\ handling.msg = m) = 1
  BY DEF BlockInOnePlace
<1>n. /\ Count(addList, {m}) \in Nat /\ Count(popList, {m}) \in Nat
      /\ Count(resultAdd, AnswersFor(m)) \in Nat /\ Count(resultPop, AnswersFor(m)) \in Nat
  BY CountsAreNaturals
<1>t. /\ addList \in Seq(Message) /\ resultPop \in Seq(Reply)
      /\ (mainPc \in {"game", "closing", "closed"} => resultPop = <<>>)
  BY DEF WellFormed, Types, Phases
<1> USE DEF dbVars, pools, lists, events
<1>1. ASSUME NEW n \in Message, Query(n)
      PROVE  One(m \in freeMsg') + Count(addList', {m}) = One(m \in freeMsg) + Count(addList, {m})
  <2>1. Count(addList', {m}) = Count(addList, {m}) + One(n \in {m})
    BY <1>1, <1>t, CountAppend DEF Query
  <2> QED BY <1>1, <1>n, <2>1 DEF Query, One
<1>2. CASE \E n \in Message : Query(n)
  BY <1>0, <1>1, <1>2, <1>n DEF Query, One
<1>3. CASE SignalDB
  BY <1>0, <1>3 DEF SignalDB
<1>4. CASE ProcessBegin
  BY <1>0, <1>4, <1>n DEF ProcessBegin, One
<1>5. CASE TakeReply
  <2>1. Count(resultPop, AnswersFor(m)) = Count(resultPop', AnswersFor(m))
                                            + One(Head(resultPop) \in AnswersFor(m))
    BY <1>5, <1>t, CountTail DEF TakeReply
  <2>2. Head(resultPop) \in AnswersFor(m) <=> handling'.msg = m
    <3>1. Head(resultPop) \in Reply
      BY <1>5, <1>t, HeadTailProperties DEF TakeReply
    <3> QED BY <1>5, <3>1 DEF TakeReply, Reply, AnswersFor
  <2>3. Count(resultPop', AnswersFor(m)) \in Nat
    BY <1>5, <1>t, CountType, HeadTailProperties DEF TakeReply
  <2> QED BY <1>0, <1>5, <1>n, <2>1, <2>2, <2>3 DEF TakeReply, One
<1>6. CASE DeletePointer
  BY <1>0, <1>6, <1>n DEF DeletePointer, One
<1>7. CASE FreeReply
  BY <1>0, <1>7, <1>n DEF FreeReply, One
<1>8. CASE ProcessEnd
  BY <1>0, <1>8, <1>n DEF ProcessEnd, One
<1>9. CASE CloseDBThread \/ CloseHandles
  BY <1>0, <1>9, <1>n DEF CloseDBThread, CloseHandles, One
<1> QED BY <1>2, <1>3, <1>4, <1>5, <1>6, <1>7, <1>8, <1>9 DEF MainStep

\* The steps of the worker that move a block.
LEMMA OnePlaceWorker ==
  ASSUME DBAssumption, WellFormed, BlockInOnePlace, WorkerStep
  PROVE  BlockInOnePlace'
<1> SUFFICES ASSUME NEW m \in Message
             PROVE  One(m \in freeMsg') + Count(addList', {m}) + Count(popList', {m})
                      + One(executing' = m) + Count(resultAdd', AnswersFor(m))
                      + Count(resultPop', AnswersFor(m))
                      + One(mainPc' = "handle" /\ handling'.msg = m) = 1
  BY DEF BlockInOnePlace, AnswersFor
<1>0. One(m \in freeMsg) + Count(addList, {m}) + Count(popList, {m})
        + One(executing = m) + Count(resultAdd, AnswersFor(m))
        + Count(resultPop, AnswersFor(m))
        + One(mainPc = "handle" /\ handling.msg = m) = 1
  BY DEF BlockInOnePlace
<1>n. /\ Count(addList, {m}) \in Nat /\ Count(popList, {m}) \in Nat
      /\ Count(resultAdd, AnswersFor(m)) \in Nat /\ Count(resultPop, AnswersFor(m)) \in Nat
  BY CountsAreNaturals
<1>t. /\ popList \in Seq(Message) /\ resultAdd \in Seq(Reply) /\ rows \in BOOLEAN
      /\ NoMessage \notin Message /\ executing \in Message \cup {NoMessage}
      /\ executing # NoMessage <=> dbPc \in {"execute", "alloc", "post", "crashed"}
  BY DEF WellFormed, Types, Phases, DBAssumption
<1> USE DEF mainVars, pools, lists, events
<1>1. CASE Wake \/ WakeToEnd \/ (\E b \in BOOLEAN : Execute(b)) \/ AllocReply \/ EndThread
  BY <1>0, <1>1 DEF Wake, WakeToEnd, Execute, AllocReply, EndThread
<1>2. CASE Switch
  BY <1>0, <1>2, <1>n DEF Switch, One
<1>3. CASE Take
  <2>1. Count(popList, {m}) = Count(popList', {m}) + One(Head(popList) \in {m})
    BY <1>3, <1>t, CountTail DEF Take
  <2>2. Count(popList', {m}) \in Nat
    BY <1>3, <1>t, CountType, HeadTailProperties DEF Take
  <2>3. One(executing = m) = 0 /\ One(executing' = m) = One(Head(popList) \in {m})
    BY <1>3, <1>t DEF Take, One
  <2>4. One(Head(popList) \in {m}) \in Nat
    BY DEF One
  <2>5. /\ freeMsg' = freeMsg /\ addList' = addList /\ resultAdd' = resultAdd
        /\ resultPop' = resultPop /\ mainPc' = mainPc /\ handling' = handling
    BY <1>3 DEF Take
  <2> QED BY <1>0, <1>n, <2>1, <2>2, <2>3, <2>4, <2>5 DEF One
<1>4. CASE PostReply
  <2>1. PICK r \in Reply : r = [msg |-> executing, rows |-> rows]
    BY <1>4, <1>t DEF PostReply, Reply
  <2>2. Count(resultAdd', AnswersFor(m)) = Count(resultAdd, AnswersFor(m))
                                             + One(r \in AnswersFor(m))
    BY <1>4, <1>t, <2>1, CountAppend DEF PostReply
  <2>3. r \in AnswersFor(m) <=> executing = m
    BY <1>t, <2>1 DEF AnswersFor
  <2> QED BY <1>0, <1>4, <1>n, <1>t, <2>2, <2>3 DEF PostReply, One
<1>5. CASE Recheck
  BY <1>0, <1>5, <1>n DEF Recheck, One
<1> QED BY <1>1, <1>2, <1>3, <1>4, <1>5 DEF WorkerStep

THEOREM BlocksInOnePlace == SafeSpec => []BlockInOnePlace
<1>1. Init => BlockInOnePlace
  BY CountEmpty, DBAssumption DEF Init, BlockInOnePlace, NoReply, One, DBAssumption
<1>2. BlockInOnePlace /\ UNCHANGED vars => BlockInOnePlace'
  BY DEF BlockInOnePlace, AnswersFor, vars, dbVars, mainVars, pools, lists
<1>3. WellFormed /\ WellFormed' /\ BlockInOnePlace /\ [Next]_vars => BlockInOnePlace'
  BY <1>2, DBAssumption, OnePlaceMain, OnePlaceWorker DEF Next
<1> QED BY <1>1, <1>3, WellFormedInvariant, PTL DEF SafeSpec

-----------------------------------------------------------------------------
(***************************************************************************)
(* The blocks counted.  A block of an answer is given back after the block *)
(* of its query (FreeReply), so for a moment one more of them is in use;   *)
(* that moment is the only one in which a free block of a query is known,  *)
(* the one that was just given back.                                       *)
(***************************************************************************)
MessagesCounted ==
  Cardinality(freeMsg) + Len(addList) + Len(popList) + One(executing # NoMessage)
    + Len(resultAdd) + Len(resultPop) + One(mainPc = "handle") = NumMessages

RepliesCounted ==
  freeReply + One(dbPc = "post") + Len(resultAdd) + Len(resultPop)
    + One(mainPc \in {"handle", "free"}) = NumMessages

Counted == MessagesCounted /\ RepliesCounted /\ dbPc # "crashed"

\* The facts about lengths and pools that the counts need.
LEMMA Lengths ==
  ASSUME DBAssumption, WellFormed
  PROVE  /\ Len(addList) \in Nat /\ Len(popList) \in Nat
         /\ Len(resultAdd) \in Nat /\ Len(resultPop) \in Nat
         /\ freeReply \in Nat /\ NumMessages \in Nat
         /\ IsFiniteSet(freeMsg) /\ Cardinality(freeMsg) \in Nat
         /\ Len(<<>>) = 0
<1>1. IsFiniteSet(freeMsg) /\ Cardinality(freeMsg) \in Nat /\ NumMessages \in Nat
  BY FS_Subset, FS_CardinalityType DEF DBAssumption, WellFormed, Types, NumMessages
<1> QED BY <1>1, LenProperties, EmptySeq DEF WellFormed, Types

LEMMA CountedInit == ASSUME DBAssumption, Init PROVE Counted
<1>1. WellFormed
  BY WellFormedInit
<1> QED BY <1>1, Lengths DEF Init, Counted, MessagesCounted, RepliesCounted, One, NumMessages

\* The steps of the main thread.
LEMMA CountedMain ==
  ASSUME DBAssumption, WellFormed, BlockInOnePlace, Counted,
         (\E m \in Message : Query(m)) \/ MainStep \/ CloseDBThread
  PROVE  Counted'
<1> USE DEF Counted, MessagesCounted, RepliesCounted, dbVars, pools, lists, events
<1>l. /\ Len(addList) \in Nat /\ Len(popList) \in Nat
      /\ Len(resultAdd) \in Nat /\ Len(resultPop) \in Nat
      /\ freeReply \in Nat /\ NumMessages \in Nat
      /\ IsFiniteSet(freeMsg) /\ Cardinality(freeMsg) \in Nat
      /\ Len(<<>>) = 0
  BY Lengths
<1>t. /\ addList \in Seq(Message) /\ resultPop \in Seq(Reply)
      /\ (mainPc \in {"game", "closing", "closed"} => resultPop = <<>>)
  BY DEF WellFormed, Types, Phases
<1>1. ASSUME NEW m \in Message, Query(m) PROVE Counted'
  <2>1. Len(addList') = Len(addList) + 1
    BY <1>1, <1>t, AppendProperties DEF Query
  <2>2. Cardinality(freeMsg') = Cardinality(freeMsg) - 1
    BY <1>1, <1>l, FS_RemoveElement DEF Query
  <2>3. /\ popList' = popList /\ resultAdd' = resultAdd /\ resultPop' = resultPop
        /\ executing' = executing /\ dbPc' = dbPc /\ mainPc' = mainPc
        /\ freeReply' = freeReply
    BY <1>1 DEF Query
  <2>4. RepliesCounted'
    BY <2>3
  <2>5. MessagesCounted'
    BY <1>l, <2>1, <2>2, <2>3
  <2> QED BY <2>3, <2>4, <2>5
<1>2. CASE SignalDB
  BY <1>2 DEF SignalDB
<1>3. CASE ProcessBegin
  BY <1>3, <1>l DEF ProcessBegin, One
<1>4. CASE TakeReply
  <2>1. Len(resultPop') = Len(resultPop) - 1
    BY <1>4, <1>t, HeadTailProperties DEF TakeReply
  <2> QED BY <1>4, <1>l, <2>1 DEF TakeReply, One
<1>5. CASE DeletePointer
  <2>1. handling.msg \in Message
    BY <1>5 DEF DeletePointer, WellFormed, Types, Phases, Reply
  <2>2. handling.msg \notin freeMsg
    <3>1. PICK m \in Message : m = handling.msg
      BY <2>1
    <3>2. One(m \in freeMsg) + Count(addList, {m}) + Count(popList, {m}) + One(executing = m)
            + Count(resultAdd, AnswersFor(m)) + Count(resultPop, AnswersFor(m))
            + One(mainPc = "handle" /\ handling.msg = m) = 1
      BY DEF BlockInOnePlace
    <3>3. /\ Count(addList, {m}) \in Nat /\ Count(popList, {m}) \in Nat
          /\ Count(resultAdd, AnswersFor(m)) \in Nat /\ Count(resultPop, AnswersFor(m)) \in Nat
      BY CountsAreNaturals
    <3>4. One(mainPc = "handle" /\ handling.msg = m) = 1
      BY <1>5, <3>1 DEF DeletePointer, One
    <3>5. One(executing = m) \in Nat
      BY DEF One
    <3>6. m \in freeMsg => One(m \in freeMsg) = 1
      BY DEF One
    <3> QED BY <3>1, <3>2, <3>3, <3>4, <3>5, <3>6
  <2>3. Cardinality(freeMsg') = Cardinality(freeMsg) + 1
    BY <1>5, <1>l, <2>2, FS_AddElement DEF DeletePointer
  <2> QED BY <1>5, <1>l, <2>3 DEF DeletePointer, One
<1>6. CASE FreeReply
  BY <1>6, <1>l DEF FreeReply, One
<1>7. CASE ProcessEnd
  BY <1>7, <1>l DEF ProcessEnd, One
<1>8. CASE CloseDBThread \/ CloseHandles
  <2>1. /\ UNCHANGED <<freeMsg, freeReply, addList, popList, resultAdd, resultPop>>
        /\ UNCHANGED <<executing, dbPc>>
        /\ mainPc \notin {"handle", "free"} /\ mainPc' \notin {"handle", "free"}
    BY <1>8 DEF CloseDBThread, CloseHandles
  <2> QED BY <2>1 DEF One
<1> QED BY <1>1, <1>2, <1>3, <1>4, <1>5, <1>6, <1>7, <1>8 DEF MainStep

\* The steps of the worker; AllocReply always finds a block.
LEMMA CountedWorker ==
  ASSUME DBAssumption, WellFormed, Counted, WorkerStep
  PROVE  Counted'
<1> USE DEF Counted, MessagesCounted, RepliesCounted, mainVars, pools, lists, events
<1>l. /\ Len(addList) \in Nat /\ Len(popList) \in Nat
      /\ Len(resultAdd) \in Nat /\ Len(resultPop) \in Nat
      /\ freeReply \in Nat /\ NumMessages \in Nat
      /\ IsFiniteSet(freeMsg) /\ Cardinality(freeMsg) \in Nat
      /\ Len(<<>>) = 0
  BY Lengths
<1>t. /\ popList \in Seq(Message) /\ resultAdd \in Seq(Reply)
      /\ rows \in BOOLEAN /\ NoMessage \notin Message
      /\ executing \in Message \cup {NoMessage}
      /\ executing # NoMessage <=> dbPc \in {"execute", "alloc", "post", "crashed"}
      /\ (mainPc = "free" => freeMsg # {})
  BY DEF WellFormed, Types, Phases, DBAssumption
<1>1. CASE Wake \/ WakeToEnd \/ (\E b \in BOOLEAN : Execute(b)) \/ EndThread
  <2>1. /\ UNCHANGED <<freeMsg, freeReply, addList, popList, resultAdd, resultPop>>
        /\ UNCHANGED <<executing, mainPc>>
        /\ dbPc \notin {"post", "crashed"} /\ dbPc' \notin {"post", "crashed"}
    BY <1>1 DEF Wake, WakeToEnd, Execute, EndThread
  <2> QED BY <2>1 DEF One
<1>2. CASE Switch
  BY <1>2, <1>l DEF Switch, One
<1>3. CASE Take
  <2>1. Len(popList') = Len(popList) - 1 /\ executing' \in Message
    BY <1>3, <1>t, HeadTailProperties DEF Take
  <2> QED BY <1>3, <1>l, <1>t, <2>1 DEF Take, One
<1>4. CASE AllocReply
  <2>1. mainPc = "free" => Cardinality(freeMsg) > 0
    BY <1>l, <1>t, FS_EmptySet
  <2>2. freeReply > 0
    BY <1>4, <1>l, <1>t, <2>1 DEF AllocReply, One
  <2>3. /\ UNCHANGED <<freeMsg, addList, popList, resultAdd, resultPop, executing, mainPc>>
        /\ freeReply' = freeReply - 1 /\ dbPc = "alloc" /\ dbPc' = "post"
    BY <1>4, <2>2 DEF AllocReply
  <2> QED BY <1>l, <2>3 DEF One
<1>5. CASE PostReply
  <2>1. [msg |-> executing, rows |-> rows] \in Reply
    BY <1>5, <1>t DEF PostReply, Reply
  <2>2. Len(resultAdd') = Len(resultAdd) + 1
    BY <1>5, <1>t, <2>1, AppendProperties DEF PostReply
  <2>3. /\ UNCHANGED <<freeMsg, freeReply, addList, popList, resultPop, mainPc>>
        /\ executing # NoMessage /\ executing' = NoMessage
        /\ dbPc = "post" /\ dbPc' = "take"
    BY <1>5, <1>t DEF PostReply
  <2>4. PICK h \in Nat : h = One(mainPc = "handle")
    BY DEF One
  <2>5. Cardinality(freeMsg) + Len(addList) + Len(popList) + 1 + Len(resultAdd)
          + Len(resultPop) + h = NumMessages
    BY <2>3, <2>4 DEF One
  <2>6. MessagesCounted'
    \* Term by term, for the solver's sake.
    <3>1. Cardinality(freeMsg) + Len(addList) + Len(popList) + 0 + (Len(resultAdd) + 1)
            + Len(resultPop) + h = NumMessages
      <4>1. PICK a \in Nat : a = Cardinality(freeMsg)
        BY <1>l
      <4>2. PICK b \in Nat : b = Len(addList)
        BY <1>l
      <4>3. PICK c \in Nat : c = Len(popList)
        BY <1>l
      <4>4. PICK d \in Nat : d = Len(resultAdd)
        BY <1>l
      <4>5. PICK e \in Nat : e = Len(resultPop)
        BY <1>l
      <4>6. PICK n \in Nat : n = NumMessages
        BY <1>l
      <4>7. a + b + c + 1 + d + e + h = n
        BY <2>5, <4>1, <4>2, <4>3, <4>4, <4>5, <4>6
      <4>8. a + b + c + 0 + (d + 1) + e + h = n
        BY <4>7
      <4> QED BY <4>1, <4>2, <4>3, <4>4, <4>5, <4>6, <4>8
    <3> QED BY <2>2, <2>3, <2>4, <3>1 DEF One
  <2>7. RepliesCounted'
    BY <1>l, <2>2, <2>3 DEF One
  <2> QED BY <2>3, <2>6, <2>7
<1>6. CASE Recheck
  BY <1>6, <1>l DEF Recheck, One
<1> QED BY <1>1, <1>2, <1>3, <1>4, <1>5, <1>6 DEF WorkerStep

LEMMA CountedInvariant == SafeSpec => []Counted
<1>1. Init => Counted
  BY DBAssumption, CountedInit
<1>2. Counted /\ UNCHANGED vars => Counted'
  BY DEF Counted, MessagesCounted, RepliesCounted, vars, dbVars, mainVars, pools, lists
<1>3. WellFormed /\ BlockInOnePlace /\ Counted /\ [Next]_vars => Counted'
  BY <1>2, DBAssumption, CountedMain, CountedWorker DEF Next
<1> QED BY <1>1, <1>3, WellFormedInvariant, BlocksInOnePlace, PTL DEF SafeSpec

\* AllocReply never meets an empty pool (DispatchDBMessage does not look at the
\* pointer it gets).
THEOREM ReplyBlockIsFound == SafeSpec => []ReplyBlockFound
<1>1. Counted => ReplyBlockFound
  BY DEF Counted, ReplyBlockFound
<1> QED BY <1>1, CountedInvariant, PTL

\* CloseHandles deletes the locks and the lists when the worker has ended and
\* nothing is left in them.
THEOREM ClosedWhenQuiet == SafeSpec => []DeletedWhenQuiet
<1>1. WellFormed /\ Counted => DeletedWhenQuiet
  <2> SUFFICES ASSUME WellFormed, Counted, mainPc = "closed" PROVE DeletedWhenQuiet
    BY DEF DeletedWhenQuiet
  <2>1. dbPc = "ended" /\ popList = <<>> /\ resultPop = <<>> /\ freeMsg = Message
    BY DEF WellFormed, Phases, Ending
  <2>2. Len(addList) = 0 /\ Len(resultAdd) = 0
    BY <2>1, DBAssumption, Lengths DEF Counted, MessagesCounted, One, NumMessages
  <2>3. addList = <<>> /\ resultAdd = <<>>
    BY <2>2, EmptySeq DEF WellFormed, Types
  <2> QED BY <2>1, <2>3 DEF DeletedWhenQuiet
<1> QED BY <1>1, WellFormedInvariant, CountedInvariant, PTL

-----------------------------------------------------------------------------
(* The blocks of rows are accounted for (Execute, DeletePointer).          *)

LEMMA RowsMain ==
  ASSUME DBAssumption, WellFormed, RowsAccounted,
         (\E m \in Message : Query(m)) \/ MainStep \/ CloseDBThread
  PROVE  RowsAccounted'
<1>n. /\ Count(resultAdd, WithRows) \in Nat /\ Count(resultPop, WithRows) \in Nat
      /\ freeResult \in Nat /\ NumResults \in Nat
      /\ rows \in BOOLEAN
  BY CountsAreNaturals DEF WellFormed, Types, DBAssumption
<1>t. /\ resultPop \in Seq(Reply)
      /\ (mainPc \in {"game", "closing", "closed"} => resultPop = <<>>)
  BY DEF WellFormed, Types, Phases
<1>0. NumResults - freeResult = Count(resultAdd, WithRows) + Count(resultPop, WithRows)
        + One(rows) + One(mainPc = "handle" /\ handling.rows)
  BY DEF RowsAccounted
<1> SUFFICES NumResults - freeResult' =
               Count(resultAdd', WithRows) + Count(resultPop', WithRows)
                 + One(rows') + One(mainPc' = "handle" /\ handling'.rows)
  BY DEF RowsAccounted, WithRows
<1> USE DEF dbVars, pools, lists, events
<1>1. CASE \E m \in Message : Query(m)
  BY <1>0, <1>1 DEF Query
<1>2. CASE SignalDB
  BY <1>0, <1>2 DEF SignalDB
<1>3. CASE ProcessBegin
  BY <1>0, <1>3, <1>n DEF ProcessBegin, One
<1>4. CASE TakeReply
  <2>1. /\ Head(resultPop) \in Reply
        /\ Count(resultPop', WithRows) \in Nat
        /\ Count(resultPop, WithRows) = Count(resultPop', WithRows)
                                          + One(Head(resultPop) \in WithRows)
    BY <1>4, <1>t, CountTail, CountType, HeadTailProperties DEF TakeReply
  <2>2. One(Head(resultPop) \in WithRows) = One(mainPc' = "handle" /\ handling'.rows)
    BY <1>4, <2>1 DEF TakeReply, WithRows, Reply, One
  <2>3. One(Head(resultPop) \in WithRows) \in Nat /\ One(rows) \in Nat
    BY DEF One
  <2>4. One(mainPc = "handle" /\ handling.rows) = 0
    BY <1>4 DEF TakeReply, One
  <2>5. freeResult' = freeResult /\ resultAdd' = resultAdd /\ rows' = rows
    BY <1>4 DEF TakeReply
  <2> QED BY <1>0, <1>n, <2>1, <2>2, <2>3, <2>4, <2>5
<1>5. CASE DeletePointer
  BY <1>0, <1>5, <1>n DEF DeletePointer, One
<1>6. CASE FreeReply
  BY <1>0, <1>6, <1>n DEF FreeReply, One
<1>7. CASE ProcessEnd
  BY <1>0, <1>7, <1>n DEF ProcessEnd, One
<1>8. CASE CloseDBThread \/ CloseHandles
  BY <1>0, <1>8, <1>n DEF CloseDBThread, CloseHandles, One
<1> QED BY <1>1, <1>2, <1>3, <1>4, <1>5, <1>6, <1>7, <1>8 DEF MainStep

LEMMA RowsWorker ==
  ASSUME DBAssumption, WellFormed, RowsAccounted, WorkerStep
  PROVE  RowsAccounted'
<1>n. /\ Count(resultAdd, WithRows) \in Nat /\ Count(resultPop, WithRows) \in Nat
      /\ freeResult \in Nat /\ NumResults \in Nat
  BY CountsAreNaturals DEF WellFormed, Types, DBAssumption
<1>t. /\ resultAdd \in Seq(Reply) /\ rows \in BOOLEAN
      /\ executing \in Message \cup {NoMessage}
      /\ (dbPc \in {"execute", "alloc", "post", "crashed"} => executing # NoMessage)
      /\ (dbPc \notin {"alloc", "post", "crashed"} => ~rows)
  BY DEF WellFormed, Types, Phases
<1>0. NumResults - freeResult = Count(resultAdd, WithRows) + Count(resultPop, WithRows)
        + One(rows) + One(mainPc = "handle" /\ handling.rows)
  BY DEF RowsAccounted
<1>h. One(mainPc = "handle" /\ handling.rows) \in Nat
  BY DEF One
<1> SUFFICES NumResults - freeResult' =
               Count(resultAdd', WithRows) + Count(resultPop', WithRows)
                 + One(rows') + One(mainPc' = "handle" /\ handling'.rows)
  BY DEF RowsAccounted, WithRows
<1> USE DEF mainVars, pools, lists, events
<1>1. CASE Wake \/ WakeToEnd \/ Switch \/ Take \/ AllocReply \/ Recheck \/ EndThread
  BY <1>0, <1>1 DEF Wake, WakeToEnd, Switch, Take, AllocReply, Recheck, EndThread
<1>2. ASSUME NEW b \in BOOLEAN, Execute(b)
      PROVE  NumResults - freeResult' =
               Count(resultAdd', WithRows) + Count(resultPop', WithRows)
                 + One(rows') + One(mainPc' = "handle" /\ handling'.rows)
  <2>1. /\ resultAdd' = resultAdd /\ resultPop' = resultPop
        /\ mainPc' = mainPc /\ handling' = handling /\ ~rows
    BY <1>2, <1>t DEF Execute
  <2>2. freeResult' = freeResult - One(rows')
    BY <1>2, <1>n DEF Execute, One
  <2>3. One(rows) = 0 /\ One(rows') \in Nat
    BY <2>1 DEF One
  <2> QED BY <1>0, <1>n, <1>h, <2>1, <2>2, <2>3
<1>3. CASE PostReply
  <2>1. PICK r \in Reply : r = [msg |-> executing, rows |-> rows]
    BY <1>3, <1>t DEF PostReply, Reply
  <2>2. Count(resultAdd', WithRows) = Count(resultAdd, WithRows) + One(r \in WithRows)
    BY <1>3, <1>t, <2>1, CountAppend DEF PostReply
  <2>3. One(r \in WithRows) = One(rows) /\ One(rows) \in Nat /\ One(rows') = 0
    BY <1>3, <1>t, <2>1 DEF PostReply, WithRows, Reply, One
  <2>4. /\ freeResult' = freeResult /\ resultPop' = resultPop
        /\ mainPc' = mainPc /\ handling' = handling
    BY <1>3 DEF PostReply
  <2> QED BY <1>0, <1>n, <1>h, <2>2, <2>3, <2>4
<1> QED BY <1>1, <1>2, <1>3 DEF WorkerStep

THEOREM RowsAreAccounted == SafeSpec => []RowsAccounted
<1>1. Init => RowsAccounted
  BY CountEmpty, DBAssumption DEF Init, RowsAccounted, NoReply, One, DBAssumption
<1>2. RowsAccounted /\ UNCHANGED vars => RowsAccounted'
  BY DEF RowsAccounted, WithRows, vars, dbVars, mainVars, pools, lists
<1>3. WellFormed /\ RowsAccounted /\ [Next]_vars => RowsAccounted'
  BY <1>2, DBAssumption, RowsMain, RowsWorker DEF Next
<1> QED BY <1>1, <1>3, WellFormedInvariant, PTL DEF SafeSpec

\* Types, and the bounds of the three pools that no code checks when a block is
\* given back.
THEOREM TypeCorrect == SafeSpec => []TypeOK
<1>1. WellFormed /\ Counted /\ RowsAccounted => TypeOK
  <2> SUFFICES ASSUME WellFormed, Counted, RowsAccounted
               PROVE  freeReply \in 0..NumMessages /\ freeResult \in 0..NumResults
    BY DEF WellFormed, Types, TypeOK
  <2>1. freeReply <= NumMessages
    BY DBAssumption, Lengths DEF Counted, RepliesCounted, One
  <2>2. freeResult <= NumResults
    <3>1. /\ Count(resultAdd, WithRows) \in Nat /\ Count(resultPop, WithRows) \in Nat
          /\ freeResult \in Nat /\ NumResults \in Nat
      BY DBAssumption, CountsAreNaturals DEF WellFormed, Types, DBAssumption
    <3> QED BY <3>1 DEF RowsAccounted, One
  <2> QED BY <2>1, <2>2, DBAssumption, Lengths DEF WellFormed, Types, DBAssumption
<1> QED BY <1>1, WellFormedInvariant, CountedInvariant, RowsAreAccounted, PTL

\* The state of the pools and the lists as the run checks it, for pools of any
\* size and any number of queries.
THEOREM BlocksStaySound == SafeSpec => []BlocksSound
<1>1. TypeOK /\ BlockInOnePlace /\ RowsAccounted /\ ReplyBlockFound /\ DeletedWhenQuiet
        => BlocksSound
  BY DEF BlocksSound
<1> QED BY <1>1, TypeCorrect, BlocksInOnePlace, RowsAreAccounted, ReplyBlockIsFound,
           ClosedWhenQuiet, PTL

-----------------------------------------------------------------------------
(* The two threads and their lists are a queue.                            *)

LEMMA MessagesType ==
  ASSUME NEW s \in Seq(Reply)
  PROVE  /\ Messages(s) \in Seq(Message)
         /\ Len(Messages(s)) = Len(s)
         /\ \A i \in 1..Len(s) : Messages(s)[i] = s[i].msg
         /\ Messages(s) = <<>> <=> s = <<>>
<1>1. s \in [1..Len(s) -> Reply] /\ Len(s) \in Nat
  BY LenProperties
<1>2. Messages(s) \in [1..Len(s) -> Message]
  BY <1>1 DEF Messages, Reply
<1>3. Messages(s) \in Seq(Message) /\ Len(Messages(s)) = Len(s)
  BY <1>1, <1>2
<1>4. Messages(s) = <<>> <=> s = <<>>
  BY <1>3, EmptySeq
<1> QED BY <1>1, <1>3, <1>4 DEF Messages

LEMMA MessagesAppend ==
  ASSUME NEW s \in Seq(Reply), NEW r \in Reply
  PROVE  Messages(Append(s, r)) = Append(Messages(s), r.msg)
<1>1. Append(s, r) \in Seq(Reply) /\ Len(Append(s, r)) = Len(s) + 1 /\ Len(s) \in Nat
  BY AppendProperties, LenProperties
<1>2. /\ Messages(Append(s, r)) \in Seq(Message)
      /\ Len(Messages(Append(s, r))) = Len(s) + 1
      /\ \A i \in 1..(Len(s) + 1) : Messages(Append(s, r))[i] = Append(s, r)[i].msg
  BY <1>1, MessagesType
<1>3. /\ Messages(s) \in Seq(Message) /\ r.msg \in Message /\ Len(Messages(s)) = Len(s)
      /\ \A i \in 1..Len(s) : Messages(s)[i] = s[i].msg
  BY MessagesType DEF Reply
<1>4. /\ Append(Messages(s), r.msg) \in Seq(Message)
      /\ Len(Append(Messages(s), r.msg)) = Len(s) + 1
      /\ \A i \in 1..(Len(s) + 1) :
           Append(Messages(s), r.msg)[i] = IF i <= Len(s) THEN s[i].msg ELSE r.msg
  BY <1>1, <1>3, AppendProperties
<1>5. \A i \in 1..(Len(s) + 1) : Append(s, r)[i] = IF i <= Len(s) THEN s[i] ELSE r
  BY <1>1, AppendProperties
<1> QED BY <1>1, <1>2, <1>4, <1>5, SeqEqual

LEMMA MessagesTail ==
  ASSUME NEW s \in Seq(Reply), s # <<>>
  PROVE  /\ Head(Messages(s)) = Head(s).msg
         /\ Tail(Messages(s)) = Messages(Tail(s))
<1>1. /\ Head(s) \in Reply /\ Tail(s) \in Seq(Reply) /\ Len(Tail(s)) = Len(s) - 1
      /\ \A i \in 1..Len(Tail(s)) : Tail(s)[i] = s[i + 1]
      /\ Len(s) \in Nat \ {0} /\ Head(s) = s[1]
  BY HeadTailProperties, EmptySeq
<1>2. /\ Messages(s) \in Seq(Message) /\ Messages(s) # <<>> /\ Len(Messages(s)) = Len(s)
      /\ \A i \in 1..Len(s) : Messages(s)[i] = s[i].msg
  BY MessagesType
<1>3. /\ Messages(Tail(s)) \in Seq(Message) /\ Len(Messages(Tail(s))) = Len(s) - 1
      /\ \A i \in 1..(Len(s) - 1) : Messages(Tail(s))[i] = s[i + 1].msg
  BY <1>1, MessagesType
<1>4. /\ Tail(Messages(s)) \in Seq(Message) /\ Len(Tail(Messages(s))) = Len(s) - 1
      /\ \A i \in 1..(Len(s) - 1) : Tail(Messages(s))[i] = s[i + 1].msg
  BY <1>1, <1>2, HeadTailProperties
<1>5. Tail(Messages(s)) = Messages(Tail(s))
  BY <1>3, <1>4, SeqEqual
<1> QED BY <1>1, <1>2, <1>5

\* A swap does not disturb the order, because the list that is handed back is empty.
LEMMA SwapsDoNothing ==
  ASSUME NEW T, NEW s \in Seq(T)
  PROVE  s \o <<>> = s /\ <<>> \o s = s
BY ConcatEmptySeq

\* What is put at the end of the second list is at the end of both.
LEMMA AppendToBoth ==
  ASSUME NEW T, NEW s \in Seq(T), NEW t \in Seq(T), NEW e \in T
  PROVE  s \o Append(t, e) = Append(s \o t, e)
<1>1. <<e>> \in Seq(T) /\ s \o t \in Seq(T)
  BY ConcatProperties
<1>2. Append(t, e) = t \o <<e>> /\ Append(s \o t, e) = (s \o t) \o <<e>>
  BY <1>1, AppendIsConcat
<1> QED BY <1>1, <1>2, ConcatAssociative

\* What is taken from the first list is taken from both.
LEMMA TakeFromBoth ==
  ASSUME NEW T, NEW s \in Seq(T), NEW t \in Seq(T), s # <<>>
  PROVE  s \o t # <<>> /\ Head(s \o t) = Head(s) /\ Tail(s \o t) = Tail(s) \o t
<1>1. /\ Head(s) \in T /\ Tail(s) \in Seq(T) /\ Len(Tail(s)) = Len(s) - 1
      /\ Len(s) \in Nat \ {0} /\ Len(t) \in Nat /\ Head(s) = s[1]
      /\ \A i \in 1..Len(Tail(s)) : Tail(s)[i] = s[i + 1]
  BY HeadTailProperties, EmptySeq, LenProperties
<1>2. /\ s \o t \in Seq(T) /\ Len(s \o t) = Len(s) + Len(t)
      /\ \A i \in 1..(Len(s) + Len(t)) :
           (s \o t)[i] = IF i <= Len(s) THEN s[i] ELSE t[i - Len(s)]
  BY ConcatProperties
<1>3. s \o t # <<>>
  BY <1>1, <1>2, EmptySeq
<1>4. /\ Tail(s \o t) \in Seq(T) /\ Len(Tail(s \o t)) = Len(s) + Len(t) - 1
      /\ \A i \in 1..(Len(s) + Len(t) - 1) : Tail(s \o t)[i] = (s \o t)[i + 1]
      /\ Head(s \o t) = (s \o t)[1]
  BY <1>1, <1>2, <1>3, HeadTailProperties
<1>5. /\ Tail(s) \o t \in Seq(T) /\ Len(Tail(s) \o t) = Len(s) - 1 + Len(t)
      /\ \A i \in 1..(Len(s) - 1 + Len(t)) :
           (Tail(s) \o t)[i] = IF i <= Len(s) - 1 THEN Tail(s)[i] ELSE t[i - (Len(s) - 1)]
  BY <1>1, ConcatProperties
<1>6. \A i \in 1..(Len(s) + Len(t) - 1) : Tail(s \o t)[i] = (Tail(s) \o t)[i]
  BY <1>1, <1>2, <1>4, <1>5
<1>7. Tail(s \o t) = Tail(s) \o t
  BY <1>1, <1>4, <1>5, <1>6, SeqEqual
<1> QED BY <1>1, <1>2, <1>3, <1>4, <1>7

\* Every step of the main thread is a step of the queue or none.
LEMMA MainRefines ==
  ASSUME DBAssumption, WellFormed, WellFormed',
         (\E m \in Message : Query(m)) \/ MainStep \/ CloseDBThread
  PROVE  Queue!Next \/ UNCHANGED Queue!vars
<1> USE DEF dbVars, pools, lists, events
<1>t. /\ popList \in Seq(Message) /\ addList \in Seq(Message)
      /\ resultAdd \in Seq(Reply) /\ resultPop \in Seq(Reply)
      /\ executing \in Message \cup {NoMessage} /\ NoMessage \notin Message
      /\ (mainPc \in {"handle", "free"} => handling \in Reply)
      /\ (mainPc \in {"game", "closing", "closed"} => resultPop = <<>>)
      /\ (signal => mainPc \in {"game", "handle"})
  BY DEF WellFormed, Types, Phases
<1>1. ASSUME NEW m \in Message, Query(m) PROVE Queue!Submit(m)
  <2>1. pendingBar' = Append(pendingBar, m)
    <3>1. popList \o Append(addList, m) = Append(popList \o addList, m)
      BY <1>t, AppendToBoth
    <3>2. popList \o addList \in Seq(Message) /\ popList \o Append(addList, m) \in Seq(Message)
      BY <1>t, <1>1, ConcatProperties, AppendProperties
    <3>3. CASE executing = NoMessage
      <4>1. /\ pendingBar = <<>> \o popList \o addList
            /\ pendingBar' = <<>> \o popList \o Append(addList, m)
        BY <1>1, <3>3 DEF Query, pendingBar
      <4> QED BY <1>t, <3>1, <4>1, SwapsDoNothing
    <3>4. CASE executing # NoMessage
      <4>0. <<executing>> \in Seq(Message)
        BY <1>t, <3>4
      <4>1. PICK x : x = <<executing>> /\ x \in Seq(Message)
        BY <4>0
      <4>2. pendingBar = x \o popList \o addList /\ pendingBar' = x \o popList \o Append(addList, m)
        BY <1>1, <3>4, <4>1 DEF Query, pendingBar
      <4>3. x \o popList \in Seq(Message)
        BY <1>t, <4>1, ConcatProperties
      <4> QED BY <1>t, <4>2, <4>3, AppendToBoth
    <3> QED BY <3>3, <3>4
  <2>2. UNCHANGED <<answersBar, handlingBar, openBar>>
    BY <1>1 DEF Query, answersBar, handlingBar, openBar, Messages
  <2> QED BY <1>1, <2>1, <2>2 DEF Query, Queue!Submit, openBar
<1>2. CASE SignalDB \/ FreeReply
  BY <1>2 DEF SignalDB, FreeReply, Queue!vars, pendingBar, answersBar, handlingBar, openBar,
              Messages
<1>3. CASE ProcessBegin \/ ProcessEnd
  <2>1. resultPop \o resultAdd = (resultPop \o resultAdd)'
    BY <1>3, <1>t, SwapsDoNothing DEF ProcessBegin, ProcessEnd
  <2>2. answersBar' = answersBar
    BY <2>1 DEF answersBar
  <2>3. UNCHANGED <<freeMsg, pendingBar, handlingBar, openBar>>
    BY <1>3 DEF ProcessBegin, ProcessEnd, pendingBar, handlingBar, openBar
  <2> QED BY <2>2, <2>3 DEF Queue!vars
<1>4. CASE TakeReply
  <2>1. /\ resultPop \o resultAdd # <<>> /\ resultPop \o resultAdd \in Seq(Reply)
        /\ Head(resultPop \o resultAdd) = Head(resultPop)
        /\ Tail(resultPop \o resultAdd) = resultPop' \o resultAdd
    BY <1>4, <1>t, TakeFromBoth, ConcatProperties DEF TakeReply
  <2>2. answersBar' = Messages(resultPop' \o resultAdd)
    BY <1>4 DEF TakeReply, answersBar
  <2>3. answersBar # <<>> /\ Head(answersBar) = Head(resultPop).msg /\ answersBar' = Tail(answersBar)
    BY <2>1, <2>2, MessagesTail, MessagesType DEF answersBar
  <2>4. handlingBar = NoMessage /\ handlingBar' = Head(resultPop).msg
    BY <1>4 DEF TakeReply, handlingBar
  <2>5. UNCHANGED <<freeMsg, pendingBar, openBar>>
    BY <1>4 DEF TakeReply, pendingBar, openBar
  <2> QED BY <2>3, <2>4, <2>5 DEF Queue!Next, Queue!Deliver
<1>5. CASE DeletePointer
  <2>1. handlingBar = handling.msg /\ handlingBar # NoMessage /\ handlingBar' = NoMessage
    BY <1>5, <1>t DEF DeletePointer, handlingBar, Reply
  <2>2. UNCHANGED <<pendingBar, answersBar, openBar>>
    BY <1>5 DEF DeletePointer, pendingBar, answersBar, openBar, Messages
  <2>3. freeMsg' = freeMsg \cup {handlingBar}
    BY <1>5, <2>1 DEF DeletePointer
  <2> QED BY <2>1, <2>2, <2>3 DEF Queue!Next, Queue!Finish
<1>6. CASE CloseDBThread
  BY <1>6 DEF CloseDBThread, Queue!Next, Queue!Close, pendingBar, answersBar, handlingBar,
              openBar, Messages
<1>7. CASE CloseHandles
  BY <1>7 DEF CloseHandles, Queue!vars, pendingBar, answersBar, handlingBar, openBar, Messages
<1> QED BY <1>1, <1>2, <1>3, <1>4, <1>5, <1>6, <1>7 DEF MainStep, Queue!Next

\* So is every step of the worker; the query is carried out, for those who look from
\* outside, when its answer is posted.
LEMMA WorkerRefines ==
  ASSUME DBAssumption, WellFormed, WorkerStep
  PROVE  Queue!Next \/ UNCHANGED Queue!vars
<1> USE DEF mainVars, pools, lists, events
<1>t. /\ popList \in Seq(Message) /\ addList \in Seq(Message)
      /\ resultAdd \in Seq(Reply) /\ resultPop \in Seq(Reply) /\ rows \in BOOLEAN
      /\ executing \in Message \cup {NoMessage} /\ NoMessage \notin Message
      /\ (executing # NoMessage <=> dbPc \in {"execute", "alloc", "post", "crashed"})
      /\ (dbPc \in {"wait", "switch", "killed", "ended"} => popList = <<>>)
  BY DEF WellFormed, Types, Phases, DBAssumption
<1>1. CASE Wake \/ WakeToEnd \/ (\E b \in BOOLEAN : Execute(b)) \/ AllocReply \/ EndThread
  BY <1>1 DEF Wake, WakeToEnd, Execute, AllocReply, EndThread, Queue!vars, pendingBar,
              answersBar, handlingBar, openBar, Messages
<1>2. CASE Switch \/ Recheck
  <2>1. popList \o addList = (popList \o addList)'
    BY <1>2, <1>t, SwapsDoNothing DEF Switch, Recheck
  <2>2. executing = NoMessage /\ executing' = NoMessage
    BY <1>2, <1>t DEF Switch, Recheck
  <2>3. pendingBar = <<>> \o popList \o addList /\ pendingBar' = <<>> \o popList' \o addList'
    BY <2>2 DEF pendingBar
  <2>4. /\ popList' \in Seq(Message) /\ addList' \in Seq(Message)
    BY <1>2, <1>t DEF Switch, Recheck
  <2>5. pendingBar' = pendingBar
    BY <1>t, <2>1, <2>3, <2>4, SwapsDoNothing
  <2>6. UNCHANGED <<freeMsg, answersBar, handlingBar, openBar>>
    BY <1>2 DEF Switch, Recheck, answersBar, handlingBar, openBar, Messages
  <2> QED BY <2>5, <2>6 DEF Queue!vars
<1>3. CASE Take
  <2>1. PICK m : m = Head(popList) /\ m \in Message /\ Tail(popList) \in Seq(Message)
    BY <1>3, <1>t, HeadTailProperties DEF Take
  <2>2. /\ pendingBar = <<>> \o popList \o addList
        /\ pendingBar' = <<m>> \o Tail(popList) \o addList
    BY <1>3, <1>t, <2>1 DEF Take, pendingBar
  <2>3. <<m>> \o Tail(popList) = popList
    BY <1>3, <1>t, <2>1 DEF Take
  <2>4. pendingBar' = pendingBar
    BY <1>t, <2>2, <2>3, SwapsDoNothing
  <2>5. UNCHANGED <<freeMsg, answersBar, handlingBar, openBar>>
    BY <1>3 DEF Take, answersBar, handlingBar, openBar, Messages
  <2> QED BY <2>4, <2>5 DEF Queue!vars
<1>4. CASE PostReply
  <2>1. executing \in Message
    BY <1>4, <1>t DEF PostReply
  <2>2. PICK r \in Reply : r = [msg |-> executing, rows |-> rows] /\ r.msg = executing
    <3>1. [msg |-> executing, rows |-> rows] \in Reply
      BY <1>t, <2>1 DEF Reply
    <3> QED BY <3>1
  <2>3. answersBar' = Append(answersBar, executing)
    <3>1. resultPop \o Append(resultAdd, r) = Append(resultPop \o resultAdd, r)
      BY <1>t, AppendToBoth
    <3>2. resultPop \o resultAdd \in Seq(Reply)
      BY <1>t, ConcatProperties
    <3>3. Messages(resultPop \o Append(resultAdd, r)) = Append(answersBar, r.msg)
      BY <3>1, <3>2, MessagesAppend DEF answersBar
    <3> QED BY <1>4, <2>2, <3>3 DEF PostReply, answersBar
  <2>4. pendingBar # <<>> /\ executing = Head(pendingBar) /\ pendingBar' = Tail(pendingBar)
    <3>1. PICK x : x = <<executing>>
      OBVIOUS
    <3>2. x \in Seq(Message) /\ x # <<>> /\ Head(x) = executing /\ Tail(x) = <<>>
      BY <2>1, <3>1
    <3>3. pendingBar = x \o popList \o addList /\ pendingBar' = <<>> \o popList \o addList
      BY <1>4, <1>t, <3>1 DEF PostReply, pendingBar
    <3>4. PICK y : y = x \o popList
      OBVIOUS
    <3>5. /\ y \in Seq(Message) /\ y # <<>>
          /\ Head(y) = executing /\ Tail(y) = <<>> \o popList
      BY <1>t, <3>2, <3>4, TakeFromBoth, ConcatProperties
    <3>6. /\ y \o addList # <<>> /\ Head(y \o addList) = executing
          /\ Tail(y \o addList) = Tail(y) \o addList
      BY <1>t, <3>5, TakeFromBoth
    <3> QED BY <3>3, <3>4, <3>5, <3>6
  <2>5. UNCHANGED <<freeMsg, handlingBar, openBar>>
    BY <1>4 DEF PostReply, handlingBar, openBar
  <2> QED BY <2>3, <2>4, <2>5 DEF Queue!Next, Queue!Execute
<1> QED BY <1>1, <1>2, <1>3, <1>4 DEF WorkerStep

\* The connection is the queue the servers rely on: nothing is lost, carried out or
\* answered twice, or out of order, and a block is free only when its handler is done.
THEOREM ConnectionIsQueue == SafeSpec => Queue!SafeSpec
<1>1. Init => Queue!Init
  BY DBAssumption, SwapsDoNothing, EmptySeq
     DEF Init, Queue!Init, pendingBar, answersBar, handlingBar, openBar, Messages
<1>2. UNCHANGED vars => UNCHANGED Queue!vars
  BY DEF vars, dbVars, mainVars, pools, lists, Queue!vars, pendingBar, answersBar,
         handlingBar, openBar, Messages
<1>3. WellFormed /\ WellFormed' /\ [Next]_vars => [Queue!Next]_(Queue!vars)
  BY <1>2, DBAssumption, MainRefines, WorkerRefines DEF Next
<1> QED BY <1>1, <1>3, WellFormedInvariant, PTL DEF SafeSpec, Queue!SafeSpec

=============================================================================
