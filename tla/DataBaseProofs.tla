--------------------------- MODULE DataBaseProofs ---------------------------
(* What CDataBase guarantees for any number of sources, connections and    *)
(* blocks: no query is lost or carried out twice, the order it keeps, and  *)
(* that each connection is used as DBQueue says.                           *)
EXTENDS DataBase, SequenceTheorems, FiniteSetTheorems, TLAPS

(***************************************************************************)
(* Queues.  A source's queries are numbered: Sorted, Below, Above and      *)
(* Before are about the numbers of the entries that are in M.              *)
(***************************************************************************)

Entries(q)   == {q[i] : i \in DOMAIN q}
Sorted(q, M) == \A i, j \in DOMAIN q : q[i] \in M /\ q[j] \in M /\ i < j => q[i].n < q[j].n
Below(S, M, e)        == \A x \in S : x \in M => x.n < e.n
Above(e, S, M)        == \A y \in S : y \in M => e.n < y.n
Before(S, M, T, N)    == \A x \in S, y \in T : x \in M /\ y \in N => x.n < y.n

\* The same query of the same source; a list holds each at most once.
Same(x, y)   == x.src = y.src /\ x.n = y.n
Apart(A, B)  == \A x \in A, y \in B : ~Same(x, y)
Distinct(q)  == \A i, j \in DOMAIN q : Same(q[i], q[j]) => i = j

LEMMA AppendEntries ==
  ASSUME NEW T, NEW q \in Seq(T), NEW e \in T
  PROVE  /\ Append(q, e) \in Seq(T)
         /\ Entries(Append(q, e)) = Entries(q) \cup {e}
         /\ \A M : Sorted(q, M) /\ (e \in M => Below(Entries(q), M, e)) => Sorted(Append(q, e), M)
         /\ Distinct(q) /\ Apart(Entries(q), {e}) => Distinct(Append(q, e))
<1>1. Len(q) \in Nat /\ DOMAIN q = 1..Len(q)
  BY LenProperties
<1>2. /\ Append(q, e) \in Seq(T) /\ Len(Append(q, e)) = Len(q) + 1
      /\ \A i \in 1..Len(q) : Append(q, e)[i] = q[i]
      /\ Append(q, e)[Len(q) + 1] = e
  BY <1>1, AppendProperties
<1>3. DOMAIN Append(q, e) = 1..(Len(q) + 1)
  BY <1>2, LenProperties
<1>4. Entries(Append(q, e)) = Entries(q) \cup {e}
  BY <1>1, <1>2, <1>3 DEF Entries
<1>5. ASSUME NEW M, Sorted(q, M), e \in M => Below(Entries(q), M, e)
      PROVE  Sorted(Append(q, e), M)
  <2> SUFFICES ASSUME NEW i \in 1..(Len(q) + 1), NEW j \in 1..(Len(q) + 1), i < j,
                      Append(q, e)[i] \in M, Append(q, e)[j] \in M
               PROVE  Append(q, e)[i].n < Append(q, e)[j].n
    BY <1>3 DEF Sorted
  <2>1. i \in 1..Len(q) /\ Append(q, e)[i] = q[i]
    BY <1>1, <1>2
  <2>2. CASE j = Len(q) + 1
    <3>1. Append(q, e)[j] = e /\ q[i] \in Entries(q) \cap M
      BY <1>1, <1>2, <2>1, <2>2 DEF Entries
    <3> QED BY <1>5, <2>1, <3>1 DEF Below
  <2>3. CASE j # Len(q) + 1
    BY <1>1, <1>2, <1>5, <2>1, <2>3 DEF Sorted
  <2> QED BY <2>2, <2>3
<1>6. ASSUME Distinct(q), Apart(Entries(q), {e}) PROVE Distinct(Append(q, e))
  <2>1. \A i \in 1..Len(q) : ~Same(q[i], e)
    BY <1>1, <1>6 DEF Apart, Entries
  <2>2. \A x, y : Same(x, y) => Same(y, x)
    BY DEF Same
  <2> QED BY <1>1, <1>2, <1>3, <1>6, <2>1, <2>2 DEF Distinct
<1> QED BY <1>2, <1>4, <1>5, <1>6

LEMMA TailEntries ==
  ASSUME NEW T, NEW q \in Seq(T), q # <<>>
  PROVE  /\ Head(q) \in T /\ Tail(q) \in Seq(T)
         /\ Entries(q) = Entries(Tail(q)) \cup {Head(q)}
         /\ \A M : Sorted(q, M) => Sorted(Tail(q), M)
                                   /\ (Head(q) \in M => Above(Head(q), Entries(Tail(q)), M))
         /\ Distinct(q) => Distinct(Tail(q)) /\ Apart({Head(q)}, Entries(Tail(q)))
<1>1. Len(q) \in Nat \ {0} /\ DOMAIN q = 1..Len(q) /\ Head(q) = q[1]
  BY LenProperties, EmptySeq
<1>2. /\ Head(q) \in T /\ Tail(q) \in Seq(T) /\ Len(Tail(q)) = Len(q) - 1
      /\ \A i \in 1..(Len(q) - 1) : Tail(q)[i] = q[i + 1]
  BY HeadTailProperties
<1>3. DOMAIN Tail(q) = 1..(Len(q) - 1)
  BY <1>2, LenProperties
<1>4. Entries(q) = Entries(Tail(q)) \cup {Head(q)}
  <2>1. ASSUME NEW i \in 1..Len(q), i # 1 PROVE q[i] \in Entries(Tail(q))
    <3>1. i - 1 \in 1..(Len(q) - 1) /\ Tail(q)[i - 1] = q[i]
      BY <1>1, <1>2, <2>1
    <3> QED BY <1>3, <3>1 DEF Entries
  <2> QED BY <1>1, <1>2, <1>3, <2>1 DEF Entries
<1>5. ASSUME NEW M, Sorted(q, M)
      PROVE  /\ Sorted(Tail(q), M)
             /\ Head(q) \in M => Above(Head(q), Entries(Tail(q)), M)
  <2>1. \A i \in 1..(Len(q) - 1) : Tail(q)[i] = q[i + 1] /\ i + 1 \in 1..Len(q) /\ 1 < i + 1
    BY <1>1, <1>2
  <2>2. Sorted(Tail(q), M)
    BY <1>1, <1>3, <1>5, <2>1 DEF Sorted
  <2>3. ASSUME Head(q) \in M PROVE Above(Head(q), Entries(Tail(q)), M)
    BY <1>1, <1>3, <1>5, <2>1, <2>3 DEF Sorted, Above, Entries
  <2> QED BY <2>2, <2>3
<1>6. ASSUME Distinct(q) PROVE Distinct(Tail(q)) /\ Apart({Head(q)}, Entries(Tail(q)))
  <2>1. \A i \in 1..(Len(q) - 1) : Tail(q)[i] = q[i + 1] /\ i + 1 \in 1..Len(q) /\ i + 1 # 1
    BY <1>1, <1>2
  <2>2. Distinct(Tail(q))
    <3>1. ASSUME NEW i \in 1..(Len(q) - 1), NEW j \in 1..(Len(q) - 1), Same(Tail(q)[i], Tail(q)[j])
          PROVE  i = j
      BY <1>1, <1>6, <2>1, <3>1 DEF Distinct
    <3> QED BY <1>3, <3>1 DEF Distinct
  <2>3. Apart({Head(q)}, Entries(Tail(q)))
    BY <1>1, <1>3, <1>6, <2>1 DEF Distinct, Apart, Entries
  <2> QED BY <2>2, <2>3
<1> QED BY <1>2, <1>4, <1>5, <1>6

(***************************************************************************)
(* Types.                                                                  *)
(***************************************************************************)

Record == [n : Nat, direct : BOOLEAN, conn : Conn]

Types ==
  /\ issued \in [Source -> Nat] /\ \A s \in Source : issued[s] <= Limit[s]
  /\ backlog \in Seq(Query) /\ cur \in Thread
  /\ pending \in [Conn -> Seq(Query)] /\ answers \in [Conn -> Seq(Query)]
  /\ mainPc \in {"game", "visit", "collect", "backlog", "drain", "released"}
  /\ at \in Conn /\ batch \in Seq(Query) /\ handling \in Query \cup {NoQuery}
  /\ releasing \in BOOLEAN
  /\ executed \in [Source -> Seq(Record)]
  /\ handled \subseteq [src : Source, n : Nat]

LEMMA Connections ==
  /\ Thread \subseteq Conn /\ LoginDB \in Conn /\ LogDB \in Conn /\ 0 \in Thread /\ NumThreads \in Nat
BY DataBaseAssumption DEF Thread, Conn, LoginDB, LogDB, DataBaseAssumption

LEMMA Choice ==
  ASSUME Types, NEW s \in Source, NEW index \in Nat
  PROVE  /\ ConnOf(s, index) \in Conn /\ NextCur(s, ConnOf(s, index)) \in Thread
         /\ Kind[s] = "LOGIN" => ConnOf(s, index) = LoginDB
         /\ Kind[s] = "LOG" => ConnOf(s, index) = LogDB
         /\ Kind[s] = "ADMIN" /\ index # 0 => ConnOf(s, index) = index % NumThreads
<1>1. \A m \in Nat : m % NumThreads \in Thread
  BY DataBaseAssumption DEF Thread, DataBaseAssumption
<1>2. cur + 1 \in Nat
  BY DataBaseAssumption DEF Types, Thread, DataBaseAssumption
<1>3. GetCurDB(index) \in Thread
  BY <1>1, <1>2 DEF GetCurDB
<1>4. Kind[s] \in {"ADMIN", "LOGIN", "LOG"}
  BY DataBaseAssumption DEF DataBaseAssumption
<1> QED BY <1>3, <1>4, Connections DEF ConnOf, NextCur, GetCurDB, Types

\* Whatever is in a queue is a query, and no source has sent more than it may.
THEOREM TypeCorrect == Spec => []Types
<1>1. Init => Types
  <2>1. <<>> \in Seq(Query) /\ <<>> \in Seq(Record)
    BY EmptySeq
  <2>2. ASSUME Init PROVE issued \in [Source -> Nat] /\ \A s \in Source : issued[s] <= Limit[s]
    BY <2>2, DataBaseAssumption DEF Init, DataBaseAssumption
  <2>3. ASSUME Init
        PROVE  /\ pending \in [Conn -> Seq(Query)] /\ answers \in [Conn -> Seq(Query)]
               /\ executed \in [Source -> Seq(Record)] /\ backlog \in Seq(Query) /\ batch \in Seq(Query)
    BY <2>1, <2>3 DEF Init
  <2>4. ASSUME Init
        PROVE  /\ cur \in Thread /\ at \in Conn /\ handling = NoQuery /\ handled = {}
               /\ mainPc = "game" /\ releasing \in BOOLEAN
    BY <2>4, Connections DEF Init
  <2> QED BY <2>2, <2>3, <2>4 DEF Types
<1>2. Types /\ [Next]_vars => Types'
  <2> SUFFICES ASSUME Types, [Next]_vars PROVE Types'
    OBVIOUS
  <2>1. ASSUME NEW s \in Source, AddQueryQueue(s) PROVE Types'
    <3>1. PICK c \in Conn : c = ConnOf(s, Index[s]) /\ NextCur(s, c) \in Thread
      BY Choice, DataBaseAssumption DEF DataBaseAssumption
    <3>2. PICK q \in Query : q = [src |-> s, n |-> issued[s] + 1, direct |-> HasRoom(c)]
      <4>1. HasRoom(c) \in BOOLEAN
        BY DEF HasRoom
      <4>2. issued[s] + 1 \in Nat
        BY DEF Types
      <4> QED BY <4>1, <4>2 DEF Query
    <3>3. issued' \in [Source -> Nat] /\ \A z \in Source : issued'[z] <= Limit[z]
      <4>1. issued' = [issued EXCEPT ![s] = @ + 1] /\ issued[s] < Limit[s] /\ Limit \in [Source -> Nat]
        BY <2>1, DataBaseAssumption DEF AddQueryQueue, DataBaseAssumption
      <4>2. issued \in [Source -> Nat] /\ \A z \in Source : issued[z] <= Limit[z]
        BY DEF Types
      <4> QED BY <4>1, <4>2
    <3>4. /\ cur' = NextCur(s, c)
          /\ \/ pending' = [pending EXCEPT ![c] = Append(@, q)] /\ UNCHANGED backlog
             \/ backlog' = Append(backlog, q) /\ UNCHANGED pending
          /\ UNCHANGED <<answers, mainPc, at, batch, handling, releasing, executed, handled>>
      BY <2>1, <3>1, <3>2 DEF AddQueryQueue, Keep
    <3>5. backlog' \in Seq(Query) /\ pending' \in [Conn -> Seq(Query)]
      <4>1. Append(backlog, q) \in Seq(Query) /\ Append(pending[c], q) \in Seq(Query)
        BY AppendEntries DEF Types
      <4> QED BY <3>4, <4>1 DEF Types
    <3> QED BY <3>1, <3>3, <3>4, <3>5 DEF Types
  <2>2. CASE BeginPass
    BY <2>2, Connections DEF BeginPass, Types
  <2>3. CASE Visit
    BY <2>3, EmptySeq DEF Visit, Types
  <2>4. CASE BeginHandler
    <3>1. Head(batch) \in Query /\ Tail(batch) \in Seq(Query)
      BY <2>4, TailEntries DEF BeginHandler, Types
    <3> QED BY <2>4, <3>1 DEF BeginHandler, Types
  <2>5. CASE EndHandler
    <3>1. [src |-> handling.src, n |-> handling.n] \in [src : Source, n : Nat]
      BY <2>5 DEF EndHandler, Types, Query
    <3> QED BY <2>5, <3>1 DEF EndHandler, Types
  <2>6. CASE NextVisit
    <3>1. at # LogDB => at + 1 \in Conn
      BY DataBaseAssumption DEF Types, Conn, LogDB, DataBaseAssumption
    <3> QED BY <2>6, <3>1, Connections DEF NextVisit, Types
  <2>7. CASE SendBacklog \/ BacklogBlocked \/ BacklogEmpty
    <3>1. ASSUME backlog # <<>>
          PROVE  /\ Head(backlog) \in Query /\ Tail(backlog) \in Seq(Query)
                 /\ BacklogConn \in Conn /\ NextCur(Head(backlog).src, BacklogConn) \in Thread
      <4>1. Head(backlog) \in Query /\ Tail(backlog) \in Seq(Query)
        BY <3>1, TailEntries DEF Types
      <4>2. Head(backlog).src \in Source
        BY <4>1 DEF Query
      <4> QED BY <4>1, <4>2, Choice DEF BacklogConn
    <3>2. CASE SendBacklog
      <4>1. pending' \in [Conn -> Seq(Query)]
        BY <3>1, <3>2, AppendEntries DEF SendBacklog, Types
      <4> QED BY <3>1, <3>2, <4>1 DEF SendBacklog, Types
    <3>3. CASE BacklogBlocked
      BY <3>1, <3>3 DEF BacklogBlocked, Types
    <3>4. CASE BacklogEmpty
      BY <3>4 DEF BacklogEmpty, Types
    <3> QED BY <2>7, <3>2, <3>3, <3>4
  <2>8. ASSUME NEW c \in Conn, Execute(c) PROVE Types'
    <3>1. Head(pending[c]) \in Query /\ Tail(pending[c]) \in Seq(Query)
      BY <2>8, TailEntries DEF Execute, Types
    <3> DEFINE q == Head(pending[c])
    <3>2. q.src \in Source /\ [n |-> q.n, direct |-> q.direct, conn |-> c] \in Record
      BY <3>1 DEF Query, Record
    <3>3. /\ pending' = [pending EXCEPT ![c] = Tail(@)] /\ answers' = [answers EXCEPT ![c] = Append(@, q)]
          /\ executed' = [executed EXCEPT ![q.src] =
                            Append(@, [n |-> q.n, direct |-> q.direct, conn |-> c])]
          /\ UNCHANGED <<issued, backlog, cur, mainPc, at, batch, handling, releasing, handled>>
      BY <2>8 DEF Execute
    <3> HIDE DEF q
    <3>4. Append(answers[c], q) \in Seq(Query)
      BY <3>1, AppendEntries DEF Types, q
    <3>5. Append(executed[q.src], [n |-> q.n, direct |-> q.direct, conn |-> c]) \in Seq(Record)
      BY <3>2, AppendEntries DEF Types
    <3>6. executed' \in [Source -> Seq(Record)]
      BY <3>2, <3>3, <3>5 DEF Types
    <3>7. pending' \in [Conn -> Seq(Query)] /\ answers' \in [Conn -> Seq(Query)]
      BY <3>1, <3>3, <3>4 DEF Types
    <3> QED BY <3>3, <3>6, <3>7 DEF Types
  <2>9. CASE Release \/ EndRelease
    BY <2>9 DEF Release, EndRelease, Types
  <2>10. CASE UNCHANGED vars
    BY <2>10 DEF vars, Types
  <2> QED BY <2>1, <2>2, <2>3, <2>4, <2>5, <2>6, <2>7, <2>8, <2>9, <2>10 DEF Next, Pass
<1> QED BY <1>1, <1>2, PTL DEF Spec

(***************************************************************************)
(* A query is in one place.  L is the list of each place: no query is in   *)
(* two of them, or twice in one; a step takes one out, puts one in, or     *)
(* moves a whole list to a place that is empty.                            *)
(***************************************************************************)

Alone(L) == /\ \A p \in DOMAIN L : Distinct(L[p])
            /\ \A p, r \in DOMAIN L : p # r => Apart(Entries(L[p]), Entries(L[r]))
Total(L) == UNION {Entries(L[p]) : p \in DOMAIN L}

Place == ({"backlog", "batch", "handling"} \X {0}) \cup ({"pending", "answers"} \X Conn)

Placed(L)     == L \in [Place -> Seq(Query)]
Put(L, M, r, e) == M = [L EXCEPT ![r] = Append(@, e)]
Take(L, M, p)   == M = [L EXCEPT ![p] = Tail(@)]
Hand(L, M, p, r) == M = [L EXCEPT ![p] = Tail(@), ![r] = Append(@, Head(L[p]))]
Pour(L, M, p, r) == M = [L EXCEPT ![p] = <<>>, ![r] = L[p]]
First(L, p, h)  == h = Head(L[p])
New(T, e)       == Apart(T, {e})

LEMMA PutLast ==
  ASSUME NEW L, Placed(L), Alone(L), NEW r \in Place, NEW e \in Query, New(Total(L), e),
         NEW M, Put(L, M, r, e)
  PROVE  Placed(M) /\ Alone(M) /\ Total(M) = Total(L) \cup {e}
<1>1. /\ Append(L[r], e) \in Seq(Query) /\ Entries(Append(L[r], e)) = Entries(L[r]) \cup {e}
      /\ Distinct(L[r]) /\ Apart(Entries(L[r]), {e}) => Distinct(Append(L[r], e))
  BY AppendEntries DEF Placed
<1>2. M \in [Place -> Seq(Query)] /\ M[r] = Append(L[r], e) /\ \A p \in Place : p # r => M[p] = L[p]
  BY <1>1 DEF Placed, Put
<1>3. \A p \in Place : Entries(L[p]) \subseteq Total(L)
  BY DEF Total, Placed
<1>4. \A x, y : Same(x, y) => Same(y, x)
  BY DEF Same
<1>5. \A p \in Place : Apart(Entries(L[p]), {e}) /\ Apart({e}, Entries(L[p]))
  BY <1>3, <1>4 DEF Apart, New
<1>6. \A p \in Place : Distinct(M[p])
  BY <1>1, <1>2, <1>5 DEF Alone, Placed
<1>7. ASSUME NEW p \in Place, NEW q \in Place, p # q PROVE Apart(Entries(M[p]), Entries(M[q]))
  <2>1. Apart(Entries(L[p]), Entries(L[q]))
    BY <1>7 DEF Alone, Placed
  <2>2. Entries(M[p]) = Entries(L[p]) \/ (Entries(M[p]) = Entries(L[p]) \cup {e} /\ p = r)
    BY <1>1, <1>2
  <2>3. Entries(M[q]) = Entries(L[q]) \/ (Entries(M[q]) = Entries(L[q]) \cup {e} /\ q = r)
    BY <1>1, <1>2
  <2> QED BY <1>5, <1>7, <2>1, <2>2, <2>3 DEF Apart
<1>8. Total(M) = Total(L) \cup {e}
  BY <1>1, <1>2 DEF Total, Placed
<1>9. Alone(M)
  BY <1>2, <1>6, <1>7 DEF Alone
<1> QED BY <1>2, <1>8, <1>9 DEF Placed

LEMMA TakeFirst ==
  ASSUME NEW L, Placed(L), Alone(L), NEW p \in Place, L[p] # <<>>,
         NEW M, Take(L, M, p), NEW h, First(L, p, h)
  PROVE  /\ Placed(M) /\ Alone(M) /\ h \in Query
         /\ Total(L) = Total(M) \cup {h} /\ New(Total(M), h)
<1>1. /\ h \in Query /\ Tail(L[p]) \in Seq(Query) /\ Entries(L[p]) = Entries(Tail(L[p])) \cup {h}
      /\ Distinct(L[p]) => Distinct(Tail(L[p])) /\ Apart({h}, Entries(Tail(L[p])))
  BY TailEntries DEF Placed, First
<1>2. M \in [Place -> Seq(Query)] /\ M[p] = Tail(L[p]) /\ \A r \in Place : r # p => M[r] = L[r]
  BY <1>1 DEF Placed, Take
<1>3. \A x, y : Same(x, y) => Same(y, x)
  BY DEF Same
<1>4. \A r \in Place : Distinct(M[r])
  BY <1>1, <1>2 DEF Alone, Placed
<1>5. \A r \in Place : Entries(M[r]) \subseteq Entries(L[r])
  BY <1>1, <1>2
<1>6. \A r, q \in Place : r # q => Apart(Entries(M[r]), Entries(M[q]))
  BY <1>5 DEF Alone, Apart, Placed
<1>7. Total(L) = Total(M) \cup {h}
  BY <1>1, <1>2 DEF Total, Placed
<1>8. \A r \in Place : Apart(Entries(M[r]), {h})
  <2>1. Apart(Entries(M[p]), {h})
    BY <1>1, <1>2, <1>3 DEF Alone, Apart, Placed
  <2>2. ASSUME NEW r \in Place, r # p PROVE Apart(Entries(M[r]), {h})
    <3>1. Apart(Entries(L[r]), Entries(L[p])) /\ h \in Entries(L[p])
      BY <1>1, <2>2 DEF Alone, Placed
    <3> QED BY <1>5, <3>1 DEF Apart
  <2> QED BY <2>1, <2>2
<1>9. New(Total(M), h)
  BY <1>2, <1>8 DEF Total, Apart, New
<1>10. Alone(M)
  BY <1>2, <1>4, <1>6 DEF Alone
<1> QED BY <1>1, <1>2, <1>7, <1>9, <1>10 DEF Placed

LEMMA HandOver ==
  ASSUME NEW L, Placed(L), Alone(L), NEW p \in Place, NEW r \in Place, p # r, L[p] # <<>>,
         NEW M, Hand(L, M, p, r)
  PROVE  Placed(M) /\ Alone(M) /\ Total(M) = Total(L)
<1>1. PICK D : Take(L, D, p)
  BY DEF Take
<1>2. PICK h : First(L, p, h)
  BY DEF First
<1>3. Placed(D) /\ Alone(D) /\ h \in Query /\ Total(L) = Total(D) \cup {h} /\ New(Total(D), h)
  BY <1>1, <1>2, TakeFirst
<1>4. Put(D, M, r, h)
  BY <1>1, <1>2 DEF Take, Put, Hand, Placed, First
<1> QED BY <1>3, <1>4, PutLast

LEMMA PourInto ==
  ASSUME NEW L, Placed(L), Alone(L), NEW p \in Place, NEW r \in Place, p # r, L[r] = <<>>,
         NEW M, Pour(L, M, p, r)
  PROVE  Placed(M) /\ Alone(M) /\ Total(M) = Total(L)
<1>2. /\ DOMAIN M = Place /\ DOMAIN L = Place /\ M[p] = <<>> /\ M[r] = L[p]
      /\ \A q \in Place : q \notin {p, r} => M[q] = L[q]
  BY DEF Placed, Pour
<1>3. Entries(<<>>) = {} /\ Distinct(<<>>)
  BY DEF Entries, Distinct
<1>4. \A q \in Place : Distinct(M[q])
  BY <1>2, <1>3 DEF Alone
<1>5. \A x, y \in Place : x # y => Apart(Entries(M[x]), Entries(M[y]))
  BY <1>2, <1>3 DEF Alone, Apart, Placed
<1>6. Total(M) = Total(L)
  BY <1>2, <1>3 DEF Total
<1>7. Placed(M)
  BY EmptySeq DEF Placed, Pour
<1> QED BY <1>2, <1>4, <1>5, <1>6, <1>7 DEF Alone

ListAt(p) ==
  CASE p[1] = "backlog"  -> backlog
    [] p[1] = "batch"    -> batch
    [] p[1] = "handling" -> IF handling = NoQuery THEN <<>> ELSE <<handling>>
    [] p[1] = "pending"  -> pending[p[2]]
    [] p[1] = "answers"  -> answers[p[2]]

Lists == [p \in Place |-> ListAt(p)]

Backlog    == <<"backlog", 0>>
Batch      == <<"batch", 0>>
Handling   == <<"handling", 0>>
Pending(c) == <<"pending", c>>
Answers(c) == <<"answers", c>>

HandlingList == IF handling = NoQuery THEN <<>> ELSE <<handling>>

LEMMA Places5 ==
  /\ Backlog \in Place /\ Batch \in Place /\ Handling \in Place
  /\ \A c \in Conn : Pending(c) \in Place /\ Answers(c) \in Place
  /\ \A p \in Place : \/ p \in {Backlog, Batch, Handling}
                      \/ \E c \in Conn : p = Pending(c) \/ p = Answers(c)
  /\ Backlog # Batch /\ Backlog # Handling /\ Batch # Handling
  /\ \A c \in Conn : /\ Pending(c) \notin {Backlog, Batch, Handling}
                     /\ Answers(c) \notin {Backlog, Batch, Handling}
  /\ \A c, d \in Conn : /\ Pending(c) # Answers(d)
                        /\ Pending(c) = Pending(d) => c = d
                        /\ Answers(c) = Answers(d) => c = d
BY DEF Place, Backlog, Batch, Handling, Pending, Answers

LEMMA ListsAre ==
  /\ Lists[Backlog] = backlog /\ Lists[Batch] = batch /\ Lists[Handling] = HandlingList
  /\ \A c \in Conn : Lists[Pending(c)] = pending[c] /\ Lists[Answers(c)] = answers[c]
  /\ Lists = [p \in Place |-> Lists[p]] /\ DOMAIN Lists = Place
<1>1. /\ Backlog[1] = "backlog" /\ Batch[1] = "batch" /\ Handling[1] = "handling"
      /\ \A c : /\ Pending(c)[1] = "pending" /\ Pending(c)[2] = c
                /\ Answers(c)[1] = "answers" /\ Answers(c)[2] = c
  BY DEF Backlog, Batch, Handling, Pending, Answers
<1>2. \A p \in Place : Lists[p] = ListAt(p)
  BY DEF Lists
<1>3. /\ ListAt(Backlog) = backlog /\ ListAt(Batch) = batch /\ ListAt(Handling) = HandlingList
      /\ \A c : ListAt(Pending(c)) = pending[c] /\ ListAt(Answers(c)) = answers[c]
  BY <1>1 DEF ListAt, HandlingList
<1> QED BY <1>2, <1>3, Places5 DEF Lists

LEMMA ListsPlaced == Types => Placed(Lists)
<1> SUFFICES ASSUME Types PROVE \A p \in Place : Lists[p] \in Seq(Query)
  BY ListsAre DEF Placed
<1>1. HandlingList \in Seq(Query)
  <2>1. <<>> \in Seq(Query) /\ \A q \in Query : <<q>> \in Seq(Query)
    BY EmptySeq
  <2> QED BY <2>1 DEF HandlingList, Types
<1>2. /\ backlog \in Seq(Query) /\ batch \in Seq(Query)
      /\ \A c \in Conn : pending[c] \in Seq(Query) /\ answers[c] \in Seq(Query)
  BY DEF Types
<1>3. ASSUME NEW p \in Place PROVE Lists[p] \in Seq(Query)
  <2>1. CASE p \in {Backlog, Batch, Handling}
    BY <1>1, <1>2, <2>1, ListsAre
  <2>2. ASSUME NEW c \in Conn, p = Pending(c) \/ p = Answers(c) PROVE Lists[p] \in Seq(Query)
    BY <1>2, <2>2, ListsAre
  <2> QED BY <2>1, <2>2, Places5
<1> QED BY <1>3

\* M is L but for the places in S.
Listing(M) == M = [x \in Place |-> M[x]]
ExceptAt(L, M, S) == DOMAIN M = DOMAIN L /\ \A p \in Place \ S : M[p] = L[p]

LEMMA IsPut ==
  ASSUME NEW L, Placed(L), NEW M, Listing(M), NEW r \in Place, NEW e,
         ExceptAt(L, M, {r}), M[r] = Append(L[r], e)
  PROVE  Put(L, M, r, e)
BY DEF Placed, Listing, ExceptAt, Put

LEMMA IsTake ==
  ASSUME NEW L, Placed(L), NEW M, Listing(M), NEW p \in Place,
         ExceptAt(L, M, {p}), M[p] = Tail(L[p])
  PROVE  Take(L, M, p)
BY DEF Placed, Listing, ExceptAt, Take

LEMMA IsHand ==
  ASSUME NEW L, Placed(L), NEW M, Listing(M), NEW p \in Place, NEW r \in Place, p # r,
         ExceptAt(L, M, {p, r}), M[p] = Tail(L[p]), M[r] = Append(L[r], Head(L[p]))
  PROVE  Hand(L, M, p, r)
BY DEF Placed, Listing, ExceptAt, Hand

LEMMA IsPour ==
  ASSUME NEW L, Placed(L), NEW M, Listing(M), NEW p \in Place, NEW r \in Place, p # r,
         ExceptAt(L, M, {p, r}), M[p] = <<>>, M[r] = L[p]
  PROVE  Pour(L, M, p, r)
BY DEF Placed, Listing, ExceptAt, Pour

LEMMA IsSame ==
  ASSUME NEW L, Placed(L), NEW M, Listing(M), ExceptAt(L, M, {})
  PROVE  M = L
BY DEF Placed, Listing, ExceptAt

LEMMA ListsAreNext ==
  /\ Lists'[Backlog] = backlog' /\ Lists'[Batch] = batch' /\ Lists'[Handling] = HandlingList'
  /\ \A c \in Conn : Lists'[Pending(c)] = pending'[c] /\ Lists'[Answers(c)] = answers'[c]
  /\ Lists' = [p \in Place |-> Lists'[p]] /\ DOMAIN Lists' = Place
<1>1. (/\ Lists[Backlog] = backlog /\ Lists[Batch] = batch /\ Lists[Handling] = HandlingList
       /\ \A c \in Conn : Lists[Pending(c)] = pending[c] /\ Lists[Answers(c)] = answers[c]
       /\ Lists = [p \in Place |-> Lists[p]] /\ DOMAIN Lists = Place)'
  BY ListsAre, PTL
<1> QED BY <1>1 DEF Place, Conn, LogDB, Backlog, Batch, Handling, Pending, Answers

\* Nothing is in the hands of the main thread but while it goes through a batch.
Idle == mainPc # "collect" => batch = <<>> /\ handling = NoQuery

\* What a step does to the lists, and to what has been issued and handled.
Sends(L, M, s) ==
  \E r \in Place, e \in Query :
    e.src = s /\ e.n = issued[s] + 1 /\ Put(L, M, r, e)
Moves(L, M) ==
  \/ M = L
  \/ \E p, r \in Place : p # r /\ L[p] # <<>> /\ Hand(L, M, p, r)
  \/ \E p, r \in Place : p # r /\ L[r] = <<>> /\ Pour(L, M, p, r)

LEMMA Changes ==
  ASSUME Types, NEW L, L = Lists, NEW M, M = Lists', NEW S,
         \/ Backlog \in S \/ backlog' = backlog,
         \/ Batch \in S \/ batch' = batch,
         \/ Handling \in S \/ handling' = handling,
         \A c \in Conn : \/ Pending(c) \in S \/ pending'[c] = pending[c],
         \A c \in Conn : \/ Answers(c) \in S \/ answers'[c] = answers[c]
  PROVE  ExceptAt(L, M, S)
<1>1. handling' = handling => HandlingList' = HandlingList
  BY DEF HandlingList
<1>2. ASSUME NEW p \in Place, p \notin S PROVE M[p] = L[p]
  <2>1. CASE p \in {Backlog, Batch, Handling}
    BY <1>1, <1>2, <2>1, ListsAre, ListsAreNext
  <2>2. ASSUME NEW c \in Conn, p = Pending(c) \/ p = Answers(c) PROVE M[p] = L[p]
    BY <1>2, <2>2, ListsAre, ListsAreNext
  <2> QED BY <2>1, <2>2, Places5
<1> QED BY <1>2, ListsAre, ListsAreNext DEF ExceptAt

LEMMA ListsSend ==
  ASSUME Types, NEW L, L = Lists, NEW M, M = Lists', NEW s \in Source, AddQueryQueue(s)
  PROVE  Sends(L, M, s)
<1>1. PICK c \in Conn : c = ConnOf(s, Index[s])
  BY Choice, DataBaseAssumption DEF DataBaseAssumption
<1>2. PICK q \in Query : q = [src |-> s, n |-> issued[s] + 1, direct |-> HasRoom(c)]
  <2>1. HasRoom(c) \in BOOLEAN
    BY DEF HasRoom
  <2>2. issued[s] + 1 \in Nat
    BY DEF Types
  <2> QED BY <2>1, <2>2 DEF Query
<1>3. /\ \/ pending' = [pending EXCEPT ![c] = Append(@, q)] /\ UNCHANGED backlog
         \/ backlog' = Append(backlog, q) /\ UNCHANGED pending
      /\ UNCHANGED <<answers, batch, handling>>
  BY <1>1, <1>2 DEF AddQueryQueue, Keep
<1>4. Placed(L) /\ Listing(M) /\ Backlog \in Place /\ Pending(c) \in Place
  BY ListsPlaced, ListsAreNext, Places5 DEF Listing
<1>5. q.src = s /\ q.n = issued[s] + 1
  BY <1>2
<1>6. CASE pending' = [pending EXCEPT ![c] = Append(@, q)] /\ UNCHANGED backlog
  <2>1. /\ pending'[c] = Append(pending[c], q)
        /\ \A d \in Conn : Pending(d) \in {Pending(c)} \/ pending'[d] = pending[d]
    BY <1>6 DEF Types
  <2>2. ExceptAt(L, M, {Pending(c)})
    BY <1>3, <1>6, <2>1, Changes
  <2>3. Put(L, M, Pending(c), q)
    BY <1>4, <2>1, <2>2, IsPut, ListsAre, ListsAreNext
  <2> QED BY <1>4, <1>5, <2>3 DEF Sends
<1>7. CASE backlog' = Append(backlog, q) /\ UNCHANGED pending
  <2>1. ExceptAt(L, M, {Backlog})
    BY <1>3, <1>7, Changes
  <2>2. Put(L, M, Backlog, q)
    BY <1>4, <1>7, <2>1, IsPut, ListsAre, ListsAreNext
  <2> QED BY <1>4, <1>5, <2>2 DEF Sends
<1> QED BY <1>3, <1>6, <1>7

LEMMA ListsHand ==
  ASSUME Types, Idle, NEW L, L = Lists, NEW M, M = Lists',
         NEW p \in Place, NEW r \in Place, p # r, L[p] # <<>>, ExceptAt(L, M, {p, r}),
         M[p] = Tail(L[p]), M[r] = Append(L[r], Head(L[p]))
  PROVE  Moves(L, M)
BY ListsPlaced, ListsAreNext, IsHand DEF Moves, Listing

LEMMA ListsMove ==
  ASSUME Types, Idle, NEW L, L = Lists, NEW M, M = Lists',
         \/ Visit \/ BeginHandler \/ SendBacklog \/ \E c \in Conn : Execute(c)
  PROVE  Moves(L, M)
<1>1. CASE Visit
  <2>1. /\ batch = <<>> /\ batch' = answers[at] /\ answers'[at] = <<>> /\ at \in Conn
        /\ \A c \in Conn : c = at \/ answers'[c] = answers[c]
        /\ UNCHANGED <<backlog, handling, pending>>
    BY <1>1 DEF Visit, Types, Idle
  <2>2. ExceptAt(L, M, {Answers(at), Batch})
    BY <2>1, Changes
  <2>3. Placed(L) /\ Listing(M) /\ Batch \in Place /\ Answers(at) \in Place /\ Answers(at) # Batch
    BY <2>1, ListsPlaced, ListsAreNext, Places5 DEF Listing
  <2>4. L[Batch] = <<>> /\ M[Batch] = L[Answers(at)] /\ M[Answers(at)] = <<>>
    BY <2>1, ListsAre, ListsAreNext
  <2>5. Pour(L, M, Answers(at), Batch)
    BY <2>2, <2>3, <2>4, IsPour
  <2> QED BY <2>3, <2>4, <2>5 DEF Moves
<1>2. CASE BeginHandler
  <2>1. /\ batch # <<>> /\ batch' = Tail(batch) /\ handling = NoQuery /\ handling' = Head(batch)
        /\ UNCHANGED <<backlog, pending, answers>>
    BY <1>2 DEF BeginHandler
  <2>2. HandlingList = <<>> /\ HandlingList' = <<Head(batch)>>
    <3>1. Head(batch) \in Query
      BY <2>1, TailEntries DEF Types
    <3>2. handling' # NoQuery
      BY <2>1, <3>1, DataBaseAssumption DEF DataBaseAssumption, Query
    <3> QED BY <2>1, <3>2 DEF HandlingList
  <2>3. ExceptAt(L, M, {Batch, Handling})
    BY <2>1, Changes
  <2>4. Batch \in Place /\ Handling \in Place /\ Batch # Handling
    BY Places5
  <2>5. \A h : <<h>> = Append(<<>>, h)
    OBVIOUS
  <2>6. L[Batch] # <<>> /\ M[Batch] = Tail(L[Batch]) /\ M[Handling] = Append(L[Handling], Head(L[Batch]))
    BY <2>1, <2>2, <2>5, ListsAre, ListsAreNext
  <2> QED BY <2>3, <2>4, <2>6, ListsHand
<1>3. CASE SendBacklog
  <2>1. Head(backlog) \in Query /\ backlog # <<>>
    BY <1>3, TailEntries DEF SendBacklog, Types
  <2>2. Head(backlog).src \in Source
    BY <2>1 DEF Query
  <2>3. PICK c \in Conn : c = BacklogConn
    BY <2>2, Choice DEF BacklogConn
  <2>4. /\ backlog' = Tail(backlog) /\ pending'[c] = Append(pending[c], Head(backlog))
        /\ \A d \in Conn : d = c \/ pending'[d] = pending[d]
        /\ UNCHANGED <<batch, handling, answers>>
    BY <1>3, <2>3 DEF SendBacklog, Types
  <2>5. ExceptAt(L, M, {Backlog, Pending(c)})
    BY <2>4, Changes
  <2>6. Backlog \in Place /\ Pending(c) \in Place /\ Backlog # Pending(c)
    BY Places5
  <2>7. L[Backlog] # <<>> /\ M[Backlog] = Tail(L[Backlog]) /\ M[Pending(c)] = Append(L[Pending(c)], Head(L[Backlog]))
    BY <2>1, <2>4, ListsAre, ListsAreNext
  <2> QED BY <2>5, <2>6, <2>7, ListsHand
<1>4. ASSUME NEW c \in Conn, Execute(c) PROVE Moves(L, M)
  <2>1. /\ pending[c] # <<>> /\ pending'[c] = Tail(pending[c]) /\ answers'[c] = Append(answers[c], Head(pending[c]))
        /\ \A d \in Conn : d = c \/ (pending'[d] = pending[d] /\ answers'[d] = answers[d])
        /\ UNCHANGED <<batch, handling, backlog>>
    BY <1>4 DEF Execute, Types
  <2>2. ExceptAt(L, M, {Pending(c), Answers(c)})
    BY <2>1, Changes
  <2>3. Pending(c) \in Place /\ Answers(c) \in Place /\ Pending(c) # Answers(c)
    BY Places5
  <2>4. /\ L[Pending(c)] # <<>> /\ M[Pending(c)] = Tail(L[Pending(c)])
        /\ M[Answers(c)] = Append(L[Answers(c)], Head(L[Pending(c)]))
    BY <2>1, ListsAre, ListsAreNext
  <2> QED BY <2>2, <2>3, <2>4, ListsHand
<1> QED BY <1>1, <1>2, <1>3, <1>4

LEMMA ListsTake ==
  ASSUME Types, NEW L, L = Lists, NEW M, M = Lists', EndHandler
  PROVE  Take(L, M, Handling) /\ L[Handling] # <<>> /\ Head(L[Handling]) = handling
<1>1. HandlingList = <<handling>> /\ HandlingList' = <<>> /\ UNCHANGED <<backlog, batch, pending, answers>>
  BY DEF EndHandler, HandlingList
<1>2. ExceptAt(L, M, {Handling})
  BY <1>1, Changes
<1>3. \A h : <<>> = Tail(<<h>>) /\ Head(<<h>>) = h /\ <<h>> # <<>>
  OBVIOUS
<1>4. Placed(L) /\ Listing(M) /\ Handling \in Place
  BY ListsPlaced, ListsAreNext, Places5 DEF Listing
<1>5. L[Handling] = <<handling>> /\ M[Handling] = <<>>
  BY <1>1, ListsAre, ListsAreNext
<1> QED BY <1>2, <1>3, <1>4, <1>5, IsTake

LEMMA ListsSame ==
  ASSUME Types, NEW L, L = Lists, NEW M, M = Lists', UNCHANGED <<backlog, batch, handling, pending, answers>>
  PROVE  M = L
<1>1. ExceptAt(L, M, {})
  BY Changes
<1>2. Placed(L) /\ Listing(M)
  BY ListsPlaced, ListsAreNext DEF Listing
<1> QED BY <1>1, <1>2, IsSame

(***************************************************************************)
(* Every query that was sent has been handled or is in one list, once.     *)
(***************************************************************************)

Id(q) == [src |-> q.src, n |-> q.n]

Accounts(T) ==
  /\ \A q \in T : q \in Query /\ q.n \in 1..issued[q.src] /\ Id(q) \notin handled
  /\ \A h \in handled : h.n \in 1..issued[h.src]
  /\ \A s \in Source : \A n \in 1..issued[s] :
       [src |-> s, n |-> n] \in handled \/ \E q \in T : Id(q) = [src |-> s, n |-> n]

Located == /\ Alone(Lists) /\ Accounts(Total(Lists)) /\ Idle
           /\ mainPc = "released" => Total(Lists) = {}

\* Sending a query.
LEMMA AccountsSend ==
  ASSUME Types, NEW T, Accounts(T), NEW s \in Source, issued' = [issued EXCEPT ![s] = @ + 1],
         UNCHANGED handled, NEW e \in Query, e.src = s, e.n = issued[s] + 1
  PROVE  New(T, e) /\ Accounts(T \cup {e})'
<1>1. /\ issued'[s] = issued[s] + 1 /\ issued[s] \in Nat
      /\ \A z \in Source : z # s => issued'[z] = issued[z]
      /\ \A z \in Source : 1..issued[z] \subseteq 1..issued'[z]
  BY DEF Types
<1>2. \A q \in Query : q.src \in Source
  BY DEF Query
<1>3. \A h \in handled : h.src \in Source
  BY DEF Types
<1>4. New(T, e)
  BY <1>1, <1>2 DEF Accounts, Apart, Same, New
<1>5. e.n \in 1..issued'[e.src] /\ Id(e) \notin handled
  <2>1. Id(e).n = e.n /\ Id(e).src = e.src
    BY DEF Id
  <2> QED BY <1>1, <2>1 DEF Accounts
<1>6. \A q \in T \cup {e} : q \in Query /\ q.n \in 1..issued'[q.src] /\ Id(q) \notin handled'
  BY <1>1, <1>2, <1>5 DEF Accounts
<1>7. \A h \in handled' : h.n \in 1..issued'[h.src]
  BY <1>1, <1>3 DEF Accounts
<1>8. ASSUME NEW z \in Source, NEW n \in 1..issued'[z]
      PROVE  [src |-> z, n |-> n] \in handled' \/ \E q \in T \cup {e} : Id(q) = [src |-> z, n |-> n]
  <2>1. CASE n \in 1..issued[z]
    BY <2>1 DEF Accounts
  <2>2. CASE n \notin 1..issued[z]
    <3>1. z = s /\ n = e.n
      BY <1>1, <1>8, <2>2
    <3> QED BY <3>1 DEF Id
  <2> QED BY <2>1, <2>2
<1> QED BY <1>4, <1>6, <1>7, <1>8 DEF Accounts, Id

\* The handler of a query returns.
LEMMA AccountsTake ==
  ASSUME Types, NEW T, NEW e \in Query, Accounts(T \cup {e}), New(T, e),
         handled' = handled \cup {Id(e)}, UNCHANGED issued
  PROVE  Accounts(T)'
<1>1. \A q \in T : Id(q) # Id(e)
  <2>1. ASSUME NEW q \in T, Id(q) = Id(e) PROVE FALSE
    <3>1. Same(q, e)
      BY <2>1 DEF Id, Same
    <3> QED BY <3>1 DEF Apart, New
  <2> QED BY <2>1
<1>2. \A q \in T : q \in Query /\ q.n \in 1..issued'[q.src] /\ Id(q) \notin handled'
  BY <1>1 DEF Accounts
<1>3. \A h \in handled' : h.n \in 1..issued'[h.src]
  <2>1. Id(e).n = e.n /\ Id(e).src = e.src
    BY DEF Id
  <2> QED BY <2>1 DEF Accounts
<1>4. \A z \in Source : \A n \in 1..issued'[z] :
        [src |-> z, n |-> n] \in handled' \/ \E q \in T : Id(q) = [src |-> z, n |-> n]
  BY DEF Accounts
<1> QED BY <1>2, <1>3, <1>4 DEF Accounts, Id

LEMMA LocatedNext == Types /\ Located /\ [Next]_vars => Located'
<1> SUFFICES ASSUME Types, Located, [Next]_vars PROVE Located'
  OBVIOUS
<1>1. PICK L : L = Lists
  OBVIOUS
<1>2. PICK M : M = Lists'
  OBVIOUS
<1>3. Placed(L) /\ Alone(L) /\ Accounts(Total(L)) /\ Idle /\ (mainPc = "released" => Total(L) = {})
  BY <1>1, ListsPlaced DEF Located
<1>4. ASSUME Alone(M), Accounts(Total(M))', Idle', mainPc' = "released" => Total(M) = {} PROVE Located'
  BY <1>2, <1>4 DEF Located
<1>5. ASSUME Total(M) = Total(L), UNCHANGED <<issued, handled>> PROVE Accounts(Total(M))'
  BY <1>3, <1>5 DEF Accounts, Id
<1>6. ASSUME NEW s \in Source, AddQueryQueue(s) PROVE Located'
  <2>1. PICK r \in Place, e \in Query : e.src = s /\ e.n = issued[s] + 1 /\ Put(L, M, r, e)
    BY <1>1, <1>2, <1>6, ListsSend DEF Sends
  <2>2. issued' = [issued EXCEPT ![s] = @ + 1] /\ UNCHANGED <<handled, batch, handling, mainPc>>
    BY <1>6 DEF AddQueryQueue
  <2>3. New(Total(L), e) /\ Accounts(Total(L) \cup {e})'
    BY <1>3, <2>1, <2>2, AccountsSend
  <2>4. Alone(M) /\ Total(M) = Total(L) \cup {e}
    BY <1>3, <2>1, <2>3, PutLast
  <2>5. Idle' /\ mainPc' # "released"
    BY <1>3, <1>6, <2>2 DEF Idle, AddQueryQueue
  <2> QED BY <1>4, <2>3, <2>4, <2>5
<1>7. CASE EndHandler
  <2>1. Take(L, M, Handling) /\ L[Handling] # <<>> /\ Head(L[Handling]) = handling /\ Handling \in Place
    BY <1>1, <1>2, <1>7, ListsTake, Places5
  <2>2. PICK h : h = handling /\ h = Head(L[Handling])
    BY <2>1
  <2>3. Alone(M) /\ h \in Query /\ Total(L) = Total(M) \cup {h} /\ New(Total(M), h)
    <3>1. First(L, Handling, h)
      BY <2>2 DEF First
    <3> QED BY <1>3, <2>1, <3>1, TakeFirst
  <2>4. handled' = handled \cup {Id(h)} /\ handling' = NoQuery /\ UNCHANGED <<issued, mainPc, batch>>
    BY <1>7, <2>2 DEF EndHandler, Id
  <2>5. Accounts(Total(M))'
    BY <1>3, <2>3, <2>4, AccountsTake
  <2>6. mainPc = "collect"
    BY <1>3, <1>7 DEF EndHandler, Idle
  <2> QED BY <1>4, <2>3, <2>4, <2>5, <2>6 DEF Idle
<1>8. ASSUME \/ Visit \/ BeginHandler \/ SendBacklog \/ \E c \in Conn : Execute(c) PROVE Located'
  <2>1. Moves(L, M)
    BY <1>1, <1>2, <1>3, <1>8, ListsMove
  <2>2. Alone(M) /\ Total(M) = Total(L)
    BY <1>3, <2>1, HandOver, PourInto DEF Moves
  <2>3. UNCHANGED <<issued, handled>>
    BY <1>8 DEF Visit, BeginHandler, SendBacklog, Execute
  <2>4. Idle'
    BY <1>3, <1>8 DEF Idle, Visit, BeginHandler, SendBacklog, Execute
  <2>5. mainPc' = "released" => mainPc = "released"
    BY <1>8 DEF Visit, BeginHandler, SendBacklog, Execute
  <2> QED BY <1>3, <1>4, <1>5, <2>2, <2>3, <2>4, <2>5
<1>9. ASSUME BeginPass \/ NextVisit \/ BacklogBlocked \/ BacklogEmpty \/ Release \/ UNCHANGED vars
      PROVE Located'
  <2>1. UNCHANGED <<issued, handled, backlog, batch, handling, pending, answers>>
    BY <1>9 DEF BeginPass, NextVisit, BacklogBlocked, BacklogEmpty, Release, vars
  <2>2. M = L
    BY <1>1, <1>2, <2>1, ListsSame
  <2>3. Idle' /\ (mainPc' = "released" => mainPc = "released")
    BY <1>3, <1>9 DEF Idle, BeginPass, NextVisit, BacklogBlocked, BacklogEmpty, Release, vars
  <2> QED BY <1>3, <1>4, <1>5, <2>1, <2>2, <2>3
<1>10. CASE EndRelease
  <2>1. UNCHANGED <<issued, handled, backlog, batch, handling, pending, answers>>
    BY <1>10 DEF EndRelease
  <2>2. M = L
    BY <1>1, <1>2, <2>1, ListsSame
  <2>3. Idle'
    BY <1>3, <1>10 DEF Idle, EndRelease
  <2>4. Total(L) = {}
    <3>1. backlog = <<>> /\ batch = <<>> /\ HandlingList = <<>>
      BY <1>3, <1>10 DEF EndRelease, AllCleared, Idle, HandlingList
    <3>2. ASSUME NEW c \in Conn PROVE pending[c] = <<>> /\ answers[c] = <<>>
      <4>1. Used(c) = 0 /\ batch = <<>> /\ handling = NoQuery
        BY <1>3, <1>10 DEF EndRelease, AllCleared, Idle
      <4>2. /\ pending[c] \in Seq(Query) /\ answers[c] \in Seq(Query)
            /\ Len(pending[c]) \in Nat /\ Len(answers[c]) \in Nat /\ Len(<<>>) = 0
        BY LenProperties DEF Types
      <4>3. Used(c) = Len(pending[c]) + Len(answers[c]) + 0
        <5>1. (IF c = at THEN Len(batch) + (IF handling = NoQuery THEN 0 ELSE 1) ELSE 0) = 0
          BY <4>1, <4>2
        <5> QED BY <5>1 DEF Used
      <4>4. \A m, k \in Nat : m + k + 0 = 0 => m = 0 /\ k = 0
        OBVIOUS
      <4>5. Len(pending[c]) = 0 /\ Len(answers[c]) = 0
        BY <4>1, <4>2, <4>3, <4>4
      <4> QED BY <4>2, <4>5, EmptySeq
    <3>3. Entries(<<>>) = {}
      BY DEF Entries
    <3>4. \A p \in Place : L[p] = <<>>
      BY <1>1, <3>1, <3>2, ListsAre, Places5
    <3> QED BY <1>3, <3>3, <3>4 DEF Total, Placed
  <2> QED BY <1>3, <1>4, <1>5, <2>1, <2>2, <2>3, <2>4
<1> QED BY <1>6, <1>7, <1>8, <1>9, <1>10 DEF Next, Pass

LEMMA LocatedInit == Init => Located
<1> SUFFICES ASSUME Init PROVE Located
  OBVIOUS
<1>1. \A p \in Place : Lists[p] = <<>>
  <2>1. backlog = <<>> /\ batch = <<>> /\ HandlingList = <<>>
    BY DEF Init, HandlingList
  <2>2. \A c \in Conn : pending[c] = <<>> /\ answers[c] = <<>>
    BY DEF Init
  <2>3. Lists[Backlog] = <<>> /\ Lists[Batch] = <<>> /\ Lists[Handling] = <<>>
    BY <2>1, ListsAre
  <2>4. \A c \in Conn : Lists[Pending(c)] = <<>> /\ Lists[Answers(c)] = <<>>
    BY <2>2, ListsAre
  <2> QED BY <2>3, <2>4, Places5
<1>2. Entries(<<>>) = {} /\ Distinct(<<>>)
  BY DEF Entries, Distinct
<1>3. Alone(Lists) /\ Total(Lists) = {}
  BY <1>1, <1>2, ListsAre DEF Alone, Total, Apart
<1>4. Accounts({})
  BY DEF Init, Accounts
<1> QED BY <1>3, <1>4 DEF Located, Idle, Init

\* Every query is accounted for: the lists hold, once, the queries that have
\* not been handled, and nothing else.
THEOREM QueriesAreLocated == Spec => []Located
<1>1. Init => Located
  BY LocatedInit
<1>2. Types /\ Located /\ [Next]_vars => Located'
  BY LocatedNext
<1> QED BY <1>1, <1>2, TypeCorrect, PTL DEF Spec

\* What EndRelease waits for is enough: no query of any source is lost when a
\* server goes down.
THEOREM NothingIsLost == Spec => []NothingLostAtRelease
<1>1. Located => NothingLostAtRelease
  BY DEF Located, Accounts, NothingLostAtRelease
<1> QED BY <1>1, QueriesAreLocated, PTL

LEMMA InOneList ==
  ASSUME Located, NEW s \in Source, NEW n \in Nat
  PROVE  \/ \A r \in Place : InList(Lists[r], s, n) = {}
         \/ \E p \in Place : /\ \E i : InList(Lists[p], s, n) = {i}
                            /\ \A r \in Place \ {p} : InList(Lists[r], s, n) = {}
<1> SUFFICES ASSUME NEW p \in Place, NEW i \in InList(Lists[p], s, n)
             PROVE  /\ InList(Lists[p], s, n) = {i}
                    /\ \A r \in Place \ {p} : InList(Lists[r], s, n) = {}
  OBVIOUS
<1>1. \A r \in Place : \A j \in InList(Lists[r], s, n) :
        j \in DOMAIN Lists[r] /\ Same(Lists[p][i], Lists[r][j]) /\ Lists[r][j] \in Entries(Lists[r])
  BY DEF InList, Same, Entries
<1>2. \A j \in InList(Lists[p], s, n) : j = i
  BY <1>1, ListsAre DEF Located, Alone, Distinct
<1>3. \A r \in Place \ {p} : InList(Lists[r], s, n) = {}
  BY <1>1, ListsAre DEF Located, Alone, Apart
<1> QED BY <1>2, <1>3

LEMMA InTotal ==
  ASSUME NEW s \in Source, NEW n \in Nat
  PROVE  (\E q \in Total(Lists) : Id(q) = [src |-> s, n |-> n])
           <=> \E r \in Place : InList(Lists[r], s, n) # {}
<1>1. \A q : Id(q) = [src |-> s, n |-> n] <=> q.src = s /\ q.n = n
  BY DEF Id
<1>2. DOMAIN Lists = Place
  BY ListsAre
<1>3. ASSUME NEW q \in Total(Lists), Id(q) = [src |-> s, n |-> n]
      PROVE  \E r \in Place : InList(Lists[r], s, n) # {}
  <2>1. PICK r \in Place : q \in Entries(Lists[r])
    BY <1>2 DEF Total
  <2>2. PICK i \in DOMAIN Lists[r] : q = Lists[r][i]
    BY <2>1 DEF Entries
  <2>3. i \in InList(Lists[r], s, n)
    BY <1>1, <1>3, <2>2 DEF InList
  <2> QED BY <2>3
<1>4. ASSUME NEW r \in Place, NEW i \in InList(Lists[r], s, n)
      PROVE  \E q \in Total(Lists) : Id(q) = [src |-> s, n |-> n]
  <2>1. Lists[r][i] \in Total(Lists)
    BY <1>2 DEF Total, Entries, InList
  <2>2. Id(Lists[r][i]) = [src |-> s, n |-> n]
    BY <1>1 DEF InList
  <2> QED BY <2>1, <2>2
<1> QED BY <1>3, <1>4

\* The sets Places is made of.
Is(S, x)      == S = {x}
Tags(t, C, F) == UNION {{t} \X {c} \X F[c] : c \in C}

LEMMA NoTags ==
  ASSUME NEW t, NEW C, NEW F, \A c \in C : F[c] = {}
  PROVE  Tags(t, C, F) = {}
<1>1. \A c \in C : {t} \X {c} \X F[c] = {}
  OBVIOUS
<1> QED BY <1>1 DEF Tags

LEMMA OneTag ==
  ASSUME NEW t, NEW C, NEW F, NEW d \in C, NEW i, Is(F[d], i), \A c \in C : c # d => F[c] = {}
  PROVE  Is(Tags(t, C, F), <<t, d, i>>)
<1>1. PICK X : X = [c \in C |-> {t} \X {c} \X F[c]]
  OBVIOUS
<1>2. X[d] = {<<t, d, i>>} /\ \A c \in C : c # d => X[c] = {}
  BY <1>1 DEF Is
<1>3. UNION {X[c] : c \in C} = {<<t, d, i>>}
  BY <1>2
<1>4. {X[c] : c \in C} = {{t} \X {c} \X F[c] : c \in C}
  BY <1>1
<1> QED BY <1>3, <1>4 DEF Is, Tags

LEMMA OnePlace ==
  ASSUME Types, Located, NEW s \in Source, NEW n \in 1..issued[s]
  PROVE  \E w : Places(s, n) = {w}
<1>1. n \in Nat
  BY DEF Types
<1> DEFINE id == [src |-> s, n |-> n]
<1>2. id \in handled <=> \A r \in Place : InList(Lists[r], s, n) = {}
  BY <1>1, InTotal DEF Located, Accounts
<1>3. PICK B, Ba, H, P, A :
        /\ B = InList(backlog, s, n) /\ Ba = InList(batch, s, n) /\ H = InList(HandlingList, s, n)
        /\ P = [c \in Conn |-> InList(pending[c], s, n)] /\ A = [c \in Conn |-> InList(answers[c], s, n)]
  OBVIOUS
<1>4. (handling # NoQuery /\ handling.src = s /\ handling.n = n) <=> H # {}
  <2>1. HandlingList = IF handling = NoQuery THEN <<>> ELSE <<handling>>
    BY DEF HandlingList
  <2>2. InList(<<>>, s, n) = {} /\ \A h : InList(<<h>>, s, n) = IF h.src = s /\ h.n = n THEN {1} ELSE {}
    BY DEF InList
  <2> QED BY <1>3, <2>1, <2>2
<1>5. Places(s, n) = ({"backlog"} \X B) \cup ({"batch"} \X Ba)
        \cup Tags("pending", Conn, P) \cup Tags("answered", Conn, A)
        \cup (IF H # {} THEN {<<"handling">>} ELSE {})
        \cup (IF id \in handled THEN {<<"handled">>} ELSE {})
  BY <1>3, <1>4 DEF Places, Tags
<1>6. /\ B = InList(Lists[Backlog], s, n) /\ Ba = InList(Lists[Batch], s, n) /\ H = InList(Lists[Handling], s, n)
      /\ \A c \in Conn : P[c] = InList(Lists[Pending(c)], s, n) /\ A[c] = InList(Lists[Answers(c)], s, n)
  BY <1>3, ListsAre
<1>9. \A x : {x} \X {} = {} /\ \A i : {x} \X {i} = {<<x, i>>}
  OBVIOUS
<1>7. CASE id \in handled
  <2>1. B = {} /\ Ba = {} /\ H = {} /\ \A c \in Conn : P[c] = {} /\ A[c] = {}
    BY <1>2, <1>6, <1>7, Places5
  <2>2. Places(s, n) = {<<"handled">>}
    BY <1>5, <1>7, <1>9, <2>1, NoTags
  <2> QED BY <2>2
<1>8. CASE id \notin handled
  <2>1. PICK p \in Place : /\ \E i : InList(Lists[p], s, n) = {i}
                          /\ \A r \in Place \ {p} : InList(Lists[r], s, n) = {}
    BY <1>1, <1>2, <1>8, InOneList
  <2>2. PICK i : InList(Lists[p], s, n) = {i}
    BY <2>1
  <2>3. CASE p = Backlog
    <3>1. B = {i} /\ Ba = {} /\ H = {} /\ \A c \in Conn : P[c] = {} /\ A[c] = {}
      BY <1>6, <2>1, <2>2, <2>3, Places5
    <3>2. Places(s, n) = {<<"backlog", i>>}
      BY <1>5, <1>8, <1>9, <3>1, NoTags
    <3> QED BY <3>2
  <2>4. CASE p = Batch
    <3>1. B = {} /\ Ba = {i} /\ H = {} /\ \A c \in Conn : P[c] = {} /\ A[c] = {}
      BY <1>6, <2>1, <2>2, <2>4, Places5
    <3>2. Places(s, n) = {<<"batch", i>>}
      BY <1>5, <1>8, <1>9, <3>1, NoTags
    <3> QED BY <3>2
  <2>5. CASE p = Handling
    <3>1. B = {} /\ Ba = {} /\ H # {} /\ \A c \in Conn : P[c] = {} /\ A[c] = {}
      BY <1>6, <2>1, <2>2, <2>5, Places5
    <3>2. Places(s, n) = {<<"handling">>}
      BY <1>5, <1>8, <1>9, <3>1, NoTags
    <3> QED BY <3>2
  <2>6. ASSUME NEW d \in Conn, p = Pending(d) PROVE \E w : Places(s, n) = {w}
    <3>1. /\ B = {} /\ Ba = {} /\ H = {} /\ P[d] = {i}
          /\ \A c \in Conn : (c # d => P[c] = {}) /\ A[c] = {}
      BY <1>6, <2>1, <2>2, <2>6, Places5
    <3>2. Is(P[d], i)
      BY <3>1 DEF Is
    <3>5. Is(Tags("pending", Conn, P), <<"pending", d, i>>)
      BY <3>1, <3>2, OneTag
    <3>3. Tags("answered", Conn, A) = {} /\ {"backlog"} \X B = {} /\ {"batch"} \X Ba = {}
      BY <1>9, <3>1, NoTags
    <3>4. Places(s, n) = {<<"pending", d, i>>}
      BY <1>5, <1>8, <3>1, <3>3, <3>5 DEF Is
    <3> QED BY <3>4
  <2>7. ASSUME NEW d \in Conn, p = Answers(d) PROVE \E w : Places(s, n) = {w}
    <3>1. /\ B = {} /\ Ba = {} /\ H = {} /\ A[d] = {i}
          /\ \A c \in Conn : (c # d => A[c] = {}) /\ P[c] = {}
      BY <1>6, <2>1, <2>2, <2>7, Places5
    <3>2. Is(A[d], i)
      BY <3>1 DEF Is
    <3>5. Is(Tags("answered", Conn, A), <<"answered", d, i>>)
      BY <3>1, <3>2, OneTag
    <3>3. Tags("pending", Conn, P) = {} /\ {"backlog"} \X B = {} /\ {"batch"} \X Ba = {}
      BY <1>9, <3>1, NoTags
    <3>4. Places(s, n) = {<<"answered", d, i>>}
      BY <1>5, <1>8, <3>1, <3>3, <3>5 DEF Is
    <3> QED BY <3>4
  <2> QED BY <2>3, <2>4, <2>5, <2>6, <2>7, Places5
<1> QED BY <1>7, <1>8

\* A query is never lost nor carried out twice: from the moment it is sent it is
\* in one place, the backlog, one of the connections, the batch of answers or
\* its handler, and afterwards it has been handled.
THEOREM QueriesStaySound == Spec => []QueriesSound
<1>1. Types => TypeOK
  <2>1. \A s \in Source : executed[s] \in Seq([n : Nat, direct : BOOLEAN, conn : Conn]) <=> executed[s] \in Seq(Record)
    BY DEF Record
  <2>2. ASSUME Types PROVE \A s \in Source : issued[s] \in 0..Limit[s]
    BY <2>2, DataBaseAssumption DEF Types, DataBaseAssumption
  <2> QED BY <2>1, <2>2 DEF Types, TypeOK
<1>2. Types /\ Located => QueryInOnePlace
  <2>1. \A w : Cardinality({w}) = 1
    BY FS_Singleton
  <2>2. ASSUME Types, Located, NEW s \in Source, NEW n \in 1..issued[s] PROVE Cardinality(Places(s, n)) = 1
    BY <2>1, <2>2, OnePlace
  <2> QED BY <2>2 DEF QueryInOnePlace
<1>3. Types /\ Located => QueriesSound
  BY <1>1, <1>2 DEF QueriesSound
<1> QED BY <1>3, TypeCorrect, QueriesAreLocated, PTL

(***************************************************************************)
(* Order.  The queries in M go along a line: the backlog q, the pending    *)
(* queries p of their connection, the records e of those carried out.      *)
(***************************************************************************)

Line(e, p, q, R, M) ==
  /\ Sorted(e, R) /\ Sorted(p, M) /\ Sorted(q, M)
  /\ Before(Entries(e), R, Entries(p), M) /\ Before(Entries(e), R, Entries(q), M)
  /\ Before(Entries(p), M, Entries(q), M)

\* A query joins the backlog.
LEMMA LineKeep ==
  ASSUME NEW e, NEW p, NEW q \in Seq(Query), NEW x \in Query, NEW R, NEW M, Line(e, p, q, R, M),
         x \in M => Below(Entries(e), R, x) /\ Below(Entries(p), M, x) /\ Below(Entries(q), M, x)
  PROVE  Line(e, p, Append(q, x), R, M)
<1>1. Sorted(Append(q, x), M) /\ Entries(Append(q, x)) = Entries(q) \cup {x}
  BY AppendEntries DEF Line
<1> QED BY <1>1 DEF Line, Below, Before

\* One joins the pending queries.
LEMMA LinePut ==
  ASSUME NEW e, NEW p \in Seq(Query), NEW q, NEW x \in Query, NEW R, NEW M, Line(e, p, q, R, M),
         x \in M => Below(Entries(e), R, x) /\ Below(Entries(p), M, x) /\ Above(x, Entries(q), M)
  PROVE  Line(e, Append(p, x), q, R, M)
<1>1. Sorted(Append(p, x), M) /\ Entries(Append(p, x)) = Entries(p) \cup {x}
  BY AppendEntries DEF Line
<1> QED BY <1>1 DEF Line, Below, Above, Before

\* The oldest of the backlog goes elsewhere, or to the pending queries.
LEMMA LineDrop ==
  ASSUME NEW e, NEW p, NEW q \in Seq(Query), q # <<>>, NEW R, NEW M, Line(e, p, q, R, M)
  PROVE  /\ Line(e, p, Tail(q), R, M) /\ Head(q) \in Query
         /\ Head(q) \in M => /\ Below(Entries(e), R, Head(q)) /\ Below(Entries(p), M, Head(q))
                            /\ Above(Head(q), Entries(Tail(q)), M)
<1>1. /\ Sorted(Tail(q), M) /\ Entries(q) = Entries(Tail(q)) \cup {Head(q)} /\ Head(q) \in Query
      /\ Head(q) \in M => Above(Head(q), Entries(Tail(q)), M)
  BY TailEntries DEF Line
<1> QED BY <1>1 DEF Line, Below, Before

LEMMA LineSend ==
  ASSUME NEW e, NEW p \in Seq(Query), NEW q \in Seq(Query), q # <<>>, NEW R, NEW M, Line(e, p, q, R, M)
  PROVE  Line(e, Append(p, Head(q)), Tail(q), R, M)
<1>1. PICK d, x : d = Tail(q) /\ x = Head(q)
  OBVIOUS
<1>2. /\ Line(e, p, d, R, M) /\ x \in Query
      /\ x \in M => Below(Entries(e), R, x) /\ Below(Entries(p), M, x) /\ Above(x, Entries(d), M)
  BY <1>1, LineDrop
<1>3. Line(e, Append(p, x), d, R, M)
  BY <1>2, LinePut
<1> QED BY <1>1, <1>3

\* The oldest pending one is carried out, for another source or for this one.
LEMMA LineLeave ==
  ASSUME NEW e, NEW p \in Seq(Query), NEW q, p # <<>>, NEW R, NEW M, Line(e, p, q, R, M)
  PROVE  /\ Line(e, Tail(p), q, R, M) /\ Head(p) \in Query
         /\ Head(p) \in M => /\ Below(Entries(e), R, Head(p)) /\ Above(Head(p), Entries(Tail(p)), M)
                            /\ Above(Head(p), Entries(q), M)
<1>1. /\ Sorted(Tail(p), M) /\ Entries(p) = Entries(Tail(p)) \cup {Head(p)} /\ Head(p) \in Query
      /\ Head(p) \in M => Above(Head(p), Entries(Tail(p)), M)
  BY TailEntries DEF Line
<1> QED BY <1>1 DEF Line, Below, Above, Before

LEMMA LineExec ==
  ASSUME NEW e \in Seq(Record), NEW p, NEW q, NEW R, NEW M, Line(e, p, q, R, M), NEW r \in Record,
         r \in R => Below(Entries(e), R, r) /\ Above(r, Entries(p), M) /\ Above(r, Entries(q), M)
  PROVE  Line(Append(e, r), p, q, R, M)
<1>1. Sorted(Append(e, r), R) /\ Entries(Append(e, r)) = Entries(e) \cup {r}
  BY AppendEntries DEF Line
<1> QED BY <1>1 DEF Line, Below, Above, Before

\* The connection of the queries of a keyed source, and which of a source's
\* queries keep their order: the direct ones (b), those of the backlog (~b).
Home(s) ==
  CASE Kind[s] = "ADMIN" -> Index[s] % NumThreads
    [] Kind[s] = "LOGIN" -> LoginDB
    [] Kind[s] = "LOG"   -> LogDB

Kept(s, b) == IF b THEN s \in Keyed ELSE Kind[s] # "ADMIN"
Of(s, b)   == {q \in Query : q.src = s /\ q.direct = b}
Rec(b)     == {r \in Record : r.direct = b}

Ordered(s, b) ==
  /\ Line(executed[s], pending[Home(s)], backlog, Rec(b), Of(s, b))
  /\ \A c \in Conn : \A q \in Entries(pending[c]) : q \in Of(s, b) => c = Home(s)

InOrder ==
  /\ \A s \in Source : \A r \in Entries(executed[s]) : r.n <= issued[s]
  /\ \A q \in Entries(backlog) : ~q.direct
  /\ \A s \in Source : \A b \in BOOLEAN : Kept(s, b) => Ordered(s, b)

LEMMA HomeConn ==
  ASSUME Types, NEW s \in Source
  PROVE  /\ Home(s) \in Conn
         /\ s \in Keyed => ConnOf(s, Index[s]) = Home(s)
         /\ Kind[s] # "ADMIN" => ConnOf(s, 0) = Home(s)
<1>1. Kind[s] \in {"ADMIN", "LOGIN", "LOG"} /\ Index[s] \in Nat
  BY DataBaseAssumption DEF DataBaseAssumption
<1>2. Index[s] % NumThreads \in Thread
  BY <1>1, DataBaseAssumption DEF Thread, DataBaseAssumption
<1> QED BY <1>1, <1>2, Choice, Connections DEF Home, Keyed

\* The numbers of the queries that wait.
LEMMA Numbers ==
  ASSUME Types, Located
  PROVE  /\ \A c \in Conn : \A q \in Entries(pending[c]) : q \in Query /\ q.n <= issued[q.src]
         /\ \A q \in Entries(backlog) : q \in Query /\ q.n <= issued[q.src]
<1>1. \A p \in Place : Entries(Lists[p]) \subseteq Total(Lists)
  BY ListsAre DEF Total
<1>2. \A q \in Total(Lists) : q \in Query /\ q.n <= issued[q.src]
  BY DEF Located, Accounts, Types, Query
<1> QED BY <1>1, <1>2, ListsAre, Places5

LEMMA InOrderInit == Init => InOrder
<1>1. Entries(<<>>) = {} /\ \A M : Sorted(<<>>, M)
  BY DEF Entries, Sorted
<1>2. \A R, M : Line(<<>>, <<>>, <<>>, R, M)
  BY <1>1 DEF Line, Before
<1>3. ASSUME Init, NEW s \in Source PROVE pending[Home(s)] = <<>>
  <2>1. Home(s) \in Conn
    <3>1. Kind[s] \in {"ADMIN", "LOGIN", "LOG"} /\ Index[s] \in Nat
      BY DataBaseAssumption DEF DataBaseAssumption
    <3>2. Index[s] % NumThreads \in Thread
      BY <3>1, DataBaseAssumption DEF Thread, DataBaseAssumption
    <3> QED BY <3>1, <3>2, Connections DEF Home
  <2> QED BY <1>3, <2>1 DEF Init
<1>4. ASSUME Init, NEW s \in Source, NEW b \in BOOLEAN PROVE Ordered(s, b)
  <2>1. executed[s] = <<>> /\ backlog = <<>> /\ \A c \in Conn : pending[c] = <<>>
    BY <1>4 DEF Init
  <2> QED BY <1>1, <1>2, <1>3, <1>4, <2>1 DEF Ordered
<1>5. ASSUME Init
      PROVE  (\A s \in Source : executed[s] = <<>> /\ issued[s] = 0) /\ backlog = <<>>
  BY <1>5 DEF Init
<1> QED BY <1>1, <1>4, <1>5 DEF InOrder

LEMMA OrderSend ==
  ASSUME Types, Located, InOrder, NEW z \in Source, AddQueryQueue(z)
  PROVE  InOrder'
<1>1. PICK c \in Conn : c = ConnOf(z, Index[z])
  BY Choice, DataBaseAssumption DEF DataBaseAssumption
<1>2. PICK q \in Query : q = [src |-> z, n |-> issued[z] + 1, direct |-> HasRoom(c)]
  <2>1. HasRoom(c) \in BOOLEAN
    BY DEF HasRoom
  <2>2. issued[z] \in Nat
    BY DEF Types
  <2>3. issued[z] + 1 \in Nat
    BY <2>2
  <2> QED BY <2>1, <2>3 DEF Query
<1>3. /\ \/ q.direct /\ pending' = [pending EXCEPT ![c] = Append(@, q)] /\ UNCHANGED backlog
         \/ ~q.direct /\ backlog' = Append(backlog, q) /\ UNCHANGED pending
      /\ issued' = [issued EXCEPT ![z] = @ + 1] /\ UNCHANGED executed
  BY <1>1, <1>2 DEF AddQueryQueue, Keep
<1>4. q.src = z /\ q.n = issued[z] + 1 /\ issued[z] \in Nat
  BY <1>2 DEF Types
<1>5. \A s \in Source : \A r \in Entries(executed'[s]) : r.n <= issued'[s]
  <2>1. ASSUME NEW s \in Source, NEW r \in Entries(executed'[s]) PROVE r.n <= issued'[s]
    <3>1. r.n <= issued[s] /\ executed[s] \in Seq(Record)
      BY <1>3, <2>1 DEF InOrder, Types
    <3>2. r \in Record
      <4>1. PICK i \in DOMAIN executed[s] : r = executed[s][i]
        BY <1>3, <2>1 DEF Entries
      <4> QED BY <3>1, <4>1, LenProperties
    <3>3. r.n \in Nat
      BY <3>2 DEF Record
    <3>4. issued[s] \in Nat /\ issued'[s] \in {issued[s], issued[s] + 1}
      BY <1>3 DEF Types
    <3> QED BY <3>1, <3>3, <3>4
  <2> QED BY <2>1
<1>6. \A x \in Entries(backlog') : ~x.direct
  <2>1. \A x \in Entries(backlog) : ~x.direct
    BY DEF InOrder
  <2>2. Entries(Append(backlog, q)) = Entries(backlog) \cup {q}
    BY AppendEntries DEF Types
  <2> QED BY <1>3, <2>1, <2>2
<1>7. ASSUME NEW s \in Source, NEW b \in BOOLEAN, Kept(s, b) PROVE Ordered(s, b)'
  <2>1. PICK h \in Conn : h = Home(s)
    BY HomeConn
  <2>2. PICK e, p, l : e = executed[s] /\ p = pending[h] /\ l = backlog
    OBVIOUS
  <2>3. PICK R, M : R = Rec(b) /\ M = Of(s, b)
    OBVIOUS
  <2>4. Line(e, p, l, R, M) /\ \A d \in Conn : \A x \in Entries(pending[d]) : x \in M => d = h
    BY <1>7, <2>1, <2>2, <2>3 DEF InOrder, Ordered
  <2>5. p \in Seq(Query) /\ l \in Seq(Query) /\ e \in Seq(Record)
    BY <2>2 DEF Types
  <2>6. q \in M => s = z /\ q.direct = b
    BY <1>4, <2>3 DEF Of
  <2>7. q \in M => Below(Entries(e), R, q) /\ Below(Entries(p), M, q) /\ Below(Entries(l), M, q)
    <3>1. s = z => \A r \in Entries(e) : r.n \in Nat /\ r.n <= issued[z]
      <4>1. \A r \in Entries(e) : r \in Record
        BY <2>5, LenProperties DEF Entries
      <4> QED BY <2>2, <4>1 DEF InOrder, Record
    <3>2. \A x \in Entries(p) \cup Entries(l) : x \in Query /\ x.n \in Nat /\ x.n <= issued[x.src]
      BY <2>2, Numbers DEF Query
    <3>3. \A x \in M : x.src = s
      BY <2>3 DEF Of
    <3> QED BY <1>4, <2>6, <3>1, <3>2, <3>3 DEF Below
  <2>8. ASSUME Line(executed'[s], pending'[h], backlog', R, M),
               \A d \in Conn : \A x \in Entries(pending'[d]) : x \in M => d = h
        PROVE  Ordered(s, b)'
    BY <2>1, <2>3, <2>8 DEF Ordered, Home, Rec, Of, Record, Query, Conn, LogDB, LoginDB
  <2>9. CASE ~q.direct /\ backlog' = Append(backlog, q) /\ UNCHANGED pending
    <3>1. Line(e, p, Append(l, q), R, M)
      BY <2>4, <2>5, <2>7, LineKeep
    <3> QED BY <1>3, <2>2, <2>4, <2>8, <2>9, <3>1
  <2>10. CASE q.direct /\ pending' = [pending EXCEPT ![c] = Append(@, q)] /\ UNCHANGED backlog
    <3>1. q \in M => c = h
      BY <1>1, <1>7, <2>1, <2>6, <2>10, HomeConn DEF Kept
    <3>2. q \in M => Above(q, Entries(l), M)
      BY <2>2, <2>3, <2>6, <2>10 DEF InOrder, Above, Of
    <3>3. Line(e, Append(p, q), l, R, M)
      BY <2>4, <2>5, <2>7, <3>2, LinePut
    <3>4. pending'[c] = Append(pending[c], q) /\ \A d \in Conn : d # c => pending'[d] = pending[d]
      BY <2>10 DEF Types
    <3>5. Line(executed'[s], pending'[h], backlog', R, M)
      BY <1>3, <2>2, <2>4, <2>10, <3>3, <3>4
    <3>6. Entries(pending'[c]) = Entries(pending[c]) \cup {q}
      BY <3>4, AppendEntries DEF Types
    <3> QED BY <2>4, <2>8, <3>1, <3>4, <3>5, <3>6
  <2> QED BY <1>3, <2>9, <2>10
<1> QED BY <1>5, <1>6, <1>7 DEF InOrder, Kept, Keyed

LEMMA OrderBacklog ==
  ASSUME Types, InOrder, SendBacklog
  PROVE  InOrder'
<1>1. PICK q \in Query : q = Head(backlog)
  BY TailEntries DEF SendBacklog, Types
<1>2. q.src \in Source
  BY DEF Query
<1>3. PICK c \in Conn : c = BacklogConn
  BY <1>1, <1>2, Choice DEF BacklogConn
<1>4. /\ backlog # <<>> /\ backlog' = Tail(backlog) /\ pending'[c] = Append(pending[c], q)
      /\ \A d \in Conn : d # c => pending'[d] = pending[d]
      /\ UNCHANGED <<issued, executed>>
  BY <1>1, <1>3 DEF SendBacklog, Types
<1>5. q \in Entries(backlog) /\ Entries(backlog') \subseteq Entries(backlog) /\ ~q.direct
  <2>1. Entries(backlog) = Entries(Tail(backlog)) \cup {Head(backlog)}
    BY <1>4, TailEntries DEF Types
  <2> QED BY <1>1, <1>4, <2>1 DEF InOrder
<1>6. ASSUME NEW s \in Source, NEW b \in BOOLEAN, Kept(s, b) PROVE Ordered(s, b)'
  <2>1. PICK h \in Conn : h = Home(s)
    BY HomeConn
  <2>2. PICK e, p, l : e = executed[s] /\ p = pending[h] /\ l = backlog
    OBVIOUS
  <2>3. PICK R, M : R = Rec(b) /\ M = Of(s, b)
    OBVIOUS
  <2>4. Line(e, p, l, R, M) /\ \A d \in Conn : \A x \in Entries(pending[d]) : x \in M => d = h
    BY <1>6, <2>1, <2>2, <2>3 DEF InOrder, Ordered
  <2>5. p \in Seq(Query) /\ l \in Seq(Query) /\ l # <<>>
    BY <1>4, <2>2 DEF Types
  <2>6. q \in M => c = h
    <3>1. q \in M => q.src = s /\ Kind[s] # "ADMIN"
      BY <1>5, <1>6, <2>3 DEF Of, Kept
    <3> QED BY <1>1, <1>3, <2>1, <3>1, HomeConn DEF BacklogConn
  <2>7. Line(e, Append(p, q), Tail(l), R, M)
    BY <1>1, <2>2, <2>4, <2>5, LineSend
  <2>8. Line(e, p, Tail(l), R, M)
    BY <2>4, <2>5, LineDrop
  <2>9. Line(executed'[s], pending'[h], backlog', R, M)
    BY <1>4, <2>2, <2>7, <2>8
  <2>10. Entries(pending'[c]) = Entries(pending[c]) \cup {q}
    BY <1>4, AppendEntries DEF Types
  <2>11. \A d \in Conn : \A x \in Entries(pending'[d]) : x \in M => d = h
    BY <1>4, <2>4, <2>6, <2>10
  <2> QED BY <2>1, <2>3, <2>9, <2>11 DEF Ordered, Home, Rec, Of, Record, Query, Conn, LogDB, LoginDB
<1>7. (\A s \in Source : \A r \in Entries(executed'[s]) : r.n <= issued'[s])
      /\ \A x \in Entries(backlog') : ~x.direct
  BY <1>4, <1>5 DEF InOrder
<1> QED BY <1>6, <1>7 DEF InOrder, Kept, Keyed

LEMMA OrderExecute ==
  ASSUME Types, Located, InOrder, NEW c \in Conn, Execute(c)
  PROVE  InOrder'
<1>1. PICK q \in Query : q = Head(pending[c])
  BY TailEntries DEF Execute, Types
<1>2. PICK r \in Record : r = [n |-> q.n, direct |-> q.direct, conn |-> c]
  BY DEF Query, Record
<1>3. q.src \in Source /\ q.n \in Nat /\ r.n = q.n /\ r.direct = q.direct
  BY <1>2 DEF Query
<1>4. /\ pending[c] # <<>> /\ pending'[c] = Tail(pending[c])
      /\ \A d \in Conn : d # c => pending'[d] = pending[d]
      /\ executed'[q.src] = Append(executed[q.src], r)
      /\ \A s \in Source : s # q.src => executed'[s] = executed[s]
      /\ UNCHANGED <<issued, backlog>>
  BY <1>1, <1>2, <1>3 DEF Execute, Types
<1>5. Entries(pending[c]) = Entries(pending'[c]) \cup {q}
  BY <1>1, <1>4, TailEntries DEF Types
<1>6. ASSUME NEW s \in Source, NEW x \in Entries(executed'[s]) PROVE x.n <= issued'[s]
  <2>1. CASE s # q.src
    BY <1>4, <1>6, <2>1 DEF InOrder
  <2>2. CASE s = q.src
    <3>1. Entries(executed'[s]) = Entries(executed[s]) \cup {r}
      <4>1. PICK E \in Seq(Record) : E = executed[s]
        BY DEF Types
      <4>2. Entries(Append(E, r)) = Entries(E) \cup {r}
        BY AppendEntries
      <4> QED BY <1>4, <2>2, <4>1, <4>2
    <3>2. q.n <= issued[s]
      BY <1>5, <2>2, Numbers
    <3> QED BY <1>3, <1>4, <1>6, <3>1, <3>2 DEF InOrder
  <2> QED BY <2>1, <2>2
<1>7. ASSUME NEW s \in Source, NEW b \in BOOLEAN, Kept(s, b) PROVE Ordered(s, b)'
  <2>1. PICK h \in Conn : h = Home(s)
    BY HomeConn
  <2>2. PICK e, p, l : e = executed[s] /\ p = pending[h] /\ l = backlog
    OBVIOUS
  <2>3. PICK R, M : R = Rec(b) /\ M = Of(s, b)
    OBVIOUS
  <2>4. Line(e, p, l, R, M) /\ \A d \in Conn : \A x \in Entries(pending[d]) : x \in M => d = h
    BY <1>7, <2>1, <2>2, <2>3 DEF InOrder, Ordered
  <2>5. p \in Seq(Query) /\ e \in Seq(Record)
    BY <2>2 DEF Types
  <2>6. s = q.src /\ r \in R => q \in M
    BY <1>3, <2>3 DEF Rec, Of
  <2>7. q \in M => c = h
    BY <1>5, <2>4
  <2>8. Line(executed'[s], pending'[h], backlog', R, M)
    <3>1. CASE c # h
      <4>1. s = q.src => r \notin R
        BY <2>6, <2>7, <3>1
      <4>2. r \notin R => Line(Append(e, r), p, l, R, M)
        BY <2>4, <2>5, LineExec
      <4> QED BY <1>4, <2>2, <2>4, <3>1, <4>1, <4>2
    <3>2. CASE c = h
      <4>1. PICK k : k = Tail(p)
        OBVIOUS
      <4>2. /\ Line(e, k, l, R, M)
            /\ q \in M => Below(Entries(e), R, q) /\ Above(q, Entries(k), M) /\ Above(q, Entries(l), M)
        BY <1>1, <1>4, <2>2, <2>4, <2>5, <3>2, <4>1, LineLeave
      <4>3. CASE s # q.src
        BY <1>4, <2>2, <3>2, <4>1, <4>2, <4>3
      <4>4. CASE s = q.src
        <5>1. r \in R => Below(Entries(e), R, r) /\ Above(r, Entries(k), M) /\ Above(r, Entries(l), M)
          BY <1>3, <2>6, <4>2, <4>4 DEF Below, Above
        <5>2. Line(Append(e, r), k, l, R, M)
          BY <2>5, <4>2, <5>1, LineExec
        <5> QED BY <1>4, <2>2, <3>2, <4>1, <4>4, <5>2
      <4> QED BY <4>3, <4>4
    <3> QED BY <3>1, <3>2
  <2>9. \A d \in Conn : \A x \in Entries(pending'[d]) : x \in M => d = h
    BY <1>4, <1>5, <2>4
  <2> QED BY <2>1, <2>3, <2>8, <2>9 DEF Ordered, Home, Rec, Of, Record, Query, Conn, LogDB, LoginDB
<1>8. \A x \in Entries(backlog') : ~x.direct
  BY <1>4 DEF InOrder
<1> QED BY <1>6, <1>7, <1>8 DEF InOrder, Kept, Keyed

\* The queries of a keyed source go straight to their connection in the order
\* they were sent, those of a login or log source through the backlog as well;
\* the line each follows is sorted from the backlog to the database.
THEOREM LinesStaySorted == Spec => []InOrder
<1>1. Init => InOrder
  BY InOrderInit
<1>2. Types /\ Located /\ InOrder /\ [Next]_vars => InOrder'
  <2> SUFFICES ASSUME Types, Located, InOrder, [Next]_vars PROVE InOrder'
    OBVIOUS
  <2>1. CASE UNCHANGED <<issued, backlog, pending, executed>>
    <3>1. \A s \in Source, b \in BOOLEAN : Ordered(s, b)' <=> Ordered(s, b)
      BY <2>1 DEF Ordered
    <3> QED BY <2>1, <3>1 DEF InOrder
  <2>2. CASE BeginPass \/ Visit \/ BeginHandler \/ EndHandler \/ NextVisit \/ BacklogBlocked
             \/ BacklogEmpty \/ EndRelease \/ Release \/ UNCHANGED vars
    BY <2>1, <2>2 DEF BeginPass, Visit, BeginHandler, EndHandler, NextVisit, BacklogBlocked,
                      BacklogEmpty, EndRelease, Release, vars
  <2> QED BY <2>2, OrderSend, OrderBacklog, OrderExecute DEF Next, Pass
<1> QED BY <1>1, <1>2, TypeCorrect, QueriesAreLocated, PTL DEF Spec

\* In the database the queries of one character that found room, and all those of
\* a login or log source that did not, come in the order they were sent.
THEOREM QueriesStayInOrder == Spec => []QueriesInOrder
<1>1. Types /\ InOrder => QueriesInOrder
  <2> SUFFICES ASSUME Types, InOrder PROVE QueriesInOrder
    OBVIOUS
  <2>1. ASSUME NEW s \in Source, NEW b \in BOOLEAN, Kept(s, b)
        PROVE  \A i, j \in DOMAIN executed[s] :
                 i < j /\ executed[s][i].direct = b /\ executed[s][j].direct = b
                   => executed[s][i].n < executed[s][j].n
    <3>1. Sorted(executed[s], Rec(b))
      BY <2>1 DEF InOrder, Ordered, Line
    <3>2. \A i \in DOMAIN executed[s] : executed[s][i] \in Record
      BY LenProperties DEF Types
    <3> QED BY <3>1, <3>2 DEF Sorted, Rec
  <2>2. ASSUME NEW s \in Source PROVE \A i \in DOMAIN executed[s] : executed[s][i].direct \in BOOLEAN
    <3>1. \A i \in DOMAIN executed[s] : executed[s][i] \in Record
      BY LenProperties DEF Types
    <3> QED BY <3>1 DEF Record
  <2>3. DirectInOrder
    <3>1. \A s \in Keyed : s \in Source /\ Kept(s, TRUE)
      BY DEF Keyed, Kept
    <3> QED BY <2>1, <2>2, <3>1 DEF DirectInOrder
  <2>4. BackloggedInOrder
    <3>1. \A s \in Source : Kind[s] # "ADMIN" => Kept(s, FALSE)
      BY DEF Kept
    <3> QED BY <2>1, <2>2, <3>1 DEF BackloggedInOrder
  <2> QED BY <2>3, <2>4 DEF QueriesInOrder
<1> QED BY <1>1, TypeCorrect, LinesStaySorted, PTL

(***************************************************************************)
(* Refinement.  Connection c is a DBQueue: the main thread hands queries   *)
(* to it when it has room, calls the handlers of its answers in order and  *)
(* closes it when it holds nothing.                                        *)
(***************************************************************************)

Busy(c) == Entries(pending[c]) \cup Entries(Ready(c)) \cup ({Running(c)} \ {NoQuery})

LEMMA JoinEntries ==
  ASSUME NEW T, NEW p \in Seq(T), NEW q \in Seq(T)
  PROVE  /\ p \o q \in Seq(T) /\ Entries(p \o q) = Entries(p) \cup Entries(q)
         /\ \A e \in T : p \o Append(q, e) = Append(p \o q, e)
         /\ p # <<>> => p \o q # <<>> /\ Head(p \o q) = Head(p) /\ Tail(p \o q) = Tail(p) \o q
<1>1. Len(p) \in Nat /\ DOMAIN p = 1..Len(p) /\ Len(q) \in Nat /\ DOMAIN q = 1..Len(q)
  BY LenProperties
<1>2. /\ p \o q \in Seq(T) /\ Len(p \o q) = Len(p) + Len(q) /\ DOMAIN (p \o q) = 1..(Len(p) + Len(q))
      /\ \A i \in 1..(Len(p) + Len(q)) : (p \o q)[i] = IF i <= Len(p) THEN p[i] ELSE q[i - Len(p)]
  BY ConcatProperties, LenProperties
<1>3. Entries(p \o q) = Entries(p) \cup Entries(q)
  <2>1. Entries(p \o q) \subseteq Entries(p) \cup Entries(q)
    BY <1>1, <1>2 DEF Entries
  <2>2. Entries(p) \subseteq Entries(p \o q)
    BY <1>1, <1>2 DEF Entries
  <2>3. ASSUME NEW j \in 1..Len(q) PROVE q[j] \in Entries(p \o q)
    <3>1. Len(p) + j \in 1..(Len(p) + Len(q)) /\ (p \o q)[Len(p) + j] = q[j]
      BY <1>1, <1>2
    <3> QED BY <1>2, <3>1 DEF Entries
  <2> QED BY <1>1, <2>1, <2>2, <2>3 DEF Entries
<1>4. \A e \in T : p \o Append(q, e) = Append(p \o q, e)
  OBVIOUS
<1>5. ASSUME p # <<>>
      PROVE  p \o q # <<>> /\ Head(p \o q) = Head(p) /\ Tail(p \o q) = Tail(p) \o q
  <2>1. Len(p) > 0
    BY <1>1, <1>5, EmptySeq
  <2> QED BY <1>1, <1>2, <2>1
<1> QED BY <1>2, <1>3, <1>4, <1>5

LEMMA AllQueriesAre ==
  /\ NoQuery \notin AllQueries
  /\ \A q \in Query : q \in AllQueries <=> q.n \in 1..Limit[q.src]
<1>1. \A q \in AllQueries : q \in Query
  BY DataBaseAssumption DEF AllQueries, Query, DataBaseAssumption
<1>2. NoQuery \notin Query
  BY DataBaseAssumption DEF DataBaseAssumption, Query
<1>3. ASSUME NEW q \in Query PROVE q \in AllQueries <=> q.n \in 1..Limit[q.src]
  <2>1. q.src \in Source /\ q = [src |-> q.src, n |-> q.n, direct |-> q.direct] /\ q.direct \in BOOLEAN
    BY DEF Query
  <2>2. q.n \in 1..Limit[q.src] => q \in [src : {q.src}, n : 1..Limit[q.src], direct : BOOLEAN]
    BY <2>1
  <2>3. ASSUME NEW s \in Source, q \in [src : {s}, n : 1..Limit[s], direct : BOOLEAN]
        PROVE  q.n \in 1..Limit[q.src]
    BY <2>3
  <2> QED BY <2>1, <2>2, <2>3 DEF AllQueries
<1> QED BY <1>1, <1>2, <1>3

LEMMA UnusedIs == \A c \in Conn : Unused(c) = AllQueries \ Busy(c)
<1> SUFFICES ASSUME NEW c \in Conn PROVE Unused(c) = AllQueries \ Busy(c)
  OBVIOUS
<1>1. \A q \in AllQueries : q # NoQuery
  BY AllQueriesAre
<1>2. PICK p, r, h : p = pending[c] /\ r = Ready(c) /\ h = Running(c)
  OBVIOUS
<1>3. \A q : /\ (\A i \in DOMAIN p : p[i] # q) <=> q \notin Entries(p)
             /\ (\A i \in DOMAIN r : r[i] # q) <=> q \notin Entries(r)
  BY DEF Entries
<1>4. Unused(c) = {q \in AllQueries : q # h /\ q \notin Entries(p) /\ q \notin Entries(r)}
  BY <1>2, <1>3 DEF Unused
<1>5. Busy(c) = Entries(p) \cup Entries(r) \cup ({h} \ {NoQuery})
  BY <1>2 DEF Busy
<1> QED BY <1>1, <1>4, <1>5

LEMMA UnusedIsNext == \A c \in Conn : Unused(c)' = AllQueries \ Busy(c)'
<1>1. (\A c \in Conn : Unused(c) = AllQueries \ Busy(c))'
  BY UnusedIs, PTL
<1>2. AllQueries' = AllQueries /\ Conn' = Conn
  BY DEF AllQueries, Conn, LogDB
<1> QED BY <1>1, <1>2

\* What holds of every query a connection, the batch or the backlog holds.
LEMMA Held ==
  ASSUME Types, Located
  PROVE  /\ \A q \in Entries(backlog) : q \in AllQueries /\ \A c \in Conn : q \notin Busy(c)
         /\ \A q \in AllQueries : q.n > issued[q.src] => \A c \in Conn : q \notin Busy(c)
         /\ handling # NoQuery =>
              /\ handling \in AllQueries /\ handling \notin Entries(batch)
              /\ \A c \in Conn : handling \notin Entries(pending[c]) /\ handling \notin Entries(answers[c])
<1>1. PICK L : L = Lists
  OBVIOUS
<1>2. /\ DOMAIN L = Place /\ \A q : Same(q, q)
      /\ \A p \in Place : Entries(L[p]) \subseteq Total(L)
      /\ \A p, r \in Place : p # r => Apart(Entries(L[p]), Entries(L[r]))
  BY <1>1, ListsAre DEF Total, Located, Alone, Same
<1>3. \A q \in Total(L) : q \in AllQueries /\ q.n <= issued[q.src]
  <2>1. ASSUME NEW q \in Total(L) PROVE q \in AllQueries /\ q.n <= issued[q.src]
    <3>1. q \in Query /\ q.n \in 1..issued[q.src] /\ q.src \in Source
      BY <1>1, <2>1 DEF Located, Accounts, Query
    <3>2. issued[q.src] \in Nat /\ Limit[q.src] \in Nat /\ issued[q.src] <= Limit[q.src]
      BY <3>1, DataBaseAssumption DEF Types, DataBaseAssumption
    <3> QED BY <3>1, <3>2, AllQueriesAre
  <2> QED BY <2>1
<1>4. \A q, p, r : q \in Entries(L[p]) /\ p \in Place /\ r \in Place /\ p # r => q \notin Entries(L[r])
  BY <1>2 DEF Apart
<1>5. /\ L[Backlog] = backlog /\ L[Batch] = batch
      /\ handling # NoQuery => L[Handling] = <<handling>> /\ handling \in Entries(L[Handling])
      /\ \A c \in Conn : L[Pending(c)] = pending[c] /\ L[Answers(c)] = answers[c]
  <2>1. \A h : h \in Entries(<<h>>)
    BY DEF Entries
  <2> QED BY <1>1, <2>1, ListsAre DEF HandlingList
<1>6. ASSUME NEW c \in Conn, NEW q \in Busy(c)
      PROVE  \E p \in Place \ {Backlog} : q \in Entries(L[p])
  <2>1. Entries(Ready(c)) \subseteq Entries(batch) \cup Entries(answers[c])
    BY JoinEntries DEF Types, Ready
  <2>2. q \in Entries(pending[c]) \/ q \in Entries(batch) \/ q \in Entries(answers[c])
          \/ (q = handling /\ handling # NoQuery)
    BY <1>6, <2>1 DEF Busy, Running
  <2> QED BY <1>5, <2>2, Places5
<1>7. \A c \in Conn : Busy(c) \subseteq Total(L)
  BY <1>2, <1>6
<1>8. ASSUME NEW q \in Entries(backlog) PROVE q \in AllQueries /\ \A c \in Conn : q \notin Busy(c)
  BY <1>2, <1>3, <1>4, <1>5, <1>6, <1>8, Places5
<1>9. ASSUME NEW q \in AllQueries, q.n > issued[q.src], NEW c \in Conn PROVE q \notin Busy(c)
  <2>1. q \in Total(L) => q.n <= issued[q.src] /\ q.n \in Nat /\ issued[q.src] \in Nat
    BY <1>1, <1>3 DEF Located, Accounts, Query, Types
  <2> QED BY <1>7, <1>9, <2>1
<1>10. ASSUME handling # NoQuery
       PROVE  /\ handling \in AllQueries /\ handling \notin Entries(batch)
              /\ \A c \in Conn : handling \notin Entries(pending[c]) /\ handling \notin Entries(answers[c])
  <2>1. PICK h : h = handling
    OBVIOUS
  <2>2. h \in Entries(L[Handling])
    BY <1>5, <1>10, <2>1
  <2> QED BY <1>2, <1>3, <1>4, <1>5, <2>1, <2>2, Places5
<1> QED BY <1>8, <1>9, <1>10

ConnStep(c) == Connection(c)!Next \/ UNCHANGED Connection(c)!vars
Open == mainPc # "released"

LEMMA AsSubmit ==
  ASSUME Types, NEW c \in Conn, NEW m \in AllQueries, Open, Open', m \in Query, m \notin Busy(c),
         pending'[c] = Append(pending[c], m), Ready(c)' = Ready(c), Running(c)' = Running(c)
  PROVE  ConnStep(c)
<1>1. Entries(pending'[c]) = Entries(pending[c]) \cup {m}
  BY AppendEntries DEF Types
<1>2. Busy(c)' = Busy(c) \cup {m}
  BY <1>1 DEF Busy
<1>3. m \in Unused(c) /\ Unused(c)' = Unused(c) \ {m}
  BY <1>2, UnusedIs, UnusedIsNext
<1>4. (mainPc # "released") /\ (mainPc' # "released")
  BY DEF Open
<1>5. Connection(c)!Submit(m)
  BY <1>3, <1>4 DEF Connection!Submit
<1> QED BY <1>5 DEF ConnStep, Connection!Next

LEMMA AsExecute ==
  ASSUME Types, NEW c \in Conn, Open' = Open, pending[c] # <<>>, pending'[c] = Tail(pending[c]),
         Ready(c) \in Seq(Query), Ready(c)' = Append(Ready(c), Head(pending[c])), Running(c)' = Running(c)
  PROVE  ConnStep(c)
<1>1. PICK h \in Query : h = Head(pending[c])
  BY TailEntries DEF Types
<1>2. Entries(pending[c]) = Entries(pending'[c]) \cup {h}
  BY <1>1, TailEntries DEF Types
<1>3. Entries(Ready(c)') = Entries(Ready(c)) \cup {h}
  <2>1. PICK r \in Seq(Query) : r = Ready(c)
    OBVIOUS
  <2> QED BY <1>1, <2>1, AppendEntries
<1>4. Busy(c)' = Busy(c)
  BY <1>2, <1>3 DEF Busy
<1>5. Unused(c)' = Unused(c)
  BY <1>4, UnusedIs, UnusedIsNext
<1>6. Connection(c)!Execute
  BY <1>5 DEF Connection!Execute, Open
<1> QED BY <1>6 DEF ConnStep, Connection!Next

LEMMA AsDeliver ==
  ASSUME Types, NEW c \in Conn, Open' = Open, pending'[c] = pending[c],
         Running(c) = NoQuery, Ready(c) \in Seq(Query), Ready(c) # <<>>,
         Running(c)' = Head(Ready(c)), Ready(c)' = Tail(Ready(c))
  PROVE  ConnStep(c)
<1>1. PICK r \in Seq(Query) : r = Ready(c)
  OBVIOUS
<1>2. PICK h \in Query : h = Head(r) /\ Entries(r) = Entries(Tail(r)) \cup {h}
  BY <1>1, TailEntries
<1>3. h # NoQuery
  BY DataBaseAssumption DEF DataBaseAssumption, Query
<1>4. Busy(c)' = Busy(c)
  BY <1>1, <1>2, <1>3 DEF Busy
<1>5. Unused(c)' = Unused(c)
  BY <1>4, UnusedIs, UnusedIsNext
<1>6. Connection(c)!Deliver
  BY <1>5 DEF Connection!Deliver, Open
<1> QED BY <1>6 DEF ConnStep, Connection!Next

LEMMA AsFinish ==
  ASSUME Types, NEW c \in Conn, Open' = Open, pending'[c] = pending[c], Ready(c)' = Ready(c),
         Running(c) # NoQuery, Running(c)' = NoQuery, Running(c) \in AllQueries,
         Running(c) \notin Entries(pending[c]) \cup Entries(Ready(c))
  PROVE  ConnStep(c)
<1>1. Busy(c)' = Busy(c) \ {Running(c)}
  BY DEF Busy
<1>2. Unused(c)' = Unused(c) \cup {Running(c)}
  <2>1. Running(c) \in Busy(c)
    BY DEF Busy
  <2> QED BY <1>1, <2>1, UnusedIs, UnusedIsNext
<1>3. Connection(c)!Finish
  BY <1>2 DEF Connection!Finish, Open
<1> QED BY <1>3 DEF ConnStep, Connection!Next

LEMMA AsClose ==
  ASSUME NEW c \in Conn, Open, ~Open', pending[c] = <<>>, Ready(c) = <<>>, Running(c) = NoQuery,
         pending'[c] = pending[c], Ready(c)' = Ready(c), Running(c)' = Running(c)
  PROVE  ConnStep(c)
<1>1. Busy(c) = {} /\ Busy(c)' = Busy(c)
  BY DEF Busy, Entries
<1>2. Unused(c) = AllQueries /\ Unused(c)' = Unused(c)
  BY <1>1, UnusedIs, UnusedIsNext
<1>3. Connection(c)!Close
  BY <1>2 DEF Connection!Close, Open
<1> QED BY <1>3 DEF ConnStep, Connection!Next

LEMMA AsBefore ==
  ASSUME NEW c \in Conn, Open' = Open, pending'[c] = pending[c], Ready(c)' = Ready(c),
         Running(c)' = Running(c)
  PROVE  ConnStep(c)
<1>1. Busy(c)' = Busy(c)
  BY DEF Busy
<1>2. Unused(c)' = Unused(c)
  BY <1>1, UnusedIs, UnusedIsNext
<1> QED BY <1>2 DEF ConnStep, Connection!vars, Open

LEMMA ReadyIs ==
  Types => \A c \in Conn : Ready(c) \in Seq(Query) /\ (batch = <<>> => Ready(c) = answers[c])
<1> SUFFICES ASSUME Types, NEW c \in Conn
             PROVE  Ready(c) \in Seq(Query) /\ (batch = <<>> => Ready(c) = answers[c])
  OBVIOUS
<1>1. PICK a \in Seq(Query), b \in Seq(Query) : a = answers[c] /\ b = batch
  BY DEF Types
<1>2. b \o a \in Seq(Query) /\ <<>> \o a = a
  BY JoinEntries, ConcatEmptySeq
<1> QED BY <1>1, <1>2 DEF Ready

LEMMA ReadyIsNext ==
  Types' => \A c \in Conn : batch' = <<>> => Ready(c)' = answers'[c]
<1>1. (Types => \A c \in Conn : Ready(c) \in Seq(Query) /\ (batch = <<>> => Ready(c) = answers[c]))'
  BY ReadyIs, PTL
<1>2. Conn' = Conn
  BY DEF Conn, LogDB
<1> QED BY <1>1, <1>2

\* What the actions of the main thread and of a connection are to connection c.
LEMMA ConnectionSteps ==
  ASSUME Types, Types', Located, [Next]_vars, NEW c \in Conn
  PROVE  ConnStep(c)
<1>1. ASSUME NEW s \in Source, AddQueryQueue(s) PROVE ConnStep(c)
  <2>1. PICK d \in Conn : d = ConnOf(s, Index[s])
    BY Choice, DataBaseAssumption DEF DataBaseAssumption
  <2>2. PICK q \in Query : q = [src |-> s, n |-> issued[s] + 1, direct |-> HasRoom(d)]
    <3>1. HasRoom(d) \in BOOLEAN
      BY DEF HasRoom
    <3>2. issued[s] \in Nat
      BY DEF Types
    <3>3. issued[s] + 1 \in Nat
      BY <3>2
    <3> QED BY <3>1, <3>3 DEF Query
  <2>3. /\ \/ pending' = [pending EXCEPT ![d] = Append(@, q)]
           \/ UNCHANGED pending
        /\ UNCHANGED <<answers, mainPc, at, batch, handling>>
    BY <1>1, <2>1, <2>2 DEF AddQueryQueue
  <2>4. Open /\ Open' /\ Ready(c)' = Ready(c) /\ Running(c)' = Running(c)
    BY <1>1, <2>3 DEF AddQueryQueue, Open, Located, Idle, Ready, Running
  <2>5. q.src = s /\ q.n = issued[s] + 1 /\ q.n > issued[q.src] /\ q \in AllQueries
    <3>1. q.src = s /\ q.n = issued[s] + 1
      BY <2>2
    <3>2. issued[s] \in Nat /\ Limit[s] \in Nat /\ issued[s] < Limit[s]
      BY <1>1, DataBaseAssumption DEF AddQueryQueue, Types, DataBaseAssumption
    <3>3. q.n \in 1..Limit[q.src]
      BY <3>1, <3>2
    <3> QED BY <3>1, <3>2, <3>3, AllQueriesAre
  <2>6. q \notin Busy(c)
    BY <2>5, Held
  <2>7. CASE c = d /\ pending' = [pending EXCEPT ![d] = Append(@, q)]
    <3>1. pending'[c] = Append(pending[c], q)
      BY <2>7 DEF Types
    <3> QED BY <2>4, <2>5, <2>6, <3>1, AsSubmit
  <2>8. CASE c # d \/ UNCHANGED pending
    <3>1. pending'[c] = pending[c]
      BY <2>3, <2>8 DEF Types
    <3> QED BY <2>4, <3>1, AsBefore
  <2> QED BY <2>3, <2>7, <2>8
<1>2. CASE BeginPass \/ NextVisit
  <2>1. /\ batch = <<>> /\ batch' = <<>> /\ handling = NoQuery /\ handling' = NoQuery
        /\ Open' = Open /\ UNCHANGED <<pending, answers>>
    BY <1>2 DEF BeginPass, NextVisit, Open, Located, Idle
  <2>2. Ready(c)' = Ready(c) /\ Running(c)' = Running(c)
    BY <2>1, ReadyIs, ReadyIsNext DEF Running
  <2> QED BY <2>1, <2>2, AsBefore
<1>3. CASE Visit
  <2>1. /\ batch = <<>> /\ batch' = answers[at] /\ answers' = [answers EXCEPT ![at] = <<>>]
        /\ Open' = Open /\ UNCHANGED <<pending, handling, at>>
    BY <1>3 DEF Visit, Open, Located, Idle
  <2>2. Ready(c)' = Ready(c)
    <3>1. CASE c = at
      <4>1. PICK a \in Seq(Query) : a = answers[c]
        BY DEF Types
      <4>2. Ready(c) = a /\ Ready(c)' = a \o <<>>
        BY <2>1, <3>1, <4>1, ReadyIs DEF Ready, Types
      <4>3. a \o <<>> = a
        BY ConcatEmptySeq
      <4> QED BY <4>2, <4>3
    <3>2. CASE c # at
      BY <2>1, <3>2 DEF Ready, Types
    <3> QED BY <3>1, <3>2
  <2> QED BY <2>1, <2>2, AsBefore DEF Running
<1>4. CASE BeginHandler
  <2>1. /\ handling = NoQuery /\ batch # <<>> /\ handling' = Head(batch) /\ batch' = Tail(batch)
        /\ Open' = Open /\ UNCHANGED <<pending, answers, at>>
    BY <1>4 DEF BeginHandler, Open
  <2>2. CASE c # at
    BY <2>1, <2>2, AsBefore DEF Ready, Running
  <2>3. CASE c = at
    <3>1. PICK a \in Seq(Query), b \in Seq(Query) : a = answers[c] /\ b = batch
      BY DEF Types
    <3>2. b \o a # <<>> /\ Head(b \o a) = Head(b) /\ Tail(b \o a) = Tail(b) \o a
      BY <2>1, <3>1, JoinEntries
    <3>3. Ready(c) = b \o a /\ Ready(c)' = Tail(b) \o a /\ Running(c) = NoQuery /\ Running(c)' = Head(b)
      BY <2>1, <2>3, <3>1 DEF Ready, Running
    <3> QED BY <2>1, <3>2, <3>3, AsDeliver, ReadyIs
  <2> QED BY <2>2, <2>3
<1>5. CASE EndHandler
  <2>1. handling # NoQuery /\ handling' = NoQuery /\ Open' = Open /\ UNCHANGED <<pending, answers, at, batch>>
    BY <1>5 DEF EndHandler, Open
  <2>2. Ready(c)' = Ready(c)
    BY <2>1 DEF Ready
  <2>3. CASE c # at
    BY <2>1, <2>2, <2>3, AsBefore DEF Running
  <2>4. CASE c = at
    <3>1. Running(c) = handling /\ Running(c)' = NoQuery
      BY <2>1, <2>4 DEF Running
    <3>2. Entries(Ready(c)) = Entries(batch) \cup Entries(answers[c])
      BY <2>4, JoinEntries DEF Ready, Types
    <3>3. handling \in AllQueries /\ handling \notin Entries(pending[c]) \cup Entries(Ready(c))
      BY <2>1, <3>2, Held
    <3> QED BY <2>1, <2>2, <3>1, <3>3, AsFinish
  <2> QED BY <2>3, <2>4
<1>6. CASE SendBacklog
  <2>1. PICK q \in Query : q = Head(backlog) /\ q \in Entries(backlog)
    <3>1. Head(backlog) \in Query /\ Entries(backlog) = Entries(Tail(backlog)) \cup {Head(backlog)}
      BY <1>6, TailEntries DEF SendBacklog, Types
    <3> QED BY <3>1
  <2>2. q \in AllQueries /\ q \notin Busy(c)
    BY <2>1, Held
  <2>3. /\ pending' = [pending EXCEPT ![BacklogConn] = Append(@, q)] /\ Open /\ Open'
        /\ UNCHANGED <<answers, at, batch, handling>>
    BY <1>6, <2>1 DEF SendBacklog, Open
  <2>4. Ready(c)' = Ready(c) /\ Running(c)' = Running(c)
    BY <2>3 DEF Ready, Running
  <2>5. CASE c = BacklogConn
    <3>1. pending'[c] = Append(pending[c], q)
      BY <2>3, <2>5 DEF Types
    <3> QED BY <2>2, <2>3, <2>4, <3>1, AsSubmit
  <2>6. CASE c # BacklogConn
    <3>1. pending'[c] = pending[c]
      BY <2>3, <2>6 DEF Types
    <3> QED BY <2>3, <2>4, <3>1, AsBefore
  <2> QED BY <2>5, <2>6
<1>7. ASSUME NEW d \in Conn, Execute(d) PROVE ConnStep(c)
  <2>1. /\ pending[d] # <<>> /\ pending' = [pending EXCEPT ![d] = Tail(@)]
        /\ answers' = [answers EXCEPT ![d] = Append(@, Head(pending[d]))]
        /\ Open' = Open /\ UNCHANGED <<at, batch, handling>>
    BY <1>7 DEF Execute, Open
  <2>2. Running(c)' = Running(c)
    BY <2>1 DEF Running
  <2>3. CASE c # d
    <3>1. pending'[c] = pending[c] /\ Ready(c)' = Ready(c)
      BY <2>1, <2>3 DEF Types, Ready
    <3> QED BY <2>1, <2>2, <3>1, AsBefore
  <2>4. CASE c = d
    <3>1. PICK h \in Query : h = Head(pending[c])
      BY <2>1, <2>4, TailEntries DEF Types
    <3>2. PICK a \in Seq(Query), b \in Seq(Query) : a = answers[c] /\ b = batch
      BY DEF Types
    <3>3. b \o Append(a, h) = Append(b \o a, h)
      BY JoinEntries
    <3>4. pending'[c] = Tail(pending[c]) /\ answers'[c] = Append(a, h)
      BY <2>1, <2>4, <3>1, <3>2 DEF Types
    <3>5. Ready(c)' = Append(Ready(c), h)
      BY <2>1, <3>2, <3>3, <3>4 DEF Ready
    <3> QED BY <2>1, <2>2, <2>4, <3>1, <3>4, <3>5, AsExecute, ReadyIs
  <2> QED BY <2>3, <2>4
<1>8. CASE EndRelease
  <2>1. Open /\ ~Open' /\ UNCHANGED <<pending, answers, at, batch, handling>>
    BY <1>8 DEF EndRelease, Open
  <2>2. batch = <<>> /\ handling = NoQuery /\ Used(c) = 0
    BY <1>8 DEF EndRelease, AllCleared, Located, Idle
  <2>3. pending[c] = <<>> /\ answers[c] = <<>>
    <3>1. /\ pending[c] \in Seq(Query) /\ answers[c] \in Seq(Query)
          /\ Len(pending[c]) \in Nat /\ Len(answers[c]) \in Nat /\ Len(<<>>) = 0
      BY LenProperties DEF Types
    <3>2. (IF c = at THEN Len(batch) + (IF handling = NoQuery THEN 0 ELSE 1) ELSE 0) = 0
      BY <2>2, <3>1
    <3>3. Used(c) = Len(pending[c]) + Len(answers[c]) + 0
      BY <3>2 DEF Used
    <3>4. \A m, k \in Nat : m + k + 0 = 0 => m = 0 /\ k = 0
      OBVIOUS
    <3>5. Len(pending[c]) = 0 /\ Len(answers[c]) = 0
      BY <2>2, <3>1, <3>3, <3>4
    <3> QED BY <3>1, <3>5, EmptySeq
  <2>4. Ready(c) = <<>> /\ Running(c) = NoQuery
    BY <2>2, <2>3, ReadyIs DEF Running
  <2>5. Ready(c)' = Ready(c) /\ Running(c)' = Running(c) /\ pending'[c] = pending[c]
    BY <2>1 DEF Ready, Running
  <2> QED BY <2>1, <2>3, <2>4, <2>5, AsClose
<1>9. CASE BacklogBlocked \/ BacklogEmpty \/ Release \/ UNCHANGED vars
  <2>1. Open' = Open /\ UNCHANGED <<pending, answers, at, batch, handling>>
    BY <1>9 DEF BacklogBlocked, BacklogEmpty, Release, vars, Open
  <2> QED BY <2>1, AsBefore DEF Ready, Running
<1> QED BY <1>1, <1>2, <1>3, <1>4, <1>5, <1>6, <1>7, <1>8, <1>9 DEF Next, Pass

\* Every connection is used, and behaves, as DBQueue says, whatever the others and
\* the backlog do.
THEOREM ConnectionsStayQueues == Spec => ConnectionsAreQueues
<1>1. Init => \A c \in Conn : Connection(c)!Init
  <2> SUFFICES ASSUME Init, NEW c \in Conn PROVE Connection(c)!Init
    OBVIOUS
  <2>1. /\ pending[c] = <<>> /\ answers[c] = <<>> /\ batch = <<>> /\ handling = NoQuery
        /\ mainPc # "released"
    BY DEF Init
  <2>2. <<>> \o <<>> = <<>>
    OBVIOUS
  <2>3. Ready(c) = <<>> /\ Running(c) = NoQuery
    BY <2>1, <2>2 DEF Ready, Running
  <2>4. Busy(c) = {}
    BY <2>1, <2>3 DEF Busy, Entries
  <2>5. Unused(c) = AllQueries
    BY <2>4, UnusedIs
  <2> QED BY <2>1, <2>3, <2>5 DEF Connection!Init
<1>2. Types /\ Types' /\ Located /\ [Next]_vars
        => [\A c \in Conn : Connection(c)!Next \/ UNCHANGED Connection(c)!vars]_vars
  BY ConnectionSteps DEF ConnStep
<1> QED BY <1>1, <1>2, TypeCorrect, QueriesAreLocated, PTL DEF Spec, ConnectionsAreQueues
=============================================================================
