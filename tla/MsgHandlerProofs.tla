-------------------------- MODULE MsgHandlerProofs --------------------------
(***************************************************************************)
(* Proofs about the worker pool, for every number of connections, workers, *)
(* requests and callers and every capacity of the task queues.             *)
(***************************************************************************)
EXTENDS MsgHandler, TLAPS

USE MsgHandlerAssumption
USE DEF queueVars, poolVars, dispatchVars, WorkerPC, DispatchPC, StopPC

\* The worker of a request exists, and depends on the connection alone.
LEMMA WorkerOfType ==
    \A c \in Conns : \A m, n \in Number :
        WorkerOf(c, n) \in Workers /\ WorkerOf(c, m) = WorkerOf(c, n)
BY DEF WorkerOf, Workers, Number

-----------------------------------------------------------------------------
(* Type correctness.                                                       *)

\* The state NewMsgHandler creates is well typed.
LEMMA InitTypeOK == Init => TypeOK
BY DEF Init, TypeOK, Workers, Number, Request

\* What the worker receives is a request, and the rest of its queue a queue.
LEMMA ReceiveType ==
    ASSUME TypeOK, NEW w \in Workers, taskQueue[w] # <<>>
    PROVE  /\ Head(taskQueue[w]) \in Request
           /\ Head(taskQueue[w]) = taskQueue[w][1]
           /\ Tail(taskQueue[w]) \in Seq(Request)
           /\ Len(Tail(taskQueue[w])) = Len(taskQueue[w]) - 1
           /\ \A i \in 1..(Len(taskQueue[w]) - 1) :
                  Tail(taskQueue[w])[i] = taskQueue[w][i + 1]
BY DEF TypeOK

\* A worker's receive, in its loop or in its drain, keeps the types.
LEMMA ReceiveTypeOK ==
    ASSUME TypeOK, NEW w \in Workers, NEW l \in WorkerPC, Receive(w, l)
    PROVE  TypeOK'
<1> DEFINE r == Head(taskQueue[w])
<1>0. taskQueue[w] # <<>>
  BY DEF Receive
<1>1. /\ r \in Request
      /\ Tail(taskQueue[w]) \in Seq(Request)
      /\ Len(Tail(taskQueue[w])) <= MaxTaskLen
  BY <1>0, ReceiveType DEF TypeOK
<1>2. /\ taskQueue' \in [Workers -> Seq(Request)]
      /\ \A v \in Workers : Len(taskQueue'[v]) <= MaxTaskLen
  BY <1>1 DEF Receive, TypeOK
<1>3. /\ current' \in [Workers -> SUBSET Request]
      /\ \A v \in Workers : \A p, q \in current'[v] : p = q
  BY <1>1 DEF Receive, TypeOK
<1>4. began' \in [Conns -> SUBSET Number]
  <2>1. r.conn \in Conns /\ r.n \in Number
    BY <1>1 DEF Request
  <2>2. began' = [began EXCEPT ![r.conn] = @ \cup {r.n}]
    BY DEF Receive
  <2>3. began \in [Conns -> SUBSET Number]
    BY DEF TypeOK
  <2> HIDE DEF r
  <2> QED BY <2>1, <2>2, <2>3, Zenon
<1> QED BY <1>2, <1>3, <1>4 DEF Receive, TypeOK

\* The send of SendMsgToTaskQueue keeps the types: the worker exists, and a
\* queue that has room is not filled beyond its capacity.
LEMMA SendTypeOK ==
    ASSUME TypeOK, NEW c \in Conns, DispatchSend(c), SentInv
    PROVE  TypeOK'
<1> DEFINE w == WorkerOf(c, sent[c])
<1>1. sent[c] \in Number
  BY DEF TypeOK, SentInv, DispatchSend, Number
<1>2. w \in Workers
  BY <1>1, WorkerOfType
<1>3. [conn |-> c, n |-> sent[c]] \in Request
  BY <1>1 DEF Request
<1>4. /\ taskQueue' \in [Workers -> Seq(Request)]
      /\ \A v \in Workers : Len(taskQueue'[v]) <= MaxTaskLen
  BY <1>2, <1>3 DEF DispatchSend, TypeOK, HasRoom
<1>5. pooled' \in [Conns -> SUBSET Number]
  BY <1>1 DEF DispatchSend, TypeOK
<1> QED BY <1>4, <1>5 DEF DispatchSend, TypeOK

\* Every step keeps the types.
LEMMA TypeStep ==
    ASSUME TypeOK, SentInv, [Next]_vars
    PROVE  TypeOK'
<1>1. CASE StartWorkerPool
  <2>1. CASE workerCtx = "nil"
    BY <1>1, <2>1 DEF StartWorkerPool, TypeOK
  <2>2. CASE workerCtx # "nil"
    BY <1>1, <2>2 DEF StartWorkerPool, TypeOK
  <2> QED BY <2>1, <2>2
<1>2. ASSUME NEW p \in Stoppers, StopTake(p) \/ StopNext(p)
      PROVE  TypeOK'
  <2>1. CASE StopTake(p)
    BY <2>1, Zenon DEF StopTake, TypeOK
  <2>2. CASE StopCancel(p)
    BY <2>2 DEF StopCancel, TypeOK
  <2>3. CASE StopDrained(p) \/ StopExpired(p)
    BY <2>3, ZenonT(30) DEF StopDrained, StopExpired, TypeOK
  <2> QED BY <1>2, <2>1, <2>2, <2>3 DEF StopNext
<1>3. ASSUME NEW c \in Conns, DispatchSnapshot(c)
      PROVE  TypeOK'
  <2>1. sent' \in [Conns -> 0..MaxRequests] /\ sent[c] + 1 \in Number
    BY <1>3 DEF DispatchSnapshot, TypeOK, Number
  <2>2. loose' \subseteq Request
    BY <1>3, <2>1 DEF DispatchSnapshot, TypeOK, Request
  <2>3. dispatch' \in [Conns -> DispatchPC]
    BY <1>3 DEF DispatchSnapshot, TypeOK
  <2> QED BY <1>3, <2>1, <2>2, <2>3 DEF DispatchSnapshot, TypeOK
<1>4. ASSUME NEW c \in Conns, DispatchSend(c)
      PROVE  TypeOK'
  BY <1>4, SendTypeOK
<1>5. ASSUME NEW w \in Workers, WorkerNext(w)
      PROVE  TypeOK'
  <2>1. CASE WorkerTake(w)
    BY <2>1, ReceiveTypeOK DEF WorkerTake
  <2>2. CASE DrainTake(w)
    BY <2>2, ReceiveTypeOK DEF DrainTake
  <2>3. CASE WorkerCancelled(w) \/ DrainEnd(w)
    BY <2>3, ZenonT(30) DEF WorkerCancelled, DrainEnd, TypeOK
  <2>4. CASE ExecuteEnd(w)
    BY <2>4 DEF ExecuteEnd, TypeOK
  <2> QED BY <1>5, <2>1, <2>2, <2>3, <2>4 DEF WorkerNext
<1>6. CASE LooseRun
  BY <1>6 DEF LooseRun, TypeOK
<1>7. CASE UNCHANGED vars
  BY <1>7 DEF vars, TypeOK
<1> QED BY <1>1, <1>2, <1>3, <1>4, <1>5, <1>6, <1>7 DEF Next

-----------------------------------------------------------------------------
(* The inductive invariant.  Only three kinds of steps touch the queues or *)
(* the bookkeeping of the readers.                                         *)

\* A step leaves queues and readers alone, apart from a worker that may end
\* its request, or it is the snapshot or the send of SendMsgToTaskQueue, or
\* the receive of a worker.
LEMMA StepKinds ==
    ASSUME TypeOK, [Next]_vars
    PROVE  \/ /\ UNCHANGED <<taskQueue, pooled, began, sent, dispatch>>
              /\ \A w \in Workers : current'[w] \subseteq current[w]
           \/ \E c \in Conns : DispatchSnapshot(c)
           \/ \E c \in Conns : DispatchSend(c)
           \/ \E w \in Workers : \E l \in WorkerPC : Receive(w, l)
<1> DEFINE Quiet == /\ UNCHANGED <<taskQueue, pooled, began, sent, dispatch>>
                    /\ \A w \in Workers : current'[w] \subseteq current[w]
<1>1. CASE StartWorkerPool \/ LooseRun \/ UNCHANGED vars
  BY <1>1 DEF StartWorkerPool, LooseRun, vars
<1>2. ASSUME NEW p \in Stoppers, StopTake(p) \/ StopNext(p)
      PROVE  Quiet
  BY <1>2 DEF StopTake, StopNext, StopCancel, StopDrained, StopExpired
<1>3. ASSUME NEW w \in Workers, WorkerNext(w)
      PROVE  Quiet \/ \E l \in WorkerPC : Receive(w, l)
  <2>1. CASE WorkerTake(w) \/ DrainTake(w)
    BY <2>1 DEF WorkerTake, DrainTake
  <2>2. CASE WorkerCancelled(w) \/ DrainEnd(w)
    BY <2>2 DEF WorkerCancelled, DrainEnd
  <2>3. CASE ExecuteEnd(w)
    BY <2>3 DEF ExecuteEnd, TypeOK
  <2> QED BY <1>3, <2>1, <2>2, <2>3 DEF WorkerNext
<1> QED BY <1>1, <1>2, <1>3, Zenon DEF Next

\* The parts of the invariant that speak of the queues and the bookkeeping.
Core == QueueInv /\ SentInv /\ CurrentInv /\ PerConnOrder /\ ExactlyOnce

\* A step that leaves queues and bookkeeping alone keeps the invariant.
LEMMA QuietCore ==
    ASSUME TypeOK, Core, UNCHANGED <<taskQueue, pooled, began, sent, dispatch>>,
           \A w \in Workers : current'[w] \subseteq current[w]
    PROVE  Core'
<1>1. QueueInv' /\ SentInv'
  BY ZenonT(30) DEF Core, QueueInv, SentInv
<1>2. CurrentInv'
  BY DEF Core, CurrentInv, TypeOK
<1>3. PerConnOrder' /\ ExactlyOnce'
  BY DEF Core, PerConnOrder, ExactlyOnce, Waits
<1> QED BY <1>1, <1>2, <1>3 DEF Core

\* Taking the snapshot only moves the reader on to a fresh number.
LEMMA SnapshotCore ==
    ASSUME TypeOK, Core, NEW c \in Conns, DispatchSnapshot(c)
    PROVE  Core'
<1>1. UNCHANGED <<taskQueue, pooled, began, current>>
  BY DEF DispatchSnapshot
<1>2. SentInv'
  <2>1. ASSUME NEW d \in Conns
        PROVE  /\ \A n \in pooled[d] : n <= sent'[d]
               /\ dispatch'[d] = "send" => sent'[d] >= 1 /\ sent'[d] \notin pooled[d]
    <3>1. CASE d = c
      <4>1. sent'[c] = sent[c] + 1 /\ sent[c] \in Nat
        BY DEF DispatchSnapshot, TypeOK
      <4>2. \A n \in pooled[c] : n \in Nat /\ n <= sent[c]
        BY DEF Core, SentInv, TypeOK, Number
      <4> QED BY <3>1, <4>1, <4>2
    <3>2. CASE d # c
      BY <3>2 DEF DispatchSnapshot, Core, SentInv, TypeOK
    <3> QED BY <3>1, <3>2
  <2> QED BY <1>1, <2>1 DEF SentInv, Core
<1>3. QueueInv' /\ CurrentInv'
  BY <1>1, Zenon DEF Core, QueueInv, CurrentInv
<1>4. PerConnOrder' /\ ExactlyOnce'
  BY <1>1 DEF Core, PerConnOrder, ExactlyOnce, Waits
<1> QED BY <1>2, <1>3, <1>4 DEF Core

\* Queueing a request: it is the newest of its connection, and goes behind
\* the others of that connection.
LEMMA SendCore ==
    ASSUME TypeOK, Core, NEW c \in Conns, DispatchSend(c)
    PROVE  Core'
<1> DEFINE k == sent[c]
           w == WorkerOf(c, k)
           r == [conn |-> c, n |-> k]
<1>1. k \in Number /\ r \in Request
  BY DEF TypeOK, Core, SentInv, DispatchSend, Number, Request
<1>2. w \in Workers
  BY <1>1, WorkerOfType
<1>3. taskQueue'[w] = Append(taskQueue[w], r) /\ taskQueue[w] \in Seq(Request)
  BY <1>2 DEF DispatchSend, TypeOK
<1>a. /\ Len(taskQueue'[w]) = Len(taskQueue[w]) + 1
      /\ Len(taskQueue[w]) \in Nat
      /\ taskQueue'[w][Len(taskQueue[w]) + 1] = r
      /\ \A i \in 1..Len(taskQueue[w]) : taskQueue'[w][i] = taskQueue[w][i]
  BY <1>1, <1>3
<1>b. \A v \in Workers : v # w => taskQueue'[v] = taskQueue[v]
  BY <1>2 DEF DispatchSend, TypeOK
<1>c. ASSUME NEW v \in Workers, NEW i \in 1..Len(taskQueue'[v])
      PROVE  \/ /\ i \in 1..Len(taskQueue[v])
                /\ \A j \in 1..i : taskQueue'[v][j] = taskQueue[v][j]
             \/ v = w /\ i = Len(taskQueue[w]) + 1 /\ taskQueue'[v][i] = r
  <2> HIDE DEF w, r, k
  <2>1. CASE v = w
    <3>1. i \in 1..Len(taskQueue[w]) \/ i = Len(taskQueue[w]) + 1
      BY <1>a, <1>c, <2>1
    <3> QED BY <1>a, <2>1, <3>1
  <2>2. CASE v # w
    <3>1. taskQueue'[v] = taskQueue[v]
      BY <1>b, <2>2
    <3> QED BY <1>c, <3>1
  <2> QED BY <2>1, <2>2
<1>5. /\ pooled'[c] = pooled[c] \cup {k}
      /\ \A d \in Conns : d # c => pooled'[d] = pooled[d]
      /\ \A d \in Conns : pooled[d] \subseteq pooled'[d]
  BY DEF DispatchSend, TypeOK
<1>6. /\ UNCHANGED <<began, current, sent>>
      /\ k \notin pooled[c] /\ k \notin began[c]
      /\ \A n \in pooled[c] : n < k
  BY <1>1 DEF DispatchSend, Core, SentInv, TypeOK, Number
<1>7. SentInv'
  BY <1>1, <1>5, <1>6 DEF DispatchSend, Core, SentInv, TypeOK, Number
<1>8. QueueInv'
  <2> SUFFICES ASSUME NEW v \in Workers, NEW i \in 1..Len(taskQueue'[v])
               PROVE  LET q == taskQueue'[v][i] IN
                      /\ WorkerOf(q.conn, q.n) = v
                      /\ q.n \in pooled'[q.conn] \ began'[q.conn]
                      /\ \A j \in 1..(i - 1) :
                             taskQueue'[v][j].conn = q.conn => taskQueue'[v][j].n < q.n
    BY DEF QueueInv
  <2>1. CASE /\ i \in 1..Len(taskQueue[v])
             /\ \A j \in 1..i : taskQueue'[v][j] = taskQueue[v][j]
    <3>0. taskQueue[v] \in Seq(Request)
      BY DEF TypeOK
    <3>1. taskQueue[v][i] \in Request
      BY <2>1, <3>0
    <3>2. taskQueue'[v][i] = taskQueue[v][i]
      BY <2>1
    <3>3. \A j \in 1..(i - 1) : taskQueue'[v][j] = taskQueue[v][j]
      BY <2>1
    <3>4. pooled[taskQueue[v][i].conn] \subseteq pooled'[taskQueue[v][i].conn]
      BY <1>5, <3>1, Zenon DEF Request
    <3> QED BY <1>6, <2>1, <3>2, <3>3, <3>4, ZenonT(30) DEF Core, QueueInv
  <2>2. CASE v = w /\ i = Len(taskQueue[w]) + 1 /\ taskQueue'[v][i] = r
    <3>1. \A j \in 1..Len(taskQueue[w]) :
              taskQueue[w][j].n \in pooled[taskQueue[w][j].conn]
      BY <1>2 DEF Core, QueueInv
    <3>2. ASSUME NEW j \in 1..(i - 1), taskQueue'[v][j].conn = c
          PROVE  taskQueue'[v][j].n < k
      <4>1. j \in 1..Len(taskQueue[w]) /\ taskQueue'[v][j] = taskQueue[w][j]
        BY <1>a, <2>2
      <4> QED BY <1>6, <3>1, <3>2, <4>1
    <3>3. r.conn = c /\ r.n = k /\ k \in pooled'[c] \ began'[c]
      BY <1>5, <1>6
    <3> QED BY <2>2, <3>2, <3>3
  <2> QED BY <1>c, <2>1, <2>2, Zenon
<1>9. PerConnOrder'
  <2>1. ASSUME NEW d \in Conns, NEW n \in began'[d], NEW m \in pooled'[d], m < n
        PROVE  m \in began'[d]
    <3>1. n \in began[d] /\ n \in pooled[d]
      BY <1>6, <2>1 DEF Core, SentInv
    <3>2. CASE m \in pooled[d]
      BY <1>6, <2>1, <3>1, <3>2 DEF Core, PerConnOrder
    <3>3. CASE d = c /\ m = k
      <4>1. n < k /\ n \in Number /\ k \in Number
        BY <1>1, <1>6, <3>1, <3>3 DEF TypeOK
      <4> QED BY <2>1, <3>3, <4>1 DEF Number
    <3> QED BY <1>5, <2>1, <3>2, <3>3, Zenon
  <2> QED BY <2>1 DEF PerConnOrder
<1>10. ExactlyOnce'
  <2>1. ASSUME NEW d \in Conns, NEW n \in Number, [conn |-> d, n |-> n] # r
        PROVE  Waits(d, n)' <=> Waits(d, n)
    <3> HIDE DEF w, r, k
    <3>1. ASSUME NEW v \in Workers, NEW i \in 1..Len(taskQueue[v])
          PROVE  i \in 1..Len(taskQueue'[v]) /\ taskQueue'[v][i] = taskQueue[v][i]
      <4>1. CASE v = w
        BY <1>a, <3>1, <4>1
      <4>2. CASE v # w
        <5>1. taskQueue'[v] = taskQueue[v]
          BY <1>b, <4>2
        <5> QED BY <3>1, <5>1
      <4> QED BY <4>1, <4>2
    <3>2. \A v \in Workers : \A i \in 1..Len(taskQueue'[v]) :
              \/ i \in 1..Len(taskQueue[v]) /\ taskQueue'[v][i] = taskQueue[v][i]
              \/ taskQueue'[v][i] = r
      <4> TAKE v \in Workers
      <4> TAKE i \in 1..Len(taskQueue'[v])
      <4>1. i \in 1..i \/ ~(i \in 1..Len(taskQueue[v]))
        OBVIOUS
      <4> QED BY <1>c, <4>1
    <3> QED BY <2>1, <3>1, <3>2 DEF Waits
  <2>2. \E v \in Workers : \E i \in 1..Len(taskQueue'[v]) :
            taskQueue'[v][i] = [conn |-> c, n |-> k]
    <3>1. Len(taskQueue[w]) + 1 \in 1..Len(taskQueue'[w])
      BY <1>a
    <3>2. taskQueue'[w][Len(taskQueue[w]) + 1] = [conn |-> c, n |-> k]
      BY <1>a
    <3> HIDE DEF w, k
    <3> QED BY <1>2, <3>1, <3>2
  <2>3. ASSUME NEW d \in Conns, NEW n \in pooled'[d]
        PROVE  Waits(d, n)' <=> n \notin began'[d]
    <3>1. CASE d = c /\ n = k
      BY <1>6, <2>2, <3>1 DEF Waits
    <3>2. CASE ~(d = c /\ n = k)
      <4>1. n \in pooled[d] /\ n \in Number /\ [conn |-> d, n |-> n] # r
        BY <1>5, <2>3, <3>2, ZenonT(30) DEF TypeOK
      <4> QED BY <1>6, <2>1, <4>1, Zenon DEF Core, ExactlyOnce
    <3> QED BY <3>1, <3>2
  <2> QED BY <2>3 DEF ExactlyOnce
<1> QED BY <1>6, <1>7, <1>8, <1>9, <1>10 DEF Core, CurrentInv

\* Receiving the head of a queue: it is the oldest of its connection that
\* has not begun, and nowhere else.
LEMMA ReceiveCore ==
    ASSUME TypeOK, Core, NEW w \in Workers, NEW l \in WorkerPC, Receive(w, l)
    PROVE  Core'
<1> DEFINE r == Head(taskQueue[w])
<1>1. /\ r \in Request
      /\ r = taskQueue[w][1]
      /\ 1 \in 1..Len(taskQueue[w])
      /\ taskQueue[w] \in Seq(Request)
  BY ReceiveType DEF Receive, TypeOK
<1>2. r.conn \in Conns /\ r.n \in Number /\ r = [conn |-> r.conn, n |-> r.n]
  BY <1>1 DEF Request
<1>3. /\ taskQueue'[w] = Tail(taskQueue[w])
      /\ \A v \in Workers : v # w => taskQueue'[v] = taskQueue[v]
  BY DEF Receive, TypeOK
<1>4. /\ Len(taskQueue'[w]) = Len(taskQueue[w]) - 1
      /\ \A i \in 1..(Len(taskQueue[w]) - 1) : taskQueue'[w][i] = taskQueue[w][i + 1]
  BY <1>3, ReceiveType, ZenonT(30) DEF Receive
<1>5. began' = [began EXCEPT ![r.conn] = @ \cup {r.n}]
  BY Zenon DEF Receive
<1> HIDE DEF r
<1>6. /\ began'[r.conn] = began[r.conn] \cup {r.n}
      /\ \A d \in Conns : d # r.conn => began'[d] = began[d]
  BY <1>2, <1>5 DEF TypeOK
<1>7. UNCHANGED <<pooled, sent, dispatch>>
  BY Zenon DEF Receive
<1>8. /\ WorkerOf(r.conn, r.n) = w
      /\ r.n \in pooled[r.conn] \ began[r.conn]
  BY <1>1, ZenonT(30) DEF Core, QueueInv
<1>9. ASSUME NEW v \in Workers, NEW i \in 1..Len(taskQueue'[v])
      PROVE  \/ v # w /\ taskQueue'[v] = taskQueue[v]
             \/ /\ v = w /\ i + 1 \in 1..Len(taskQueue[w])
                /\ \A j \in 1..i : taskQueue'[v][j] = taskQueue[w][j + 1]
  <2>1. Len(taskQueue[w]) \in Nat
    BY <1>1
  <2>2. CASE v # w
    BY <1>3, <2>2
  <2>3. CASE v = w
    <3>1. i \in 1..(Len(taskQueue[w]) - 1)
      BY <1>4, <1>9, <2>1, <2>3
    <3>2. i + 1 \in 1..Len(taskQueue[w])
      BY <2>1, <3>1
    <3>3. \A j \in 1..i : j \in 1..(Len(taskQueue[w]) - 1)
      BY <2>1, <3>1
    <3> QED BY <1>4, <2>3, <3>2, <3>3
  <2> QED BY <2>2, <2>3
\* No other queued request is r: behind it numbers are larger, and the other
\* queues belong to other connections.
<1>10. ASSUME NEW v \in Workers, NEW i \in 1..Len(taskQueue[v]), v # w \/ i # 1
       PROVE  ~(taskQueue[v][i].conn = r.conn /\ taskQueue[v][i].n <= r.n)
  <2>0. taskQueue[v] \in Seq(Request)
    BY DEF TypeOK
  <2>1. taskQueue[v][i] \in Request
    BY <1>10, <2>0
  <2>2. taskQueue[v][i].conn \in Conns /\ taskQueue[v][i].n \in Number
    BY <2>1 DEF Request
  <2>3. WorkerOf(taskQueue[v][i].conn, taskQueue[v][i].n) = v
    BY Zenon DEF Core, QueueInv
  <2>4. CASE v # w
    BY <1>2, <1>8, <2>2, <2>3, <2>4, WorkerOfType
  <2>5. CASE v = w /\ i # 1
    <3>1. 1 \in 1..(i - 1)
      BY <1>10, <2>5
    <3>2. taskQueue[w][1].conn = taskQueue[w][i].conn
             => taskQueue[w][1].n < taskQueue[w][i].n
      BY <2>5, <3>1, ZenonT(30) DEF Core, QueueInv
    <3> QED BY <1>1, <1>2, <2>2, <2>5, <3>2 DEF Number
  <2> QED BY <1>10, <2>4, <2>5
<1>11. SentInv'
  <2>1. SentInv
    BY Zenon DEF Core
  <2>2. \A c \in Conns : began[c] \subseteq pooled[c]
    BY ONLY <2>1, Zenon DEF SentInv
  <2>3. \A c \in Conns : began'[c] \subseteq pooled'[c]
    BY ONLY <1>6, <1>7, <1>8, <2>2
  <2> QED BY ONLY <1>7, <2>1, <2>3, Zenon DEF SentInv
<1>12. CurrentInv'
  <2>1. current' = [current EXCEPT ![w] = {r}]
    BY ZenonT(30) DEF Receive, r
  <2> QED BY <1>8, <2>1 DEF Core, CurrentInv, TypeOK
<1>13. PerConnOrder'
  <2> SUFFICES ASSUME NEW d \in Conns, NEW n \in began'[d], NEW m \in pooled[d], m < n
               PROVE  m \in began'[d]
    BY <1>7, Zenon DEF PerConnOrder
  <2>1. CASE n \in began[d]
    BY <1>6, <2>1 DEF Core, PerConnOrder
  <2>2. CASE d = r.conn /\ n = r.n
    <3>1. ASSUME m \notin began[d]
          PROVE  FALSE
      <4>1. PICK v \in Workers : \E i \in 1..Len(taskQueue[v]) :
                taskQueue[v][i] = [conn |-> d, n |-> m]
        BY <3>1 DEF Core, ExactlyOnce, Waits
      <4>i. PICK i \in 1..Len(taskQueue[v]) : taskQueue[v][i] = [conn |-> d, n |-> m]
        BY <4>1
      <4>2. m \in Number /\ m # r.n /\ m <= r.n
        BY <1>2, <2>2 DEF TypeOK, Number
      <4>3. v # w \/ i # 1
        BY <1>1, <4>i, <4>2
      <4> QED BY <1>10, <2>2, <4>i, <4>2, <4>3
    <3> QED BY <1>6, <3>1
  <2> QED BY <1>6, <2>1, <2>2, ZenonT(30)
<1>14. QueueInv'
  <2> SUFFICES ASSUME NEW v \in Workers, NEW i \in 1..Len(taskQueue'[v])
               PROVE  LET q == taskQueue'[v][i] IN
                      /\ WorkerOf(q.conn, q.n) = v
                      /\ q.n \in pooled'[q.conn] \ began'[q.conn]
                      /\ \A j \in 1..(i - 1) :
                             taskQueue'[v][j].conn = q.conn => taskQueue'[v][j].n < q.n
    BY ZenonT(30) DEF QueueInv
  <2> DEFINE q == taskQueue'[v][i]
  <2>1. ASSUME NEW k \in 1..Len(taskQueue[v]), q = taskQueue[v][k], v # w \/ k # 1
        PROVE  /\ WorkerOf(q.conn, q.n) = v
               /\ q.n \in pooled'[q.conn] \ began'[q.conn]
    <3>0. taskQueue[v] \in Seq(Request)
      BY DEF TypeOK
    <3>1. q \in Request
      BY <2>1, <3>0
    <3>2. q.conn \in Conns /\ q.n \in Number
      BY <3>1 DEF Request
    <3>3. ~(q.conn = r.conn /\ q.n = r.n)
      <4>1. ~(taskQueue[v][k].conn = r.conn /\ taskQueue[v][k].n <= r.n)
        BY <1>10, <2>1
      <4>2. r.n <= r.n
        BY <1>2 DEF Number
      <4> QED BY <2>1, <4>1, <4>2, ZenonT(30)
    <3>4. WorkerOf(q.conn, q.n) = v /\ q.n \in pooled[q.conn] \ began[q.conn]
      BY <2>1, ZenonT(30) DEF Core, QueueInv
    <3> QED BY <1>6, <1>7, <3>2, <3>3, <3>4, ZenonT(30)
  <2>2. CASE v # w /\ taskQueue'[v] = taskQueue[v]
    BY <2>1, <2>2, ZenonT(30) DEF Core, QueueInv
  <2>3. CASE /\ v = w /\ i + 1 \in 1..Len(taskQueue[w])
             /\ \A j \in 1..i : taskQueue'[v][j] = taskQueue[w][j + 1]
    <3>1. q = taskQueue[w][i + 1] /\ i + 1 # 1
      BY <2>3
    <3>2. ASSUME NEW j \in 1..(i - 1), taskQueue'[v][j].conn = q.conn
          PROVE  taskQueue'[v][j].n < q.n
      <4>1. taskQueue'[v][j] = taskQueue[w][j + 1] /\ j + 1 \in 1..((i + 1) - 1)
        <5>1. i \in Nat /\ j \in Nat
          BY ONLY i \in 1..Len(taskQueue'[v]), j \in 1..(i - 1)
        <5>2. j \in 1..i /\ j + 1 \in 1..((i + 1) - 1)
          BY ONLY <5>1, j \in 1..(i - 1)
        <5> QED BY ONLY <2>3, <5>2, Zenon
      <4>2. taskQueue[w][j + 1].conn = taskQueue[w][i + 1].conn
               => taskQueue[w][j + 1].n < taskQueue[w][i + 1].n
        BY <2>3, <4>1, ZenonT(30) DEF Core, QueueInv
      <4> QED BY <2>3, <3>1, <3>2, <4>1, <4>2, Zenon
    <3> QED BY <2>1, <2>3, <3>1, <3>2, ZenonT(30)
  <2> QED BY <1>9, <2>2, <2>3, Zenon
<1>15. ExactlyOnce'
  <2>1. ASSUME NEW d \in Conns, NEW n \in Number, ~(d = r.conn /\ n = r.n)
        PROVE  Waits(d, n)' <=> Waits(d, n)
    <3>1. ASSUME Waits(d, n)
          PROVE  Waits(d, n)'
      <4>1. PICK v \in Workers : \E i \in 1..Len(taskQueue[v]) :
                taskQueue[v][i] = [conn |-> d, n |-> n]
        BY <3>1, ZenonT(30) DEF Waits
      <4>i. PICK i \in 1..Len(taskQueue[v]) : taskQueue[v][i] = [conn |-> d, n |-> n]
        BY <4>1, ZenonT(30)
      <4>2. CASE v # w
        BY <1>3, <4>i, <4>2, ZenonT(30) DEF Waits
      <4>3. CASE v = w
        <5>1. i # 1
          BY <1>1, <2>1, <4>i, <4>3
        <5>2. i - 1 \in 1..Len(taskQueue'[w]) /\ taskQueue'[w][i - 1] = taskQueue[w][i]
          <6>1. Len(taskQueue[w]) \in Nat
            BY <1>1
          <6>2. i - 1 \in 1..(Len(taskQueue[w]) - 1) /\ (i - 1) + 1 = i
            BY <4>3, <5>1, <6>1
          <6> QED BY <1>4, <6>2, ZenonT(30)
        <5> QED BY <4>i, <4>3, <5>2, ZenonT(30) DEF Waits
      <4> QED BY <4>2, <4>3
    <3>2. ASSUME Waits(d, n)'
          PROVE  Waits(d, n)
      <4>1. PICK v \in Workers : \E i \in 1..Len(taskQueue'[v]) :
                taskQueue'[v][i] = [conn |-> d, n |-> n]
        BY <3>2, ZenonT(30) DEF Waits
      <4>i. PICK i \in 1..Len(taskQueue'[v]) : taskQueue'[v][i] = [conn |-> d, n |-> n]
        BY <4>1, ZenonT(30)
      <4>2. CASE v # w /\ taskQueue'[v] = taskQueue[v]
        BY <4>i, <4>2, ZenonT(30) DEF Waits
      <4>3. CASE /\ v = w /\ i + 1 \in 1..Len(taskQueue[w])
                 /\ \A j \in 1..i : taskQueue'[v][j] = taskQueue[w][j + 1]
        <5>1. taskQueue[w][i + 1] = [conn |-> d, n |-> n]
          BY <4>i, <4>3
        <5> QED BY <4>3, <5>1, ZenonT(30) DEF Waits
      <4> QED BY <1>9, <4>2, <4>3, ZenonT(30)
    <3> QED BY <3>1, <3>2
  <2>2. ASSUME NEW v \in Workers, NEW i \in 1..Len(taskQueue'[v]),
               taskQueue'[v][i] = r
        PROVE  FALSE
    <3>1. CASE v # w /\ taskQueue'[v] = taskQueue[v]
      BY <1>2, <1>10, <2>2, <3>1 DEF Number
    <3>2. CASE /\ v = w /\ i + 1 \in 1..Len(taskQueue[w])
               /\ \A j \in 1..i : taskQueue'[v][j] = taskQueue[w][j + 1]
      <4>1. taskQueue[w][i + 1] = r /\ i + 1 # 1
        BY <2>2, <3>2
      <4>2. ~(r.conn = r.conn /\ r.n <= r.n)
        BY <1>10, <3>2, <4>1, ZenonT(30)
      <4> QED BY <1>2, <4>2 DEF Number
    <3> QED BY <1>9, <3>1, <3>2, Zenon
  <2>3. ASSUME NEW d \in Conns, NEW n \in pooled[d]
        PROVE  Waits(d, n)' <=> n \notin began'[d]
    <3>1. CASE d = r.conn /\ n = r.n
      <4>1. ~Waits(d, n)'
        BY <1>2, <2>2, <3>1, ZenonT(30) DEF Waits
      <4> QED BY <1>6, <3>1, <4>1, ZenonT(30)
    <3>2. CASE ~(d = r.conn /\ n = r.n)
      <4>1. Waits(d, n)' <=> Waits(d, n)
        BY <2>1, <2>3, <3>2, ZenonT(30) DEF TypeOK
      <4>2. n \in began'[d] <=> n \in began[d]
        BY <1>6, <3>2, ZenonT(30)
      <4> QED BY <4>1, <4>2, ZenonT(30) DEF Core, ExactlyOnce
    <3> QED BY <3>1, <3>2
  <2> QED BY <1>7, <2>3 DEF ExactlyOnce
<1> QED BY <1>11, <1>12, <1>13, <1>14, <1>15 DEF Core

-----------------------------------------------------------------------------
(* The theorems.                                                           *)

\* The core of the invariant holds of an empty pool.
LEMMA InitCore == Init => Core
BY DEF Init, Core, QueueInv, SentInv, CurrentInv, PerConnOrder, ExactlyOnce

\* Every step keeps the core of the invariant.
LEMMA CoreStep ==
    ASSUME TypeOK, Core, [Next]_vars
    PROVE  Core'
BY StepKinds, QuietCore, SnapshotCore, SendCore, ReceiveCore, Zenon

\* The inductive invariant of the worker pool.
THEOREM InductiveInvariant == Spec => []IInv
<1>1. Init => IInv
  BY InitTypeOK, InitCore DEF IInv, Core
<1>2. IInv /\ [Next]_vars => IInv'
  <2> SUFFICES ASSUME IInv, [Next]_vars
               PROVE  IInv'
    OBVIOUS
  <2>1. TypeOK /\ Core /\ SentInv
    BY DEF IInv, Core
  <2> QED BY <2>1, TypeStep, CoreStep DEF IInv, Core
<1> QED BY <1>1, <1>2, PTL DEF Spec

\* Type correctness: the task queues respect their capacity.
THEOREM TypeCorrect == Spec => []TypeOK
<1>1. IInv => TypeOK
  BY DEF IInv
<1> QED BY <1>1, InductiveInvariant, PTL

\* Requests of one connection begin in the order in which its reader queued
\* them, for any number of connections, workers and stops.
THEOREM PerConnectionOrder == Spec => []PerConnOrder
<1>1. IInv => PerConnOrder
  BY DEF IInv
<1> QED BY <1>1, InductiveInvariant, PTL

\* A queued request is executed at most once and never vanishes.
THEOREM BeginsExactlyOnce == Spec => []ExactlyOnce
<1>1. IInv => ExactlyOnce
  BY DEF IInv
<1> QED BY <1>1, InductiveInvariant, PTL

\* Two workers never execute requests of the same connection.
THEOREM NeverTwice == Spec => []OneAtATime
<1>1. IInv => OneAtATime
  <2> SUFFICES ASSUME IInv, NEW v \in Workers, NEW w \in Workers,
                      NEW q \in current[v], NEW r \in current[w], q.conn = r.conn
               PROVE  v = w
    BY Zenon DEF OneAtATime
  <2>1. q \in Request /\ r \in Request
    BY DEF IInv, TypeOK
  <2>2. q.conn \in Conns /\ q.n \in Number /\ r.n \in Number
    BY <2>1, Zenon DEF Request
  <2>3. WorkerOf(q.conn, q.n) = v /\ WorkerOf(r.conn, r.n) = w
    BY DEF IInv, CurrentInv
  <2> QED BY <2>2, <2>3, WorkerOfType, ZenonT(30)
<1> QED BY <1>1, InductiveInvariant, PTL
=============================================================================
