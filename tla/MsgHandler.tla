----------------------------- MODULE MsgHandler -----------------------------
(***************************************************************************)
(* The worker pool of knet/msgHandler.go: the reader of every connection   *)
(* hands its requests to SendMsgToTaskQueue one after the other, a fixed   *)
(* worker per connection executes them, StopWorkerPool cancels the workers *)
(* and lets them drain their queues.                                       *)
(*                                                                         *)
(* A request is the pair of its connection and its number on that          *)
(* connection.  Server.Run and Client.Start start the pool before the      *)
(* first connection exists, so readers only appear after StartWorkerPool.  *)
(***************************************************************************)
EXTENDS Integers, Sequences

CONSTANTS
    Conns,        \* ids of the connections whose readers dispatch requests
    PoolSize,     \* workerPoolSize
    MaxTaskLen,   \* maxWorkerTaskLen, the capacity of one task queue
    Stoppers,     \* goroutines that call StopWorkerPool
    MaxRequests,  \* bound: requests per connection
    MaxStarts     \* bound: calls of StartWorkerPool

ASSUME MsgHandlerAssumption ==
    /\ Conns \subseteq Nat
    /\ PoolSize \in Nat \ {0}
    /\ MaxTaskLen \in Nat \ {0}
    /\ MaxRequests \in Nat
    /\ MaxStarts \in Nat

VARIABLES
    workerCtx,     \* nil, live, cancelled
    workerCancel,  \* nil, set
    taskQueue,     \* one queue per worker
    worker,        \* program counters of the workers
    current,       \* the request a worker executes, as a set of at most one
    dispatch,      \* program counters of SendMsgToTaskQueue, per connection
    sent,          \* number of the request the reader dispatched last
    loose,         \* requests in a goroutine of their own (go mh.Execute)
    stop,          \* program counters of the callers of StopWorkerPool
    starts,        \* calls of StartWorkerPool so far
    serving,       \* history: started and not stopped since: no, yes
    pooled,        \* history: numbers of the requests put into a queue
    began          \* history: numbers of the queued requests that began

vars == <<workerCtx, workerCancel, taskQueue, worker, current, dispatch, sent,
          loose, stop, starts, serving, pooled, began>>

Workers == 0..(PoolSize - 1)
Number  == 1..MaxRequests
Request == [conn : Conns, n : Number]

WorkerPC   == {"none", "select", "exec", "drain", "drainExec", "end"}
DispatchPC == {"idle", "send"}
StopPC     == {"idle", "cancel", "wait", "drained", "expired", "noop"}

Init ==
    /\ workerCtx = "nil"
    /\ workerCancel = "nil"
    /\ taskQueue = [w \in Workers |-> <<>>]
    /\ worker = [w \in Workers |-> "none"]
    /\ current = [w \in Workers |-> {}]
    /\ dispatch = [c \in Conns |-> "idle"]
    /\ sent = [c \in Conns |-> 0]
    /\ loose = {}
    /\ stop = [p \in Stoppers |-> "idle"]
    /\ starts = 0
    /\ serving = "no"
    /\ pooled = [c \in Conns |-> {}]
    /\ began = [c \in Conns |-> {}]

-----------------------------------------------------------------------------
(* StartWorkerPool and StopWorkerPool                                      *)

\* The pool is started once in its life: workerCtx is never reset.
StartWorkerPool ==
    /\ starts < MaxStarts
    /\ starts' = starts + 1
    /\ serving' = "yes"
    /\ \/ /\ workerCtx = "nil"
          /\ workerCtx' = "live"
          /\ workerCancel' = "set"
          /\ worker' = [w \in Workers |-> "select"]
       \/ /\ workerCtx # "nil"
          /\ UNCHANGED <<workerCtx, workerCancel, worker>>
    /\ UNCHANGED <<taskQueue, current, dispatch, sent, loose, stop, pooled, began>>

queueVars == <<taskQueue, current, dispatch, sent, loose, starts, pooled, began>>

\* The first caller takes the cancel function out of the handler.
StopTake(p) ==
    /\ stop[p] = "idle"
    /\ serving' = "no"
    /\ \/ /\ workerCancel = "set"
          /\ workerCancel' = "nil"
          /\ stop' = [stop EXCEPT ![p] = "cancel"]
       \/ /\ workerCancel = "nil"
          /\ stop' = [stop EXCEPT ![p] = "noop"]
          /\ UNCHANGED workerCancel
    /\ UNCHANGED <<queueVars, workerCtx, worker>>

StopCancel(p) ==
    /\ stop[p] = "cancel"
    /\ workerCtx' = "cancelled"
    /\ stop' = [stop EXCEPT ![p] = "wait"]
    /\ UNCHANGED <<queueVars, workerCancel, worker, serving>>

\* workerWG.Wait is over.
StopDrained(p) ==
    /\ stop[p] = "wait"
    /\ \A w \in Workers : worker[w] = "end"
    /\ stop' = [stop EXCEPT ![p] = "drained"]
    /\ UNCHANGED <<queueVars, workerCtx, workerCancel, worker, serving>>

\* The caller's ctx is done first.
StopExpired(p) ==
    /\ stop[p] = "wait"
    /\ stop' = [stop EXCEPT ![p] = "expired"]
    /\ UNCHANGED <<queueVars, workerCtx, workerCancel, worker, serving>>

-----------------------------------------------------------------------------
(* SendMsgToTaskQueue                                                      *)

poolVars == <<workerCtx, workerCancel, stop, starts, serving>>

\* Mutant: requests are spread over the workers, whoever sent them.
WorkerOfRequest(c, n) == (c + n) % PoolSize

\* The worker of the n-th request of connection c: the number is irrelevant.
WorkerOf(c, n) == c % PoolSize

\* Reads whether the pool is active, and forgets the lock: without an active
\* pool the request gets a goroutine of its own.
DispatchSnapshot(c) ==
    /\ dispatch[c] = "idle"
    /\ workerCtx # "nil"
    /\ sent[c] < MaxRequests
    /\ sent' = [sent EXCEPT ![c] = @ + 1]
    /\ \/ /\ workerCancel = "set"
          /\ dispatch' = [dispatch EXCEPT ![c] = "send"]
          /\ UNCHANGED loose
       \/ /\ workerCancel = "nil"
          /\ loose' = loose \cup {[conn |-> c, n |-> sent[c] + 1]}
          /\ UNCHANGED dispatch
    /\ UNCHANGED <<poolVars, taskQueue, worker, current, pooled, began>>

\* Mutant: off by one in the capacity of a task queue.
HasRoomPlusOne(w) == Len(taskQueue[w]) <= MaxTaskLen

HasRoom(w) == Len(taskQueue[w]) < MaxTaskLen

\* Mutant: the successful non-blocking send falls through to the blocking one.
DispatchSendTwice(c) ==
    LET w == WorkerOf(c, sent[c]) IN
    /\ dispatch[c] = "send"
    /\ HasRoom(w)
    /\ taskQueue' = [taskQueue EXCEPT
                       ![w] = Append(@, [conn |-> c, n |-> sent[c]])]
    /\ pooled' = [pooled EXCEPT ![c] = @ \cup {sent[c]}]
    /\ \E l \in DispatchPC : dispatch' = [dispatch EXCEPT ![c] = l]
    /\ UNCHANGED <<poolVars, worker, current, sent, loose, began>>

\* Mutant: a request that finds its queue full is dropped.
DispatchSendDrops(c) ==
    LET w == WorkerOf(c, sent[c]) IN
    /\ dispatch[c] = "send"
    /\ dispatch' = [dispatch EXCEPT ![c] = "idle"]
    /\ taskQueue' = [taskQueue EXCEPT
                       ![w] = IF HasRoom(w) THEN Append(@, [conn |-> c, n |-> sent[c]]) ELSE @]
    /\ pooled' = [pooled EXCEPT ![c] = @ \cup {sent[c]}]
    /\ UNCHANGED <<poolVars, worker, current, sent, loose, began>>

\* The send to the queue, which blocks while the queue is full.  It acts on
\* the snapshot, whatever has happened to the pool since.
DispatchSend(c) ==
    LET w == WorkerOf(c, sent[c]) IN
    /\ dispatch[c] = "send"
    /\ HasRoom(w)
    /\ taskQueue' = [taskQueue EXCEPT
                       ![w] = Append(@, [conn |-> c, n |-> sent[c]])]
    /\ pooled' = [pooled EXCEPT ![c] = @ \cup {sent[c]}]
    /\ dispatch' = [dispatch EXCEPT ![c] = "idle"]
    /\ UNCHANGED <<poolVars, worker, current, sent, loose, began>>

-----------------------------------------------------------------------------
(* worker and Execute                                                      *)

dispatchVars == <<dispatch, sent, loose, pooled>>

\* The worker receives the head of its queue and calls Execute.
Receive(w, l) ==
    /\ taskQueue[w] # <<>>
    /\ LET r == Head(taskQueue[w]) IN
         /\ current' = [current EXCEPT ![w] = {r}]
         /\ began' = [began EXCEPT ![r.conn] = @ \cup {r.n}]
    /\ taskQueue' = [taskQueue EXCEPT ![w] = Tail(@)]
    /\ worker' = [worker EXCEPT ![w] = l]
    /\ UNCHANGED <<poolVars, dispatchVars>>

\* select takes a request, or sees that workerCtx is done.
WorkerTake(w) == worker[w] = "select" /\ Receive(w, "exec")

WorkerCancelled(w) ==
    /\ worker[w] = "select"
    /\ workerCtx = "cancelled"
    /\ worker' = [worker EXCEPT ![w] = "drain"]
    /\ UNCHANGED <<poolVars, dispatchVars, taskQueue, current, began>>

DrainTake(w) == worker[w] = "drain" /\ Receive(w, "drainExec")

\* Mutant: a cancelled worker leaves what is still queued.
DrainedAlways(w) == TRUE

\* The default case of the draining select: nothing is queued any more.
Drained(w) == taskQueue[w] = <<>>

DrainEnd(w) ==
    /\ worker[w] = "drain"
    /\ Drained(w)
    /\ worker' = [worker EXCEPT ![w] = "end"]
    /\ UNCHANGED <<poolVars, dispatchVars, taskQueue, current, began>>

\* Execute returns: the chain of handlers is done, or a panic was recovered.
ExecuteEnd(w) ==
    /\ worker[w] \in {"exec", "drainExec"}
    /\ worker' = [worker EXCEPT ![w] = IF @ = "exec" THEN "select" ELSE "drain"]
    /\ current' = [current EXCEPT ![w] = {}]
    /\ UNCHANGED <<poolVars, dispatchVars, taskQueue, began>>

\* A goroutine of its own executes its request and is gone.
LooseRun ==
    /\ \E r \in loose : loose' = loose \ {r}
    /\ UNCHANGED <<poolVars, taskQueue, worker, current, dispatch, sent, pooled, began>>

-----------------------------------------------------------------------------
(* The specification                                                       *)

StopNext(p) == StopCancel(p) \/ StopDrained(p) \/ StopExpired(p)

WorkerNext(w) ==
    \/ WorkerTake(w) \/ WorkerCancelled(w) \/ DrainTake(w) \/ DrainEnd(w)
    \/ ExecuteEnd(w)

Next ==
    \/ StartWorkerPool
    \/ \E p \in Stoppers : StopTake(p) \/ StopNext(p)
    \/ \E c \in Conns : DispatchSnapshot(c) \/ DispatchSend(c)
    \/ \E w \in Workers : WorkerNext(w)
    \/ LooseRun

Spec == Init /\ [][Next]_vars

\* Handlers return.  select is random: a worker cannot overlook a queued
\* request, or the cancellation, forever.  A ctx need not expire.
Fairness ==
    /\ \A p \in Stoppers : WF_vars(StopCancel(p)) /\ WF_vars(StopDrained(p))
    /\ \A c \in Conns : SF_vars(DispatchSend(c))
    /\ \A w \in Workers : WF_vars(WorkerNext(w)) /\ SF_vars(WorkerCancelled(w))
    /\ WF_vars(LooseRun)

FairSpec == Spec /\ Fairness

-----------------------------------------------------------------------------
(* Properties                                                              *)

\* Type correctness: a task queue never holds more than maxWorkerTaskLen
\* requests and a worker executes at most one.
TypeOK ==
    /\ workerCtx \in {"nil", "live", "cancelled"}
    /\ workerCancel \in {"nil", "set"}
    /\ taskQueue \in [Workers -> Seq(Request)]
    /\ \A w \in Workers : Len(taskQueue[w]) <= MaxTaskLen
    /\ worker \in [Workers -> WorkerPC]
    /\ current \in [Workers -> SUBSET Request]
    /\ \A w \in Workers : \A q, r \in current[w] : q = r
    /\ dispatch \in [Conns -> DispatchPC]
    /\ sent \in [Conns -> 0..MaxRequests]
    /\ loose \subseteq Request
    /\ stop \in [Stoppers -> StopPC]
    /\ starts \in 0..MaxStarts
    /\ serving \in {"no", "yes"}
    /\ pooled \in [Conns -> SUBSET Number]
    /\ began \in [Conns -> SUBSET Number]

\* Per-connection order: when a worker begins a request, every request that
\* the same connection queued before it has begun, also while the workers
\* drain their queues and whatever other connections share the worker.
PerConnOrder ==
    \A c \in Conns : \A n \in began[c] : \A m \in pooled[c] : m < n => m \in began[c]

\* A connection's requests never run at the same time on two workers.
OneAtATime ==
    \A v, w \in Workers : \A q \in current[v], r \in current[w] :
        q.conn = r.conn => v = w

\* Request number n of connection c waits in a task queue.
Waits(c, n) ==
    \E w \in Workers : \E i \in 1..Len(taskQueue[w]) :
        taskQueue[w][i] = [conn |-> c, n |-> n]

\* A queued request begins exactly once: until it begins it is in a task
\* queue, and afterwards it never is.
ExactlyOnce ==
    \A c \in Conns : \A n \in pooled[c] : Waits(c, n) <=> n \notin began[c]

\* What is queued before the pool is cancelled is executed, by the workers'
\* loop or by their drain: StopWorkerPool abandons no request it finds queued.
QueuedRuns ==
    \A c \in Conns : \A n \in Number :
        (n \in pooled[c] /\ workerCtx = "live") ~> (n \in began[c])

\* The FAQ: a connection's messages always go to the same worker, as long as
\* the pool has been started and not been stopped since.
AlwaysPooled == [][serving = "yes" => loose' \subseteq loose]_vars

-----------------------------------------------------------------------------
(* The inductive invariant behind PerConnOrder, OneAtATime, ExactlyOnce.   *)

\* A queue holds requests of its own connections only, each one queued and
\* not begun, and the requests of a connection in the order of their numbers.
QueueInv ==
    \A w \in Workers : \A i \in 1..Len(taskQueue[w]) :
        LET r == taskQueue[w][i] IN
        /\ WorkerOf(r.conn, r.n) = w
        /\ r.n \in pooled[r.conn] \ began[r.conn]
        /\ \A j \in 1..(i - 1) :
               taskQueue[w][j].conn = r.conn => taskQueue[w][j].n < r.n

\* The reader queues increasing numbers, and none before it is at the send.
SentInv ==
    \A c \in Conns :
        /\ \A n \in pooled[c] : n <= sent[c]
        /\ dispatch[c] = "send" => sent[c] >= 1 /\ sent[c] \notin pooled[c]
        /\ began[c] \subseteq pooled[c]

\* A worker executes requests of its own connections only.
CurrentInv == \A w \in Workers : \A r \in current[w] : WorkerOf(r.conn, r.n) = w

IInv == TypeOK /\ QueueInv /\ SentInv /\ CurrentInv /\ PerConnOrder /\ ExactlyOnce
=============================================================================
