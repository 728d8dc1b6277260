---------------------------- MODULE ConnDispatch ----------------------------
(***************************************************************************)
(* One connection together with the worker pool that executes its          *)
(* requests: the reader hands its frames to SendMsgToTaskQueue and blocks  *)
(* there while the task queue is full, and a handler may call SendMsg and  *)
(* Stop on the connection whose request it serves.                         *)
(*                                                                         *)
(* The connection is module Connection, the pool an instance of            *)
(* MsgHandler.  The workers are the goroutines that call SendMsg and are   *)
(* among those that call Stop (Connection has any other callers).  The     *)
(* server has no heartbeat template: the heartbeat shares nothing with the *)
(* pool but the Stop it may call.                                          *)
(***************************************************************************)
EXTENDS Connection

CONSTANTS
    ConnID,       \* c.connID
    PoolSize,     \* as in MsgHandler
    MaxTaskLen,   \* as in MsgHandler
    MaxFrames     \* bound: frames the peer sends

VARIABLES
    workerCtx, workerCancel, taskQueue, worker, current, dispatch, sent, loose,
    poolStop, starts, serving, pooled, began

Pool == INSTANCE MsgHandler WITH
            Conns <- {ConnID}, Stoppers <- {}, stop <- poolStop,
            MaxRequests <- MaxFrames, MaxStarts <- 1

ASSUME ConnDispatchAssumption ==
    /\ ConnID \in Nat
    /\ PoolSize \in Nat \ {0}
    /\ MaxTaskLen \in Nat \ {0}
    /\ MaxFrames \in Nat
    /\ Senders = Pool!Workers
    /\ Senders \subseteq Stoppers

pool == <<workerCtx, workerCancel, taskQueue, worker, current, dispatch, sent,
          loose, poolStop, starts, serving, pooled, began>>

allVars == <<vars, pool>>

conn == ConnID

\* The reader is inside SendMsgToTaskQueue.
Dispatching == dispatch[conn] = "send"

DispatchInit == Init /\ Pool!Init

-----------------------------------------------------------------------------
(* The pool is started before there is a connection to start.              *)

PoolStart == Pool!StartWorkerPool /\ UNCHANGED vars

ConnStart(s) ==
    /\ workerCtx # "nil"
    /\ StartCAS(s) \/ StartNext(s)
    /\ hb' = "nil"
    /\ UNCHANGED pool

\* The reader of one connection is one goroutine: it reads, exits or takes
\* the next frame only after the send of the previous one has returned.
Read ==
    /\ ~Dispatching
    /\ ReadData
    /\ sent[conn] + batch' <= MaxFrames
    /\ UNCHANGED pool

ReaderOther ==
    /\ ~Dispatching
    /\ ReadError \/ ReaderExit \/ (batch = 0 /\ Deliver)
    /\ UNCHANGED pool

\* for _, msg := range msgs: the call of SendMsgToTaskQueue begins.
HandOver ==
    /\ batch > 0
    /\ Deliver
    /\ Pool!DispatchSnapshot(conn)

\* ... and returns.
HandedOver == Pool!DispatchSend(conn) /\ UNCHANGED vars

ConnOther ==
    /\ \/ \E p \in Stoppers : StopNext(p)
       \/ \E p \in Stoppers \ Pool!Workers : StopCall(p)
       \/ \E m \in Senders : SendNext(m)
       \/ OnceNext \/ WriterNext
    /\ UNCHANGED pool

\* A new request: the SendMsg of the previous handler is over.
WorkerTake(w) ==
    /\ Pool!WorkerTake(w)
    /\ SendGoto(w, "idle")
    /\ UNCHANGED <<lifeVars, reader, writer, beat, ioVars>>

\* Worker w is in a handler, outside of Stop and SendMsg.
InHandler(w) ==
    worker[w] = "exec" /\ stop[w] \in {"idle", "returned"} /\ send[w] # "select"

\* The handler calls SendMsg, at most once for each request, or Stop, once, and
\* Execute returns when the handler does.
HandlerStop(w) ==
    /\ InHandler(w)
    /\ StopCall(w)
    /\ UNCHANGED pool

HandlerSend(w) ==
    /\ InHandler(w)
    /\ SendEnter(w)
    /\ UNCHANGED pool

HandlerReturns(w) ==
    /\ InHandler(w)
    /\ Pool!ExecuteEnd(w)
    /\ UNCHANGED vars

DispatchNext ==
    \/ PoolStart
    \/ \E s \in Starters : ConnStart(s)
    \/ Read \/ ReaderOther \/ HandOver \/ HandedOver \/ ConnOther
    \/ \E w \in Pool!Workers :
           WorkerTake(w) \/ HandlerStop(w) \/ HandlerSend(w) \/ HandlerReturns(w)

DispatchSpec == DispatchInit /\ [][DispatchNext]_allVars

\* The fairness of the two components: goroutines that can run do run, and a
\* handler that is not in Stop or SendMsg returns.
DispatchFairness ==
    /\ \A s \in Starters : WF_allVars(ConnStart(s) /\ StartNext(s))
    /\ \A p \in Stoppers : WF_allVars(StopNext(p) /\ UNCHANGED pool)
    /\ \A m \in Senders : WF_allVars(SendNext(m) /\ UNCHANGED pool)
    /\ WF_allVars(OnceNext /\ UNCHANGED pool)
    /\ WF_allVars(ReaderOther /\ (sock = "closed" \/ reader # "read"))
    /\ WF_allVars(HandOver) /\ WF_allVars(HandedOver)
    /\ WF_allVars(WriterNext /\ UNCHANGED pool)
    /\ SF_allVars(WriterDone /\ UNCHANGED pool)
    /\ \A w \in Pool!Workers :
           WF_allVars(WorkerTake(w)) /\ WF_allVars(HandlerReturns(w))

FairDispatchSpec == DispatchSpec /\ DispatchFairness

-----------------------------------------------------------------------------
(* Properties                                                              *)

\* Once a Stop has returned, to whatever goroutine, the connection hands no
\* further request to the pool, and none is on its way: what a handler may
\* still see of the connection is already queued.
QuietAfterStop ==
    [][(\E p \in Stoppers : stop[p] = "returned")
          => ~Dispatching /\ UNCHANGED <<sent, pooled>>]_allVars

\* Frames keep their order from the socket to the handlers: the frames whose
\* handlers have begun are the first ones the reader handed over.
FramesInOrder ==
    \A n \in began[conn] : \A m \in 1..n : m \in began[conn]

\* A handler's Stop on its own connection returns, unless the reader has filled
\* the queue of the handler's worker and waits for room: nothing else that the
\* reader, the writer or another Stop does can hold it up.
HandlerStopsOrBlocks ==
    \A w \in Pool!Workers :
        (stop[w] = "once")
            ~> \/ stop[w] = "returned"
               \/ Dispatching /\ ~Pool!HasRoom(w)
               \/ HookStuck

-----------------------------------------------------------------------------
(* The inductive invariant behind QuietAfterStop and FramesInOrder.        *)

\* The reader only is inside SendMsgToTaskQueue while it delivers a batch.
HandOverInv == Dispatching => reader = "deliver"

\* A started pool stays active, so every frame is put into a task queue: the
\* frames queued are the ones handed over, but for the one on its way.
FramesInv ==
    /\ workerCtx # "nil" => workerCancel = "set"
    /\ pooled[conn] = 1..(IF Dispatching THEN sent[conn] - 1 ELSE sent[conn])

DispatchInv == IInv /\ Pool!IInv /\ HandOverInv /\ FramesInv
=============================================================================
