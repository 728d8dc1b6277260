----------------------------- MODULE Connection -----------------------------
(***************************************************************************)
(* The life cycle of one connection (knet/connection.go) with the          *)
(* heartbeat checker it owns (knet/heartbeat.go).                          *)
(*                                                                         *)
(* Goroutines: the callers of Start, Stop and SendMsg, the reader, the     *)
(* writer and the heartbeat loop.  Each has a program counter; a step is   *)
(* what a goroutine does between two points at which another goroutine     *)
(* can observe it.  The body of closeOnce.Do runs in whichever goroutine   *)
(* enters it first, and every other caller blocks until it is finished, so *)
(* it has a program counter of its own, cleanup.                           *)
(*                                                                         *)
(* Handing a request to the dispatcher always ends here; ConnDispatch      *)
(* composes the reader with the worker pool, where it may block.           *)
(***************************************************************************)
EXTENDS Naturals, Sequences

CONSTANTS
    Starters,      \* goroutines that call Start
    Stoppers,      \* goroutines that call Stop
    Senders,       \* goroutines that call SendMsg, each with one message
    Beat,          \* the heartbeat message
    QueueSize,     \* cfg.WriteQueueSize, the capacity of msgChan
    WriteTimeout,  \* cfg.WriteTimeout; 0 disables the timer of SendMsg
    MaxBatch       \* bound: complete frames that one Read may decode to

ASSUME ConnectionAssumption ==
    /\ QueueSize \in Nat \ {0}
    /\ WriteTimeout \in Nat
    /\ MaxBatch \in Nat \ {0}
    /\ "free" \notin Starters
    /\ Beat \notin Senders

VARIABLES
    state,       \* c.state
    started,     \* c.started: no, yes
    cleanup,     \* progress of the body of closeOnce
    hb,          \* c.hb: nil, or the clone of the template
    hbMu,        \* the goroutine that holds c.hbMu in Start, or "free"
    hbTaken,     \* the local hb of stopOnce
    checker,     \* the cloned HeartBeatChecker: new, started, stopped (quit closed)
    sock,        \* c.conn: open, closed
    done,        \* c.done: open, closed
    registered,  \* the ConnManager holds the connection: no, yes
    activity,    \* lastActivity against the heartbeat timeout: fresh, stale
    batch,       \* decoded frames the reader has not handed over yet
    msgChan,     \* c.msgChan
    inflight,    \* the message the writer took, until the socket accepted it
    start,       \* program counters of the callers of Start,
    stop,        \*   of Stop,
    send,        \*   of SendMsg (and its result),
    reader,      \*   of the reader,
    writer,      \*   of the writer
    beat,        \*   and of the heartbeat loop
    accepted,    \* history: senders whose SendMsg queued, in order
    written      \* history: senders whose message the socket accepted, in order

vars == <<state, started, cleanup, hb, hbMu, hbTaken, checker, sock, done,
          registered, activity, batch, msgChan, inflight, start, stop, send,
          reader, writer, beat, accepted, written>>

\* The heartbeat message competes with the senders' messages for msgChan.
Message == Senders \cup {Beat}

StartPC  == {"idle", "bind", "check", "beat", "drop", "mark", "spawn",
             "hook", "once", "wait", "returned"}
StopPC   == {"idle", "once", "wait", "returned"}
SendPC   == {"idle", "select", "nil", "ErrConnClosed", "ErrTimeout"}
ReaderPC == {"none", "read", "deliver", "once", "end"}
WriterPC == {"none", "select", "write", "once", "end"}
BeatPC   == {"none", "select", "send", "once", "wait", "end"}
Cleanup  == {"new", "hook", "stuck", "takeHb", "stopHb", "closeSock", "closeDone",
             "remove", "done"}

Init ==
    /\ state = "created"
    /\ started = "no"
    /\ cleanup = "new"
    /\ hb = "nil"
    /\ hbMu = "free"
    /\ hbTaken = "nil"
    /\ checker = "new"
    /\ sock = "open"
    /\ done = "open"
    /\ registered = "yes"
    /\ activity = "fresh"
    /\ batch = 0
    /\ msgChan = <<>>
    /\ inflight = <<>>
    /\ start = [s \in Starters |-> "idle"]
    /\ stop = [p \in Stoppers |-> "idle"]
    /\ send = [m \in Senders |-> "idle"]
    /\ reader = "none"
    /\ writer = "none"
    /\ beat = "none"
    /\ accepted = <<>>
    /\ written = <<>>

-----------------------------------------------------------------------------
(* Start                                                                   *)

cleanupVars == <<cleanup, hbTaken, sock, done, registered>>
ioVars == <<activity, batch, msgChan, inflight, accepted, written>>

StartGoto(s, l) == start' = [start EXCEPT ![s] = l]

\* The compare-and-swap from created to running; everybody else returns.
StartCAS(s) ==
    /\ start[s] = "idle"
    /\ \/ /\ state = "created"
          /\ state' = "running"
          /\ StartGoto(s, "bind")
       \/ /\ state # "created"
          /\ StartGoto(s, "returned")
          /\ UNCHANGED state
    /\ UNCHANGED <<started, hb, hbMu, checker, stop, send, reader, writer, beat,
                   cleanupVars, ioVars>>

\* GetHeartBeat returns a template, or nil; BindConn stores the clone in c.hb.
StartBind(s) ==
    /\ start[s] = "bind"
    /\ \/ /\ hbMu = "free"
          /\ hb' = "clone"
          /\ StartGoto(s, "check")
       \/ /\ StartGoto(s, "mark")
          /\ UNCHANGED hb
    /\ UNCHANGED <<state, started, hbMu, checker, stop, send, reader, writer,
                   beat, cleanupVars, ioVars>>

\* Mutant: Start does not look at the state again before hb.Start.
MayBeatUnchecked == TRUE

\* Only a connection that is still running gets its heartbeat started.
MayBeat == state = "running"

StartCheck(s) ==
    /\ start[s] = "check"
    /\ hbMu = "free"
    /\ hbMu' = s
    /\ StartGoto(s, IF MayBeat THEN "beat" ELSE "drop")
    /\ UNCHANGED <<state, started, hb, checker, stop, send, reader, writer, beat,
                   cleanupVars, ioVars>>

\* hb.Start launches the heartbeat loop.
StartBeat(s) ==
    /\ start[s] = "beat"
    /\ checker' = "started"
    /\ beat' = "select"
    /\ hbMu' = "free"
    /\ StartGoto(s, "mark")
    /\ UNCHANGED <<state, started, hb, stop, send, reader, writer,
                   cleanupVars, ioVars>>

\* Stop was faster: the clone is dropped without ever running.
StartDrop(s) ==
    /\ start[s] = "drop"
    /\ hb' = "nil"
    /\ hbMu' = "free"
    /\ StartGoto(s, "mark")
    /\ UNCHANGED <<state, started, checker, stop, send, reader, writer, beat,
                   cleanupVars, ioVars>>

StartMark(s) ==
    /\ start[s] = "mark"
    /\ started' = "yes"
    /\ StartGoto(s, "spawn")
    /\ UNCHANGED <<state, hb, hbMu, checker, stop, send, reader, writer, beat,
                   cleanupVars, ioVars>>

StartSpawn(s) ==
    /\ start[s] = "spawn"
    /\ reader' = "read"
    /\ writer' = "select"
    /\ StartGoto(s, "hook")
    /\ UNCHANGED <<state, started, hb, hbMu, checker, stop, send, beat,
                   cleanupVars, ioVars>>

\* CallOnConnStart: the user's hook returns, or closes the connection.
StartHook(s) ==
    /\ start[s] = "hook"
    /\ \E l \in {"returned", "once"} : StartGoto(s, l)
    /\ UNCHANGED <<state, started, hb, hbMu, checker, stop, send, reader, writer,
                   beat, cleanupVars, ioVars>>

-----------------------------------------------------------------------------
(* stopOnce and Stop                                                       *)

callers == <<start, stop, send, reader, writer, beat>>

\* Some goroutine is at closeOnce.Do.
OnceCalled ==
    \/ \E s \in Starters : start[s] = "once"
    \/ \E p \in Stoppers : stop[p] = "once"
    \/ "once" \in {reader, writer, beat}

OnceEnter ==
    /\ cleanup = "new"
    /\ OnceCalled
    /\ state' = "closed"
    /\ cleanup' = "hook"
    /\ UNCHANGED <<started, hb, hbMu, hbTaken, checker, sock, done, registered,
                   callers, ioVars>>

\* CallOnConnStop: the user's hook returns, or calls Stop itself and waits for
\* the closeOnce.Do it runs in.
OnceHook ==
    /\ cleanup = "hook"
    /\ cleanup' \in {"takeHb", "stuck"}
    /\ UNCHANGED <<state, started, hb, hbMu, hbTaken, checker, sock, done,
                   registered, callers, ioVars>>

\* c.hbMu can be taken.
HbMuFree == hbMu = "free"

OnceTakeHb ==
    /\ cleanup = "takeHb"
    /\ HbMuFree
    /\ hbTaken' = hb
    /\ hb' = "nil"
    /\ cleanup' = "stopHb"
    /\ UNCHANGED <<state, started, hbMu, checker, sock, done, registered,
                   callers, ioVars>>

\* hb.Stop closes quit, and does nothing to a checker that is not started.
OnceStopHb ==
    /\ cleanup = "stopHb"
    /\ checker' = IF hbTaken = "clone" /\ checker = "started" THEN "stopped" ELSE checker
    /\ cleanup' = "closeSock"
    /\ UNCHANGED <<state, started, hb, hbMu, hbTaken, sock, done, registered,
                   callers, ioVars>>

\* Mutant: the socket stays open, so nothing wakes the reader.
OnceCloseSockForgotten ==
    /\ cleanup = "closeSock"
    /\ cleanup' = "closeDone"
    /\ UNCHANGED <<state, started, hb, hbMu, hbTaken, checker, sock, done,
                   registered, callers, ioVars>>

OnceCloseSock ==
    /\ cleanup = "closeSock"
    /\ sock' = "closed"
    /\ cleanup' = "closeDone"
    /\ UNCHANGED <<state, started, hb, hbMu, hbTaken, checker, done, registered,
                   callers, ioVars>>

\* Mutant: stopOnce does not close done.
OnceCloseDoneForgotten ==
    /\ cleanup = "closeDone"
    /\ cleanup' = "remove"
    /\ UNCHANGED <<state, started, hb, hbMu, hbTaken, checker, sock, done,
                   registered, callers, ioVars>>

OnceCloseDone ==
    /\ cleanup = "closeDone"
    /\ done' = "closed"
    /\ cleanup' = "remove"
    /\ UNCHANGED <<state, started, hb, hbMu, hbTaken, checker, sock, registered,
                   callers, ioVars>>

OnceRemove ==
    /\ cleanup = "remove"
    /\ registered' = "no"
    /\ cleanup' = "done"
    /\ UNCHANGED <<state, started, hb, hbMu, hbTaken, checker, sock, done,
                   callers, ioVars>>

\* Mutant: a flag instead of sync.Once lets the second caller through at once.
OnceReturnsEarly == cleanup # "new"

\* closeOnce.Do returns to nobody before the body has run to its end.
OnceReturns == cleanup = "done"

\* Mutant: Stop waits for goroutines that Start may never have launched.
WaitedAlways == reader = "end" /\ writer = "end"

\* Mutant: only the writer is counted in the wait group.
WaitedWriter == started = "yes" => writer = "end"

\* wg.Wait, which Stop only calls when it finds started set.
Waited == started = "yes" => reader = "end" /\ writer = "end"

StopCall(p) ==
    /\ stop[p] = "idle"
    /\ stop' = [stop EXCEPT ![p] = "once"]
    /\ UNCHANGED <<state, hb, hbMu, checker, start, started, send, reader,
                   writer, beat, cleanupVars, ioVars>>

StopOnceReturns(p) ==
    /\ stop[p] = "once"
    /\ OnceReturns
    /\ stop' = [stop EXCEPT ![p] = "wait"]
    /\ UNCHANGED <<state, hb, hbMu, checker, start, started, send, reader,
                   writer, beat, cleanupVars, ioVars>>

StopWait(p) ==
    /\ stop[p] = "wait"
    /\ Waited
    /\ stop' = [stop EXCEPT ![p] = "returned"]
    /\ UNCHANGED <<state, hb, hbMu, checker, start, started, send, reader,
                   writer, beat, cleanupVars, ioVars>>

\* The Stop that the OnConnStart hook calls.
HookStop(s) ==
    /\ \/ start[s] = "once" /\ OnceReturns /\ StartGoto(s, "wait")
       \/ start[s] = "wait" /\ Waited /\ StartGoto(s, "returned")
    /\ UNCHANGED <<state, started, hb, hbMu, checker, stop, send, reader, writer,
                   beat, cleanupVars, ioVars>>

-----------------------------------------------------------------------------
(* The reader                                                              *)

lifeVars == <<state, started, hb, hbMu, checker, start, stop, cleanupVars>>

\* Read returns data: n frames are complete, or the decoder rejects a frame
\* and everything it decoded from this chunk is dropped.
ReadData ==
    /\ reader = "read"
    /\ sock = "open"
    /\ activity' = "fresh"
    /\ \/ /\ \E n \in 0..MaxBatch : batch' = n
          /\ reader' = "deliver"
       \/ /\ reader' = "once"
          /\ UNCHANGED batch
    /\ UNCHANGED <<lifeVars, send, writer, beat, msgChan, inflight, accepted,
                   written>>

\* Read fails: the peer is gone, or the socket has been closed.
ReadError ==
    /\ reader = "read"
    /\ reader' = "once"
    /\ UNCHANGED <<lifeVars, send, writer, beat, ioVars>>

\* SendMsgToTaskQueue, one frame after the other.  Every hand-over ends here,
\* the premise of StopReturns and TornDown; in ConnDispatch it may wait forever.
Deliver ==
    /\ reader = "deliver"
    /\ \/ /\ batch > 0
          /\ batch' = batch - 1
          /\ UNCHANGED reader
       \/ /\ batch = 0
          /\ reader' = "read"
          /\ UNCHANGED batch
    /\ UNCHANGED <<lifeVars, send, writer, beat, activity, msgChan, inflight,
                   accepted, written>>

ReaderExit ==
    /\ reader = "once"
    /\ OnceReturns
    /\ reader' = "end"
    /\ UNCHANGED <<lifeVars, send, writer, beat, ioVars>>

-----------------------------------------------------------------------------
(* The writer                                                              *)

\* select takes a message, or sees done.
WriterTake ==
    /\ writer = "select"
    /\ msgChan # <<>>
    /\ inflight' = <<Head(msgChan)>>
    /\ msgChan' = Tail(msgChan)
    /\ writer' = "write"
    /\ UNCHANGED <<lifeVars, send, reader, beat, activity, batch, accepted, written>>

WriterDone ==
    /\ writer = "select"
    /\ done = "closed"
    /\ writer' = "end"
    /\ UNCHANGED <<lifeVars, send, reader, beat, ioVars>>

\* The deadline is now + WriteTimeout, already over when WriteTimeout is 0.
WriteOk ==
    /\ writer = "write"
    /\ sock = "open"
    /\ WriteTimeout > 0
    /\ written' = IF Head(inflight) = Beat THEN written
                  ELSE Append(written, Head(inflight))
    /\ inflight' = <<>>
    /\ writer' = "select"
    /\ UNCHANGED <<lifeVars, send, reader, beat, activity, batch, msgChan, accepted>>

\* Mutant: after a failed write the writer goes on with the next message.
WriteErrorSkips ==
    /\ writer = "write"
    /\ inflight' = <<>>
    /\ writer' = "select"
    /\ UNCHANGED <<lifeVars, send, reader, beat, activity, batch, msgChan, accepted,
                   written>>

\* Mutant: the writer queues the message of a failed write again.
WriteErrorRequeues ==
    /\ writer = "write"
    /\ Len(msgChan) < QueueSize
    /\ msgChan' = Append(msgChan, Head(inflight))
    /\ inflight' = <<>>
    /\ writer' = "select"
    /\ UNCHANGED <<lifeVars, send, reader, beat, activity, batch, accepted, written>>

WriteError ==
    /\ writer = "write"
    /\ writer' = "once"
    /\ UNCHANGED <<lifeVars, send, reader, beat, ioVars>>

WriterExit ==
    /\ writer = "once"
    /\ OnceReturns
    /\ writer' = "end"
    /\ UNCHANGED <<lifeVars, send, reader, beat, ioVars>>

-----------------------------------------------------------------------------
(* SendMsg                                                                 *)

SendGoto(m, l) == send' = [send EXCEPT ![m] = l]

SendEnter(m) ==
    /\ send[m] = "idle"
    /\ SendGoto(m, IF state = "running" THEN "select" ELSE "ErrConnClosed")
    /\ UNCHANGED <<lifeVars, reader, writer, beat, ioVars>>

\* Mutant: off by one in the capacity of the queue.
HasRoomPlusOne == Len(msgChan) <= QueueSize

HasRoom == Len(msgChan) < QueueSize

\* The select of SendMsg: every ready case may be chosen.
SendQueue(m) ==
    /\ send[m] = "select"
    /\ HasRoom
    /\ msgChan' = Append(msgChan, m)
    /\ accepted' = Append(accepted, m)
    /\ SendGoto(m, "nil")
    /\ UNCHANGED <<lifeVars, reader, writer, beat, activity, batch, inflight, written>>

SendClosed(m) ==
    /\ send[m] = "select"
    /\ done = "closed"
    /\ SendGoto(m, "ErrConnClosed")
    /\ UNCHANGED <<lifeVars, reader, writer, beat, ioVars>>

SendTimeout(m) ==
    /\ send[m] = "select"
    /\ WriteTimeout > 0
    /\ SendGoto(m, "ErrTimeout")
    /\ UNCHANGED <<lifeVars, reader, writer, beat, ioVars>>

-----------------------------------------------------------------------------
(* The heartbeat loop                                                      *)

\* Nothing is received for longer than the heartbeat timeout.
Silence ==
    /\ activity = "fresh"
    /\ activity' = "stale"
    /\ UNCHANGED <<lifeVars, send, reader, writer, beat, batch, msgChan,
                   inflight, accepted, written>>

\* Mutant: the liveness test never fails.
IsAliveAlways == TRUE

IsAlive == activity = "fresh"

\* A tick: a dead peer is disconnected with Stop, a live one is sent a
\* heartbeat with SendMsg, which returns at once when not running.
BeatTick ==
    /\ beat = "select"
    /\ \/ ~IsAlive /\ beat' = "once"
       \/ IsAlive /\ state = "running" /\ beat' = "send"
       \/ IsAlive /\ state # "running" /\ UNCHANGED beat
    /\ UNCHANGED <<lifeVars, send, reader, writer, ioVars>>

BeatSend ==
    /\ beat = "send"
    /\ \/ /\ HasRoom
          /\ msgChan' = Append(msgChan, Beat)
       \/ /\ done = "closed" \/ WriteTimeout > 0
          /\ UNCHANGED msgChan
    /\ beat' = "select"
    /\ UNCHANGED <<lifeVars, send, reader, writer, activity, batch, inflight,
                   accepted, written>>

BeatStop ==
    /\ \/ beat = "once" /\ OnceReturns /\ beat' = "wait"
       \/ beat = "wait" /\ Waited /\ beat' = "select"
    /\ UNCHANGED <<lifeVars, send, reader, writer, ioVars>>

BeatQuit ==
    /\ beat = "select"
    /\ checker = "stopped"
    /\ beat' = "end"
    /\ UNCHANGED <<lifeVars, send, reader, writer, ioVars>>

-----------------------------------------------------------------------------
(* The specification                                                       *)

StartNext(s) ==
    \/ StartBind(s) \/ StartCheck(s) \/ StartBeat(s) \/ StartDrop(s)
    \/ StartMark(s) \/ StartSpawn(s) \/ StartHook(s) \/ HookStop(s)

OnceNext ==
    \/ OnceEnter \/ OnceHook \/ OnceTakeHb \/ OnceStopHb \/ OnceCloseSock
    \/ OnceCloseDone \/ OnceRemove

StopNext(p) == StopOnceReturns(p) \/ StopWait(p)

SendNext(m) == SendQueue(m) \/ SendClosed(m) \/ SendTimeout(m)

ReaderNext == ReadData \/ ReadError \/ Deliver \/ ReaderExit

WriterNext == WriterTake \/ WriterDone \/ WriteOk \/ WriteError \/ WriterExit

BeatNext == BeatTick \/ BeatSend \/ BeatStop \/ BeatQuit

Next ==
    \/ \E s \in Starters : StartCAS(s) \/ StartNext(s)
    \/ \E p \in Stoppers : StopCall(p) \/ StopNext(p)
    \/ \E m \in Senders : SendEnter(m) \/ SendNext(m)
    \/ OnceNext \/ ReaderNext \/ WriterNext \/ BeatNext \/ Silence

Spec == Init /\ [][Next]_vars

\* Goroutines that can run do run.  Nobody has to call Start, Stop or SendMsg,
\* and Read need not return while the socket is open.  select is random, so
\* the loops of the writer and of the heartbeat cannot miss done and quit
\* forever: strong fairness.
Fairness ==
    /\ \A s \in Starters : WF_vars(StartNext(s))
    /\ \A p \in Stoppers : WF_vars(StopNext(p))
    /\ \A m \in Senders : WF_vars(SendNext(m))
    /\ WF_vars(OnceNext)
    /\ WF_vars(ReadError /\ sock = "closed") /\ WF_vars(Deliver) /\ WF_vars(ReaderExit)
    /\ WF_vars(WriterNext) /\ SF_vars(WriterDone)
    /\ WF_vars(BeatTick) /\ WF_vars(BeatSend \/ BeatStop) /\ SF_vars(BeatQuit)

FairSpec == Spec /\ Fairness

-----------------------------------------------------------------------------
(* Properties                                                              *)

\* Type correctness: every field of Connection stays in its range and msgChan
\* never holds more than WriteQueueSize messages.
TypeOK ==
    /\ state \in {"created", "running", "closed"}
    /\ started \in {"no", "yes"}
    /\ cleanup \in Cleanup
    /\ hb \in {"nil", "clone"}
    /\ hbMu \in Starters \cup {"free"}
    /\ hbTaken \in {"nil", "clone"}
    /\ checker \in {"new", "started", "stopped"}
    /\ sock \in {"open", "closed"}
    /\ done \in {"open", "closed"}
    /\ registered \in {"no", "yes"}
    /\ activity \in {"fresh", "stale"}
    /\ batch \in 0..MaxBatch
    /\ msgChan \in Seq(Message) /\ Len(msgChan) <= QueueSize
    /\ inflight \in Seq(Message) /\ Len(inflight) <= 1
    /\ writer = "write" => inflight # <<>>
    /\ start \in [Starters -> StartPC]
    /\ stop \in [Stoppers -> StopPC]
    /\ send \in [Senders -> SendPC]
    /\ reader \in ReaderPC /\ writer \in WriterPC /\ beat \in BeatPC
    /\ accepted \in Seq(Senders) /\ written \in Seq(Senders)

\* The cleanup is past hb.Stop: nobody will stop the heartbeat any more.
HbHandled == cleanup \in {"closeSock", "closeDone", "remove", "done"}

\* However Start and Stop interleave, the heartbeat goroutine cannot outlive
\* the connection: once stopOnce is past hb.Stop the checker is not running
\* and can no longer be started (the hazard the comment in Start describes).
NoHeartbeatLeak == HbHandled => checker # "started"

\* A finished Start on a closed connection leaves no reference to a heartbeat
\* checker behind: either stopOnce took it out of c.hb, or Start dropped it.
NoStaleChecker ==
    cleanup = "done" /\ (\A s \in Starters : start[s] \in {"idle", "returned"})
        => hb = "nil"

\* When a Stop has returned the connection is quiet for good: the socket is
\* closed, done is closed, the ConnManager has forgotten it, and the reader
\* holds no frame it could still hand to a handler, even if Start goes on to
\* launch the goroutines of the closed connection.
StopIsFinal ==
    (\E p \in Stoppers : stop[p] = "returned")
        => /\ sock = "closed" /\ done = "closed" /\ registered = "no"
           /\ reader # "deliver" /\ batch = 0

-----------------------------------------------------------------------------
(* The inductive invariant behind NoHeartbeatLeak, NoStaleChecker and      *)
(* StopIsFinal.                                                            *)

\* closeOnce and the state agree; what a stage of the cleanup has done stays
\* done; and nobody is past closeOnce.Do before the cleanup is over.
CleanupInv ==
    /\ cleanup = "new" <=> state # "closed"
    /\ cleanup \in {"closeDone", "remove", "done"} => sock = "closed"
    /\ cleanup \in {"remove", "done"} => done = "closed"
    /\ cleanup = "done" => registered = "no"
    /\ \A p \in Stoppers : stop[p] \in {"wait", "returned"} => cleanup = "done"

\* The labels of Start between the compare-and-swap and the goroutines, and
\* the ones at which the clone of the template is still to be started.
Launching == {"bind", "check", "beat", "drop", "mark", "spawn"}
Cloning == {"bind", "check", "beat", "drop"}

\* One Start wins the compare-and-swap, and hbMu is held exactly while the
\* winner decides about the heartbeat.
StartInv ==
    /\ state = "created" => started = "no"
    /\ \A s \in Starters :
           start[s] \in Launching => state # "created" /\ reader = "none"
    /\ \A s, t \in Starters :
           start[s] \in Launching /\ start[t] \in Launching => s = t
    /\ \A s \in Starters : start[s] \in {"beat", "drop"} <=> hbMu = s
    /\ \A s \in Starters : start[s] = "spawn" => started = "yes"
    /\ started = "no" => reader = "none"

\* The stages of the cleanup before stopOnce takes the checker.
BeforeTake == {"new", "hook", "stuck", "takeHb"}

\* Until stopOnce takes the checker out of c.hb, a checker that runs, or is
\* about to, is there for it to find.
BeatInv ==
    /\ state = "created" => checker = "new"
    /\ \A s \in Starters : start[s] \in Cloning => checker = "new"
    /\ \A s \in Starters :
           start[s] = "beat" => hb = "clone" /\ cleanup \in BeforeTake
    /\ \A s \in Starters :
           start[s] = "check" /\ cleanup \in BeforeTake => hb = "clone"
    /\ checker = "started" /\ cleanup \in BeforeTake => hb = "clone"
    /\ checker = "started" /\ cleanup = "stopHb" => hbTaken = "clone"
    /\ NoHeartbeatLeak
    /\ hb = "clone" /\ cleanup \in {"stopHb", "closeSock", "closeDone", "remove", "done"}
           => \E s \in Starters : start[s] \in {"check", "drop"}

\* Frames are only pending between a Read and the last hand-over, and none is
\* pending after a Stop.
QuietInv ==
    /\ reader # "deliver" => batch = 0
    /\ (\E p \in Stoppers : stop[p] = "returned") => reader # "deliver"

IInv == TypeOK /\ CleanupInv /\ StartInv /\ BeatInv /\ QuietInv

\* The messages of the senders, without the heartbeats in between.
OfSenders(msgs) ==
    LET of[i \in 0..Len(msgs)] ==
            IF i = 0 THEN <<>>
            ELSE IF msgs[i] = Beat THEN of[i - 1] ELSE Append(of[i - 1], msgs[i])
    IN  of[Len(msgs)]

\* Messages reach the socket in the order in which the concurrent SendMsg calls
\* were accepted, and none is dropped, duplicated or overtaken on the way, with
\* heartbeats in between or not: what is accepted and not on the wire is what
\* the writer holds followed by the queue.  A connection that closes abandons
\* exactly that rest; AcceptedWritten says that nothing else does.
WireOrder == accepted = written \o OfSenders(inflight) \o OfSenders(msgChan)

\* What makes WireOrder inductive: the writer is launched once, and has nothing
\* in flight when it takes the next message.
WireInv ==
    /\ WireOrder
    /\ writer \in {"none", "select"} => inflight = <<>>
    /\ state = "created" => writer = "none"
    /\ \A s \in Starters : start[s] \in Launching => writer = "none"

\* The OnConnStop hook has called Stop inside closeOnce.Do, which waits for
\* itself.
HookStuck == cleanup = "stuck"

\* As long as handing a request to the dispatcher ends, Stop returns, whoever
\* runs the cleanup and whatever Start is doing; then the one thing that holds
\* it up is an OnConnStop hook that calls Stop.  The premise is Deliver's: a
\* reader that waits for a task queue with room (msgHandler.go, line 179) also
\* holds up the wg.Wait of Stop, which is HandlerStopsOrBlocks of ConnDispatch.
StopReturns ==
    \A p \in Stoppers : (stop[p] = "once") ~> (stop[p] = "returned" \/ HookStuck)

\* A SendMsg that waits for room in msgChan returns, even with WriteTimeout 0,
\* where it has no timer of its own: the writer makes room, or its failed write
\* closes done.
SendReturns ==
    \A m \in Senders : (send[m] = "select") ~> (send[m] # "select" \/ HookStuck)

\* A message for which SendMsg returned nil is written to the socket, unless the
\* connection closes: there is no other way to lose an accepted message.
AcceptedWritten ==
    \A m \in Senders :
        (send[m] = "nil") ~> (state = "closed" \/ \E i \in DOMAIN written : written[i] = m)

\* A closed connection ends up with no goroutine at all: reader, writer and
\* heartbeat loop are gone for good, even when Stop overtakes Start, unless the
\* OnConnStop hook calls Stop.  Like StopReturns, this is under the premise that
\* handing a request over ends: a reader on a full task queue stays, and so does
\* a heartbeat loop whose own Stop waits for that reader.
TornDown ==
    (state = "closed") ~> [](\/ HookStuck
                             \/ /\ reader \in {"none", "end"}
                                /\ writer \in {"none", "end"}
                                /\ beat \in {"none", "end"})

\* While the heartbeat runs, a peer that stays silent is disconnected.
DeadPeerClosed ==
    (checker = "started" /\ activity # "fresh")
        ~> (activity = "fresh" \/ state = "closed")
=============================================================================
