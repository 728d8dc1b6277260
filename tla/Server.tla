------------------------------- MODULE Server -------------------------------
(***************************************************************************)
(* The server of knet/server.go with its ConnManager (knet/connmanager.go):*)
(* Run binds the listener and accepts until its ctx is done, Shutdown      *)
(* closes the listener, stops every connection the manager knows and stops *)
(* the worker pool; the accept loop goes on meanwhile.                     *)
(*                                                                         *)
(* A connection is reduced to what the server sees of it: live, closing    *)
(* (stopOnce is past the metrics), closed (removed from the manager and    *)
(* quiet), or one whose Stop never returns: stuck in its OnConnStop hook,  *)
(* or blocked at wg.Wait.  Module Connection has the rest.  Only one       *)
(* Shutdown gets past the closed flag, so its locals are variables here.   *)
(***************************************************************************)
EXTENDS Integers, FiniteSets

CONSTANTS
    Clients,    \* peers that connect, once each
    MaxConn,    \* cfg.MaxConn; 0 is unlimited
    Runners,    \* goroutines that call Run
    Shutters,   \* goroutines that call Shutdown
    Attachers   \* goroutines that call AttachMetrics

ASSUME ServerAssumption ==
    /\ MaxConn \in Nat
    /\ Runners \cap Shutters = {}

VARIABLES
    started,          \* s.started: no, yes
    closed,           \* s.closed: no, yes
    listener,         \* s.listener: nil, set
    lsock,            \* the listening socket: none, open, closed
    run,              \* program counters of the callers of Run
    ctxDone,          \* Run's ctx: no, yes
    shut,             \* program counters of the callers of Shutdown
    lnTaken,          \* Shutdown's local ln: nil, set
    metricsTaken,     \* Shutdown's local metricsLn, as a set
    drain,            \* program counter of the goroutine in ClearConn
    toStop,           \* ClearConn: connections still to be stopped
    stopping,         \* ClearConn: the connection in Stop, as a set
    late,             \* history: in handleConn and not added when ClearConn began
    acceptor,         \* program counter of acceptLoop
    handling,         \* the connection in handleConn, as a set
    conn,             \* phase of each peer's connection
    connMgr,          \* connections in the ConnManager
    pool,             \* the worker pool: none, started, stopped
    connsTotal, connsActive, connsClosed, connsRejected,   \* the metrics
    attach,           \* program counters of the callers of AttachMetrics
    metricsListener,  \* s.metricsListener, as a set
    metricsOpen       \* metrics listeners that are open

runVars   == <<started, run, ctxDone>>
shutVars  == <<closed, shut, lnTaken, metricsTaken>>
drainVars == <<drain, toStop, stopping, late>>
acceptVars == <<acceptor, handling>>
metrics   == <<connsTotal, connsActive, connsClosed, connsRejected>>
attachVars == <<attach, metricsListener, metricsOpen>>

vars == <<runVars, listener, lsock, shutVars, drainVars, acceptVars, conn,
          connMgr, pool, metrics, attachVars>>

RunPC    == {"idle", "listen", "store", "pool", "serve", "shutdown",
             "acceptDone", "returned", "errListen"}
ShutPC   == {"idle", "close", "wait", "pool", "drained", "expired", "noop"}
DrainPC  == {"none", "snapshot", "stop", "done"}
AcceptPC == {"none", "accept", "add", "count", "reject", "end"}
AttachPC == {"idle", "bound", "attached", "refused"}
Phase    == {"away", "accepted", "live", "stuck", "closing", "closed", "blocked",
             "refused"}

Callers == Runners \cup Shutters

Init ==
    /\ started = "no" /\ closed = "no"
    /\ listener = "nil" /\ lsock = "none"
    /\ run = [r \in Runners |-> "idle"]
    /\ ctxDone = "no"
    /\ shut = [x \in Callers |-> "idle"]
    /\ lnTaken = "nil" /\ metricsTaken = {}
    /\ drain = "none" /\ toStop = {} /\ stopping = {} /\ late = {}
    /\ acceptor = "none" /\ handling = {}
    /\ conn = [c \in Clients |-> "away"]
    /\ connMgr = {}
    /\ pool = "none"
    /\ connsTotal = 0 /\ connsActive = 0 /\ connsClosed = 0 /\ connsRejected = 0
    /\ attach = [a \in Attachers |-> "idle"]
    /\ metricsListener = {} /\ metricsOpen = {}

-----------------------------------------------------------------------------
(* Run                                                                     *)

RunGoto(r, l) == run' = [run EXCEPT ![r] = l]

\* A server that has been started refuses a second Run, even after Shutdown.
RunEnter(r) ==
    /\ run[r] = "idle"
    /\ started = "no"
    /\ started' = "yes"
    /\ RunGoto(r, "listen")
    /\ UNCHANGED <<ctxDone, listener, lsock, shutVars, drainVars, acceptVars,
                   conn, connMgr, pool, metrics, attachVars>>

RunListen(r) ==
    /\ run[r] = "listen"
    /\ \/ lsock' = "open" /\ RunGoto(r, "store") /\ UNCHANGED started
       \/ started' = "no" /\ RunGoto(r, "errListen") /\ UNCHANGED lsock
    /\ UNCHANGED <<ctxDone, listener, shutVars, drainVars, acceptVars, conn,
                   connMgr, pool, metrics, attachVars>>

RunStore(r) ==
    /\ run[r] = "store"
    /\ listener' = "set"
    /\ RunGoto(r, "pool")
    /\ UNCHANGED <<started, ctxDone, lsock, shutVars, drainVars, acceptVars,
                   conn, connMgr, pool, metrics, attachVars>>

\* StartWorkerPool, and the goroutine of acceptLoop.
RunPool(r) ==
    /\ run[r] = "pool"
    /\ pool' = IF pool = "none" THEN "started" ELSE pool
    /\ acceptor' = "accept"
    /\ RunGoto(r, "serve")
    /\ UNCHANGED <<started, ctxDone, listener, lsock, shutVars, drainVars,
                   handling, conn, connMgr, metrics, attachVars>>

\* The application cancels Run's ctx.
Cancel ==
    /\ ctxDone = "no"
    /\ ctxDone' = "yes"
    /\ UNCHANGED <<started, run, listener, lsock, shutVars, drainVars, acceptVars,
                   conn, connMgr, pool, metrics, attachVars>>

RunCancelled(r) ==
    /\ run[r] = "serve"
    /\ ctxDone = "yes"
    /\ RunGoto(r, "shutdown")
    /\ UNCHANGED <<started, ctxDone, listener, lsock, shutVars, drainVars,
                   acceptVars, conn, connMgr, pool, metrics, attachVars>>

RunShutdown(r) ==
    /\ run[r] = "shutdown"
    /\ shut[r] \in {"drained", "expired", "noop"}
    /\ RunGoto(r, "acceptDone")
    /\ UNCHANGED <<started, ctxDone, listener, lsock, shutVars, drainVars,
                   acceptVars, conn, connMgr, pool, metrics, attachVars>>

RunReturn(r) ==
    /\ run[r] = "acceptDone"
    /\ acceptor = "end"
    /\ RunGoto(r, "returned")
    /\ UNCHANGED <<started, ctxDone, listener, lsock, shutVars, drainVars,
                   acceptVars, conn, connMgr, pool, metrics, attachVars>>

-----------------------------------------------------------------------------
(* Shutdown                                                                *)

ShutGoto(x, l) == shut' = [shut EXCEPT ![x] = l]

\* Only the first Shutdown goes on.
ShutEnter(x) ==
    /\ shut[x] = "idle"
    /\ x \in Runners => run[x] = "shutdown"
    /\ \/ /\ closed = "yes"
          /\ ShutGoto(x, "noop")
          /\ UNCHANGED <<closed, lnTaken, metricsTaken, metricsListener>>
       \/ /\ closed = "no"
          /\ closed' = "yes"
          /\ lnTaken' = listener
          /\ metricsTaken' = metricsListener
          /\ metricsListener' = {}
          /\ ShutGoto(x, "close")
    /\ UNCHANGED <<runVars, listener, lsock, drainVars, acceptVars, conn,
                   connMgr, pool, metrics, attach, metricsOpen>>

\* Closes the listeners and launches the goroutine that runs ClearConn.
ShutClose(x) ==
    /\ shut[x] = "close"
    /\ lsock' = IF lnTaken = "set" THEN "closed" ELSE lsock
    /\ metricsOpen' = metricsOpen \ metricsTaken
    /\ metricsTaken' = {}
    /\ drain' = "snapshot"
    /\ ShutGoto(x, "wait")
    /\ UNCHANGED <<runVars, listener, closed, lnTaken, toStop, stopping, late,
                   acceptVars, conn, connMgr, pool, metrics, attach, metricsListener>>

ShutDrained(x) ==
    /\ shut[x] = "wait"
    /\ drain = "done"
    /\ ShutGoto(x, "pool")
    /\ UNCHANGED <<runVars, listener, lsock, closed, lnTaken, metricsTaken,
                   drainVars, acceptVars, conn, connMgr, pool, metrics, attachVars>>

\* The caller's ctx is done first: the pool keeps running.
ShutExpired(x) ==
    /\ shut[x] = "wait"
    /\ ShutGoto(x, "expired")
    /\ UNCHANGED <<runVars, listener, lsock, closed, lnTaken, metricsTaken,
                   drainVars, acceptVars, conn, connMgr, pool, metrics, attachVars>>

ShutPool(x) ==
    /\ shut[x] = "pool"
    /\ pool' = IF pool = "started" THEN "stopped" ELSE pool
    /\ ShutGoto(x, "drained")
    /\ UNCHANGED <<runVars, listener, lsock, closed, lnTaken, metricsTaken,
                   drainVars, acceptVars, conn, connMgr, metrics, attachVars>>

-----------------------------------------------------------------------------
(* ClearConn, and the life of a connection as the server sees it           *)

connOther == <<runVars, listener, lsock, shutVars, acceptVars, pool, attachVars>>

\* The map is emptied under the lock; the connections are stopped outside it.
ClearSnapshot ==
    /\ drain = "snapshot"
    /\ toStop' = connMgr
    /\ late' = handling \ connMgr
    /\ connMgr' = {}
    /\ drain' = "stop"
    /\ UNCHANGED <<connOther, stopping, conn, metrics>>

\* conn.Stop() begins ...
ClearStop(c) ==
    /\ drain = "stop"
    /\ stopping = {} /\ c \in toStop
    /\ stopping' = {c}
    /\ toStop' = toStop \ {c}
    /\ UNCHANGED <<connOther, drain, late, conn, connMgr, metrics>>

\* Mutant: ClearConn does not wait for Stop to return.
StopReturnedEarly(c) == conn[c] # "live"

\* Stop returns to nobody before the connection has been cleaned up and its
\* goroutines have ended (wg.Wait).
StopReturned(c) == conn[c] = "closed"

\* ... and returns.
ClearStopped(c) ==
    /\ c \in stopping
    /\ StopReturned(c)
    /\ stopping' = {}
    /\ UNCHANGED <<connOther, drain, toStop, late, conn, connMgr, metrics>>

ClearDone ==
    /\ drain = "stop"
    /\ toStop = {} /\ stopping = {}
    /\ drain' = "done"
    /\ UNCHANGED <<connOther, toStop, stopping, late, conn, connMgr, metrics>>

\* stopOnce up to the metrics: ClearConn stops the connection, the application
\* does (it may look it up as soon as it is registered), or it ends by itself.
ConnClose(c) ==
    /\ conn[c] = "live"
    /\ conn' = [conn EXCEPT ![c] = "closing"]
    /\ connsActive' = connsActive - 1
    /\ connsClosed' = connsClosed + 1
    /\ UNCHANGED <<connOther, drainVars, connMgr, connsTotal, connsRejected>>

\* The OnConnStop hook calls Stop and waits for the closeOnce.Do it runs in:
\* neither uncounted nor removed, and no Stop of this connection returns.
ConnStuck(c) ==
    /\ conn[c] = "live"
    /\ conn' = [conn EXCEPT ![c] = "stuck"]
    /\ UNCHANGED <<connOther, drainVars, connMgr, metrics>>

\* Mutant: ClearConn stops the connections while it holds the manager's lock.
RemoveLocked(c) == drain # "stop" /\ connMgr' = connMgr \ {c}

\* ConnManager.Remove.
Remove(c) == connMgr' = connMgr \ {c}

\* The rest of stopOnce, and the end of the goroutines.
ConnClosed(c) ==
    /\ conn[c] = "closing"
    /\ conn' = [conn EXCEPT ![c] = "closed"]
    /\ Remove(c)
    /\ UNCHANGED <<connOther, drainVars, metrics>>

\* The rest of stopOnce, but the reader waits for room in a task queue, and so
\* does wg.Wait for the reader.
ConnBlocked(c) ==
    /\ conn[c] = "closing"
    /\ conn' = [conn EXCEPT ![c] = "blocked"]
    /\ Remove(c)
    /\ UNCHANGED <<connOther, drainVars, metrics>>

-----------------------------------------------------------------------------
(* acceptLoop, handleConn, rejectConn                                      *)

acceptOther == <<runVars, listener, lsock, shutVars, drainVars, pool, attachVars>>

\* A peer connects and is accepted.
Accept(c) ==
    /\ acceptor = "accept"
    /\ lsock = "open"
    /\ conn[c] = "away"
    /\ conn' = [conn EXCEPT ![c] = "accepted"]
    /\ handling' = {c}
    /\ acceptor' = "add"
    /\ UNCHANGED <<acceptOther, connMgr, metrics>>

\* Mutant: every error of Accept is taken for a transient one.
AcceptEndIgnored == FALSE /\ UNCHANGED vars

\* Accept returns net.ErrClosed; after any other error the loop goes on.
AcceptEnd ==
    /\ acceptor = "accept"
    /\ lsock = "closed"
    /\ acceptor' = "end"
    /\ UNCHANGED <<acceptOther, handling, conn, connMgr, metrics>>

\* Mutant: off by one in the limit.
FullPlusOne == MaxConn > 0 /\ Cardinality(connMgr) > MaxConn

\* ConnManager.Add reports ErrServerFull.
Full == MaxConn > 0 /\ Cardinality(connMgr) >= MaxConn

\* Mutant: handleConn ignores the error of Add.
HandleAddIgnored(c) ==
    /\ acceptor = "add" /\ c \in handling
    /\ connMgr' = IF Full THEN connMgr ELSE connMgr \cup {c}
    /\ conn' = [conn EXCEPT ![c] = "live"]
    /\ acceptor' = "count"
    /\ UNCHANGED <<acceptOther, handling, metrics>>

HandleAdd(c) ==
    /\ acceptor = "add" /\ c \in handling
    /\ \/ /\ Full
          /\ acceptor' = "reject"
          /\ UNCHANGED <<conn, connMgr>>
       \/ /\ ~Full
          /\ connMgr' = connMgr \cup {c}
          /\ conn' = [conn EXCEPT ![c] = "live"]
          /\ acceptor' = "count"
    /\ UNCHANGED <<acceptOther, handling, metrics>>

\* Mutant: only a connection that is still open is counted.
HandleCountOpen ==
    /\ acceptor = "count"
    /\ connsTotal' = connsTotal + 1
    /\ connsActive' = IF \E c \in handling : conn[c] = "live" THEN connsActive + 1
                      ELSE connsActive
    /\ handling' = {}
    /\ acceptor' = "accept"
    /\ UNCHANGED <<acceptOther, conn, connMgr, connsClosed, connsRejected>>

\* The counters, and go c.Start().
HandleCount ==
    /\ acceptor = "count"
    /\ connsTotal' = connsTotal + 1
    /\ connsActive' = connsActive + 1
    /\ handling' = {}
    /\ acceptor' = "accept"
    /\ UNCHANGED <<acceptOther, conn, connMgr, connsClosed, connsRejected>>

RejectConn(c) ==
    /\ acceptor = "reject" /\ c \in handling
    /\ connsRejected' = connsRejected + 1
    /\ conn' = [conn EXCEPT ![c] = "refused"]
    /\ handling' = {}
    /\ acceptor' = "accept"
    /\ UNCHANGED <<acceptOther, connMgr, connsTotal, connsActive, connsClosed>>

-----------------------------------------------------------------------------
(* AttachMetrics                                                           *)

attachOther == <<runVars, listener, lsock, shutVars, drainVars, acceptVars,
                 conn, connMgr, pool, metrics>>

AttachListen(a) ==
    /\ attach[a] = "idle"
    /\ attach' = [attach EXCEPT ![a] = "bound"]
    /\ metricsOpen' = metricsOpen \cup {a}
    /\ UNCHANGED <<attachOther, metricsListener>>

\* Mutant: a second endpoint replaces the first.
AttachStoreReplaces(a) ==
    /\ attach[a] = "bound"
    /\ metricsListener' = {a}
    /\ attach' = [attach EXCEPT ![a] = "attached"]
    /\ UNCHANGED <<attachOther, metricsOpen>>

\* The server keeps one metrics listener; a second one is closed again.
AttachStore(a) ==
    /\ attach[a] = "bound"
    /\ \/ /\ metricsListener = {}
          /\ metricsListener' = {a}
          /\ attach' = [attach EXCEPT ![a] = "attached"]
          /\ UNCHANGED metricsOpen
       \/ /\ metricsListener # {}
          /\ metricsOpen' = metricsOpen \ {a}
          /\ attach' = [attach EXCEPT ![a] = "refused"]
          /\ UNCHANGED metricsListener
    /\ UNCHANGED attachOther

-----------------------------------------------------------------------------
(* The specification                                                       *)

RunNext(r) ==
    \/ RunListen(r) \/ RunStore(r) \/ RunPool(r) \/ RunCancelled(r)
    \/ RunShutdown(r) \/ RunReturn(r)

ShutStep(x) == ShutClose(x) \/ ShutDrained(x) \/ ShutPool(x)

ClearNext ==
    \/ ClearSnapshot \/ ClearDone
    \/ \E c \in Clients : ClearStop(c) \/ ClearStopped(c)

AcceptNext ==
    \/ AcceptEnd \/ HandleCount
    \/ \E c \in Clients : HandleAdd(c) \/ RejectConn(c)

ConnStep(c) == ConnClose(c) \/ ConnStuck(c) \/ ConnClosed(c) \/ ConnBlocked(c)

Next ==
    \/ \E r \in Runners : RunEnter(r) \/ RunNext(r)
    \/ Cancel
    \/ \E x \in Callers : ShutEnter(x) \/ ShutStep(x) \/ ShutExpired(x)
    \/ ClearNext
    \/ \E c \in Clients : Accept(c) \/ ConnStep(c)
    \/ AcceptNext
    \/ \E a \in Attachers : AttachListen(a) \/ AttachStore(a)

Spec == Init /\ [][Next]_vars

\* The goroutine of Run, with the Shutdown it calls: its ctx expires after five
\* seconds, so this one cannot wait forever.
RunStep(r) == RunNext(r) \/ ShutEnter(r) \/ ShutStep(r) \/ ShutExpired(r)

\* Somebody is in Stop of this connection, or it is in stopOnce.
Stopping(c) == c \in stopping \/ conn[c] = "closing"

\* Goroutines that can run do run, and a Stop goes on until it has returned, or
\* is stuck or blocked.  Nobody has to call Run or Shutdown, to connect or to
\* cancel the ctx, and the ctx of another Shutdown need not expire.
Fairness ==
    /\ \A r \in Runners : WF_vars(RunStep(r))
    /\ \A x \in Shutters : WF_vars(ShutStep(x))
    /\ WF_vars(ClearNext) /\ WF_vars(AcceptNext)
    /\ \A c \in Clients : WF_vars(Stopping(c) /\ ConnStep(c))

FairSpec == Spec /\ Fairness

-----------------------------------------------------------------------------
(* Properties                                                              *)

\* Type correctness, with ConnManager's limit.
TypeOK ==
    /\ started \in {"no", "yes"} /\ closed \in {"no", "yes"}
    /\ listener \in {"nil", "set"} /\ lsock \in {"none", "open", "closed"}
    /\ run \in [Runners -> RunPC] /\ ctxDone \in {"no", "yes"}
    /\ shut \in [Callers -> ShutPC]
    /\ lnTaken \in {"nil", "set"} /\ metricsTaken \subseteq Attachers
    /\ drain \in DrainPC
    /\ toStop \subseteq Clients /\ stopping \subseteq Clients /\ late \subseteq Clients
    /\ acceptor \in AcceptPC /\ handling \subseteq Clients
    /\ conn \in [Clients -> Phase]
    /\ connMgr \subseteq Clients
    /\ MaxConn > 0 => Cardinality(connMgr) <= MaxConn
    /\ pool \in {"none", "started", "stopped"}
    /\ {connsTotal, connsClosed, connsRejected} \subseteq Nat /\ connsActive \in Int
    /\ attach \in [Attachers -> AttachPC]
    /\ metricsListener \subseteq Attachers /\ metricsOpen \subseteq Attachers

\* A connection that was added and whose cleanup is not over.
Open(c) == conn[c] \in {"live", "stuck", "closing"}

\* No connection escapes management: whatever is open is either in the
\* ConnManager, where Shutdown will find it, or in the hands of the ClearConn
\* that took it out.
NoOrphan ==
    \A c \in Clients : Open(c) => c \in connMgr \cup toStop \cup stopping

Live == {c \in Clients : conn[c] = "live"}

\* The connections that stopOnce has not uncounted.
Active == {c \in Clients : conn[c] \in {"live", "stuck"}}

\* Between two accepts the metrics agree with the connections: every accepted
\* connection was counted once and every closed one uncounted once, also when
\* ClearConn stops a connection that handleConn has not counted yet.
MetricsAgree ==
    acceptor \in {"none", "accept", "end"} =>
        /\ connsActive = Cardinality(Active)
        /\ connsActive = connsTotal - connsClosed

\* Shutdown drains: when one that found the listener has returned nil, the only
\* connection that can be open is the one handleConn had accepted but not yet
\* added when ClearConn emptied the manager; whoever else is open when it
\* begins is closed before the worker pool is stopped.
OnlyLateOpen ==
    (lnTaken = "set" /\ \E x \in Callers : shut[x] \in {"pool", "drained"})
        => \A c \in Clients : Open(c) => late = {c}

\* An open metrics listener is the one the server holds, or one that a call
\* of AttachMetrics or Shutdown still has in hand.
MetricsOwned ==
    metricsOpen \subseteq metricsListener \cup metricsTaken
                             \cup {a \in Attachers : attach[a] = "bound"}

-----------------------------------------------------------------------------
(* The inductive invariant behind TypeOK, NoOrphan, MetricsAgree,          *)
(* OnlyLateOpen and MetricsOwned.                                          *)

\* One Run at a time is past the started flag; until it launches acceptLoop
\* there is none, and before it stores its listener no Shutdown has found one.
RunInv ==
    /\ \A r \in Runners : run[r] \notin {"idle", "errListen"} => started = "yes"
    /\ \A r, q \in Runners :
           run[r] \notin {"idle", "errListen"} /\ run[q] \notin {"idle", "errListen"}
               => r = q
    /\ \A r \in Runners : run[r] \in {"listen", "store", "pool"} => acceptor = "none"
    /\ \A r \in Runners : run[r] \in {"listen", "store"} => listener = "nil"
    /\ started = "no" => acceptor = "none" /\ listener = "nil"
    /\ lnTaken = "set" => listener = "set"

\* acceptLoop handles one connection at a time, and it is not open before Add
\* has accepted it.
AcceptInv ==
    /\ acceptor \in {"none", "accept", "end"} => handling = {}
    /\ \A c, d \in handling : c = d
    /\ acceptor \in {"add", "reject"} => \A c \in handling : conn[c] = "accepted"
    /\ \A c \in connMgr : Open(c)

\* The gauge lags behind by the connection that is added and not yet counted.
CountInv ==
    /\ IsFiniteSet(connMgr) /\ IsFiniteSet(Active)
    /\ Cardinality(Active) = connsActive + (IF acceptor = "count" THEN 1 ELSE 0)
    /\ connsActive = connsTotal - connsClosed

\* One Shutdown passes the closed flag; it launches ClearConn once, and goes on
\* to the pool when ClearConn has nothing left to stop.
ShutInv ==
    /\ \A x \in Callers : shut[x] \notin {"idle", "noop"} => closed = "yes"
    /\ \A x, y \in Callers :
           shut[x] \notin {"idle", "noop"} /\ shut[y] \notin {"idle", "noop"} => x = y
    /\ closed = "no" => drain = "none" /\ metricsTaken = {} /\ lnTaken = "nil"
    /\ \A x \in Callers : shut[x] = "close" => drain = "none"
    /\ \A x \in Callers : shut[x] \in {"pool", "drained"} => drain = "done"
    /\ drain # "stop" => toStop = {} /\ stopping = {}
    /\ \A c, d \in stopping : c = d

\* Once a listener that was found is closed nothing more is accepted, and after
\* the snapshot of ClearConn what is open is late or still to be stopped.
DrainInv ==
    /\ \A c, d \in late : c = d
    /\ lnTaken = "set" /\ drain # "none" => lsock = "closed"
    /\ lnTaken = "set" /\ drain \in {"stop", "done"} =>
           /\ \A c \in Clients : Open(c) => c \in late \cup toStop \cup stopping
           /\ acceptor = "add" => handling \subseteq late

IInv ==
    /\ TypeOK /\ RunInv /\ AcceptInv /\ CountInv /\ ShutInv /\ DrainInv
    /\ NoOrphan /\ MetricsOwned

\* Run's comment: it "blocks until ctx is cancelled, then performs a graceful
\* shutdown and returns", whoever has called Shutdown before and even if the Stop
\* of a connection never returns, provided that the Shutdown that was first found
\* a listener to close: no other one ends the accept loop.
RunReturns ==
    \A r \in Runners :
        (run[r] = "serve" /\ ctxDone = "yes" /\ (closed = "no" \/ lnTaken = "set"))
            ~> (run[r] = "returned")
=============================================================================
