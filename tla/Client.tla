------------------------------- MODULE Client -------------------------------
(***************************************************************************)
(* The client of knet/client.go: Start dials and launches the loop that    *)
(* reconnects, Stop ends it, and at most one connection is registered in   *)
(* its ConnManager of capacity 1.                                          *)
(*                                                                         *)
(* Every successful Start opens a session, with its own ctx; its dial runs *)
(* in the goroutine of Start first and in the loop afterwards.  A          *)
(* connection is reduced to what the client sees of it: created, live      *)
(* (Start won its compare-and-swap), closing (OnConnStop has signalled),   *)
(* closed (removed from the manager).  Module Connection has the rest.     *)
(***************************************************************************)
EXTENDS Naturals

CONSTANTS
    Users,        \* goroutines that call Start and Stop (Restart is the two in turn)
    TLS,          \* yes if WithTLSClient is set: then dial does not pass ctx on
    MaxSessions,  \* bound: sessions
    MaxConns      \* bound: successful dials

ASSUME ClientAssumption ==
    TLS \in {"no", "yes"} /\ MaxSessions \in Nat /\ MaxConns \in Nat

Session == 1..MaxSessions
ConnID  == 1..MaxConns
Nil     == 0

VARIABLES
    started,    \* c.started: no, yes
    stopping,   \* c.stopping: no, yes
    cancel,     \* c.cancel: the session it cancels, or Nil
    conn,       \* c.conn: a connection, or Nil
    connGone,   \* tokens in the channel of capacity 1
    sessions,   \* sessions opened so far
    connID,     \* c.connID
    ctxDone,    \* sessions whose ctx is cancelled
    connMgr,    \* connections in the ConnManager
    phase,      \* phase of each connection
    pool,       \* the worker pool: none, started, stopped
    user,       \* program counters of the users,
    mine,       \*   the session of their Start or of the cancel they took,
    held,       \*   and the connection they stop
    loop,       \* program counters of run, per session
    dial,       \* program counters of dial, per session,
    dialled     \*   and the connection it made

clientVars == <<started, stopping, cancel, sessions>>
userVars   == <<user, mine, held>>
loopVars   == <<loop, dial, dialled>>
connVars   == <<conn, connGone, connID, connMgr, phase>>
vars == <<clientVars, userVars, loopVars, connVars, ctxDone, pool>>

UserPC == {"idle", "pool", "dial", "cancel", "stopConn", "clear", "stopCleared", "stopPool"}
LoopPC == {"none", "select", "check", "timer", "dial", "end"}
DialPC == {"none", "connect", "check", "add", "start", "ok", "err"}
Phase  == {"none", "created", "live", "closing", "closed"}

Init ==
    /\ started = "no" /\ stopping = "no" /\ cancel = Nil
    /\ conn = Nil /\ connGone = 0
    /\ sessions = 0 /\ connID = 0
    /\ ctxDone = {} /\ connMgr = {}
    /\ phase = [k \in ConnID |-> "none"]
    /\ pool = "none"
    /\ user = [u \in Users |-> "idle"]
    /\ mine = [u \in Users |-> Nil]
    /\ held = [u \in Users |-> Nil]
    /\ loop = [s \in Session |-> "none"]
    /\ dial = [s \in Session |-> "none"]
    /\ dialled = [s \in Session |-> Nil]

UserGoto(u, l) == user' = [user EXCEPT ![u] = l]
LoopGoto(s, l) == loop' = [loop EXCEPT ![s] = l]
DialGoto(s, l) == dial' = [dial EXCEPT ![s] = l]

-----------------------------------------------------------------------------
(* Start                                                                   *)

\* A client that is started refuses a second Start.
StartEnter(u) ==
    /\ user[u] = "idle"
    /\ started = "no"
    /\ sessions < MaxSessions
    /\ started' = "yes"
    /\ stopping' = "no"
    /\ sessions' = sessions + 1
    /\ cancel' = sessions + 1
    /\ mine' = [mine EXCEPT ![u] = sessions + 1]
    /\ UserGoto(u, "pool")
    /\ UNCHANGED <<held, loopVars, connVars, ctxDone, pool>>

\* StartWorkerPool, which does nothing to a pool that has been stopped.
StartPool(u) ==
    /\ user[u] = "pool"
    /\ pool' = IF pool = "none" THEN "started" ELSE pool
    /\ DialGoto(mine[u], "connect")
    /\ UserGoto(u, "dial")
    /\ UNCHANGED <<clientVars, mine, held, loop, dialled, connVars, ctxDone>>

\* The first dial succeeded: go c.run(ctx).
StartOk(u) ==
    /\ user[u] = "dial"
    /\ dial[mine[u]] = "ok"
    /\ DialGoto(mine[u], "none")
    /\ LoopGoto(mine[u], "select")
    /\ UserGoto(u, "idle")
    /\ UNCHANGED <<clientVars, mine, held, dialled, connVars, ctxDone, pool>>

\* Mutant: the error path of Start only resets cancel.
StartFailedKeeps(u) ==
    /\ user[u] = "dial"
    /\ dial[mine[u]] = "err"
    /\ DialGoto(mine[u], "none")
    /\ cancel' = Nil
    /\ UserGoto(u, "idle")
    /\ UNCHANGED <<started, stopping, sessions, mine, held, loop, dialled,
                   connVars, ctxDone, pool>>

\* The first dial failed.
StartFailed(u) ==
    /\ user[u] = "dial"
    /\ dial[mine[u]] = "err"
    /\ DialGoto(mine[u], "none")
    /\ started' = "no"
    /\ cancel' = Nil
    /\ UserGoto(u, "idle")
    /\ UNCHANGED <<stopping, sessions, mine, held, loop, dialled, connVars,
                   ctxDone, pool>>

-----------------------------------------------------------------------------
(* Connections, as the client sees them                                    *)

\* stopOnce up to CallOnConnStop: the signal is dropped if one is pending.
Closing(k) ==
    /\ phase[k] \in {"created", "live"}
    /\ phase' = [phase EXCEPT ![k] = "closing"]
    /\ connGone' = 1

\* The connection ends by itself.  Only a live one has a reader or a peer.
\* Bound: there are ids left to reconnect with.
ConnLost(k) ==
    /\ phase[k] = "live"
    /\ connID < MaxConns
    /\ Closing(k)
    /\ UNCHANGED <<clientVars, userVars, loopVars, conn, connID, connMgr, ctxDone, pool>>

\* The rest of stopOnce, with ConnManager.Remove.
ConnClosed(k) ==
    /\ phase[k] = "closing"
    /\ phase' = [phase EXCEPT ![k] = "closed"]
    /\ connMgr' = connMgr \ {k}
    /\ UNCHANGED <<clientVars, userVars, loopVars, conn, connGone, connID, ctxDone, pool>>

-----------------------------------------------------------------------------
(* Stop                                                                    *)

\* A client that is not started has nothing to stop.
StopEnter(u) ==
    /\ user[u] = "idle"
    /\ started = "yes"
    /\ started' = "no"
    /\ stopping' = "yes"
    /\ cancel' = Nil
    /\ mine' = [mine EXCEPT ![u] = cancel]
    /\ held' = [held EXCEPT ![u] = conn]
    /\ UserGoto(u, "cancel")
    /\ UNCHANGED <<sessions, loopVars, connVars, ctxDone, pool>>

\* Mutant: the ctx is forgotten.
StopCancelForgotten(u) ==
    /\ user[u] = "cancel"
    /\ UserGoto(u, "stopConn")
    /\ UNCHANGED <<clientVars, mine, held, loopVars, connVars, ctxDone, pool>>

StopCancel(u) ==
    /\ user[u] = "cancel"
    /\ ctxDone' = ctxDone \cup {mine[u]}
    /\ UserGoto(u, "stopConn")
    /\ UNCHANGED <<clientVars, mine, held, loopVars, connVars, pool>>

\* conn.Stop() begins, for c.conn or for what ClearConn took ...
StopConn(u) ==
    /\ user[u] \in {"stopConn", "stopCleared"}
    /\ held[u] # Nil
    /\ Closing(held[u])
    /\ UNCHANGED <<clientVars, userVars, loopVars, conn, connID, connMgr, ctxDone, pool>>

\* ... and returns; without a connection there is nothing to stop.
StopConnDone(u) ==
    /\ user[u] \in {"stopConn", "stopCleared"}
    /\ held[u] # Nil => phase[held[u]] = "closed"
    /\ UserGoto(u, IF user[u] = "stopConn" THEN "clear" ELSE "stopPool")
    /\ UNCHANGED <<clientVars, mine, held, loopVars, connVars, ctxDone, pool>>

\* ClearConn empties the map, which holds at most one connection.
StopClear(u) ==
    /\ user[u] = "clear"
    /\ held' = [held EXCEPT ![u] = IF connMgr = {} THEN Nil ELSE CHOOSE k \in connMgr : TRUE]
    /\ connMgr' = {}
    /\ UserGoto(u, "stopCleared")
    /\ UNCHANGED <<clientVars, mine, loopVars, conn, connGone, connID, phase, ctxDone, pool>>

StopPool(u) ==
    /\ user[u] = "stopPool"
    /\ pool' = IF pool = "started" THEN "stopped" ELSE pool
    /\ UserGoto(u, "idle")
    /\ UNCHANGED <<clientVars, mine, held, loopVars, connVars, ctxDone>>

-----------------------------------------------------------------------------
(* dial                                                                    *)

dialOther == <<clientVars, userVars, loop, ctxDone, pool>>

\* The peer answers, or not.  DialContext fails once ctx is cancelled;
\* tls.DialWithDialer does not get the ctx.
DialConnect(s) ==
    /\ dial[s] = "connect"
    /\ TLS = "no" => s \notin ctxDone
    /\ connID < MaxConns
    /\ connID' = connID + 1
    /\ dialled' = [dialled EXCEPT ![s] = connID + 1]
    /\ phase' = [phase EXCEPT ![connID + 1] = "created"]
    /\ DialGoto(s, "check")
    /\ UNCHANGED <<dialOther, conn, connGone, connMgr>>

DialError(s) ==
    /\ dial[s] = "connect"
    /\ DialGoto(s, "err")
    /\ UNCHANGED <<dialOther, dialled, connVars>>

\* Mutant: dial does not look at c.stopping.
MayDialAlways == TRUE

MayDial == stopping = "no"

DialCheck(s) ==
    /\ dial[s] = "check"
    /\ \/ MayDial /\ conn' = dialled[s] /\ DialGoto(s, "add")
       \/ ~MayDial /\ DialGoto(s, "err") /\ UNCHANGED conn
    /\ UNCHANGED <<dialOther, dialled, connGone, connID, connMgr, phase>>

\* Mutant: the manager of the client is not limited to one connection.
MgrFullNever == FALSE

\* len(connections) >= 1, the capacity NewClient gives its manager.
MgrFull == connMgr # {}

\* Add; on ErrServerFull the raw connection is closed and c.conn stays.
DialAdd(s) ==
    /\ dial[s] = "add"
    /\ \/ MgrFull /\ DialGoto(s, "err") /\ UNCHANGED connMgr
       \/ ~MgrFull /\ connMgr' = connMgr \cup {dialled[s]} /\ DialGoto(s, "start")
    /\ UNCHANGED <<dialOther, dialled, conn, connGone, connID, phase>>

\* conn.Start() does nothing to a connection that has been stopped meanwhile.
DialStart(s) ==
    /\ dial[s] = "start"
    /\ phase' = [phase EXCEPT ![dialled[s]] = IF @ = "created" THEN "live" ELSE @]
    /\ DialGoto(s, "ok")
    /\ UNCHANGED <<dialOther, dialled, conn, connGone, connID, connMgr>>

-----------------------------------------------------------------------------
(* run                                                                     *)

loopOther == <<clientVars, userVars, dialled, ctxDone, pool>>

\* ctx.Done() in either select.
LoopCancelled(s) ==
    /\ loop[s] \in {"select", "timer"}
    /\ s \in ctxDone
    /\ LoopGoto(s, "end")
    /\ UNCHANGED <<loopOther, dial, connVars>>

LoopGone(s) ==
    /\ loop[s] = "select"
    /\ connGone = 1
    /\ connGone' = 0
    /\ LoopGoto(s, "check")
    /\ UNCHANGED <<loopOther, dial, conn, connID, connMgr, phase>>

\* isStopping, before the backoff.
LoopCheck(s) ==
    /\ loop[s] = "check"
    /\ LoopGoto(s, IF stopping = "yes" THEN "end" ELSE "timer")
    /\ UNCHANGED <<loopOther, dial, connVars>>

\* The backoff is over.
LoopTimer(s) ==
    /\ loop[s] = "timer"
    /\ LoopGoto(s, "dial")
    /\ DialGoto(s, "connect")
    /\ UNCHANGED <<loopOther, connVars>>

\* dial returned: error or not, the loop waits for the next signal.
LoopDialled(s) ==
    /\ loop[s] = "dial"
    /\ dial[s] \in {"ok", "err"}
    /\ DialGoto(s, "none")
    /\ LoopGoto(s, "select")
    /\ UNCHANGED <<loopOther, connVars>>

-----------------------------------------------------------------------------
(* The specification                                                       *)

StartNext(u) == StartPool(u) \/ StartOk(u) \/ StartFailed(u)

StopNext(u) ==
    \/ StopCancel(u) \/ StopConn(u) \/ StopConnDone(u) \/ StopClear(u) \/ StopPool(u)

DialNext(s) ==
    \/ DialConnect(s) \/ DialError(s) \/ DialCheck(s) \/ DialAdd(s) \/ DialStart(s)

LoopNext(s) ==
    \/ LoopCancelled(s) \/ LoopGone(s) \/ LoopCheck(s) \/ LoopTimer(s) \/ LoopDialled(s)

Next ==
    \/ \E u \in Users : StartEnter(u) \/ StartNext(u) \/ StopEnter(u) \/ StopNext(u)
    \/ \E s \in Session : DialNext(s) \/ LoopNext(s)
    \/ \E k \in ConnID : ConnLost(k) \/ ConnClosed(k)

Spec == Init /\ [][Next]_vars

\* Goroutines that can run do run, a stopOnce that has begun removes its
\* connection (the OnConnStop hook returns; LoopEnds does not need it, and
\* Reconnects is violated in spite of it), and without TLS a dial ends and the
\* peer answers some dial if dialled again and again.  With TLS nothing ends the
\* handshake with a silent peer: tls.DialWithDialer gets a dialer without a
\* timeout, and no ctx.  select is random, so run cannot overlook ctx.Done()
\* forever.
Fairness ==
    /\ \A u \in Users : WF_vars(StartNext(u)) /\ WF_vars(StopNext(u))
    /\ \A s \in Session :
           /\ WF_vars(TLS = "no" /\ DialNext(s)) /\ SF_vars(TLS = "no" /\ DialConnect(s))
           /\ WF_vars(DialCheck(s) \/ DialAdd(s) \/ DialStart(s))
           /\ WF_vars(LoopNext(s)) /\ SF_vars(LoopCancelled(s))
    /\ \A k \in ConnID : WF_vars(ConnClosed(k))

FairSpec == Spec /\ Fairness

-----------------------------------------------------------------------------
(* Properties                                                              *)

\* Type correctness.  The manager never holds more than one connection.
TypeOK ==
    /\ started \in {"no", "yes"} /\ stopping \in {"no", "yes"}
    /\ cancel \in Session \cup {Nil}
    /\ conn \in ConnID \cup {Nil}
    /\ connGone \in {0, 1}
    /\ sessions \in 0..MaxSessions /\ connID \in 0..MaxConns
    /\ ctxDone \subseteq Session
    /\ connMgr \subseteq ConnID /\ \A j, k \in connMgr : j = k
    /\ phase \in [ConnID -> Phase]
    /\ pool \in {"none", "started", "stopped"}
    /\ user \in [Users -> UserPC]
    /\ mine \in [Users -> Session \cup {Nil}]
    /\ held \in [Users -> ConnID \cup {Nil}]
    /\ loop \in [Session -> LoopPC]
    /\ dial \in [Session -> DialPC]
    /\ dialled \in [Session -> ConnID \cup {Nil}]

\* Stop never calls a nil cancel function: a started client has one, however
\* the error path of one Start overlaps with the next Start.
CancelSet == started = "yes" => cancel # Nil

\* docs/faq.md: no reconnecting after Stop.  When a client that was started
\* once is not started any more and nobody is inside Start or Stop, no
\* connection is live, wherever Start, dial and the loop were when Stop came.
\* (The Start of the next session clears c.stopping, and a dial of this one
\* that is still under way may then go on.)
DisconnectedAfterStop ==
    (sessions <= 1 /\ started = "no" /\ \A u \in Users : user[u] = "idle")
        => \A k \in ConnID : phase[k] # "live"

-----------------------------------------------------------------------------
(* The inductive invariant behind TypeOK, CancelSet and                    *)
(* DisconnectedAfterStop.                                                  *)

\* A session belongs to the Start that opened it until its loop is launched;
\* dial runs in one of the two; ids and sessions are fresh.
SessionInv ==
    /\ \A u \in Users : user[u] \in {"pool", "dial"} =>
           mine[u] \in 1..sessions /\ loop[mine[u]] = "none"
    /\ \A u, v \in Users :
           user[u] \in {"pool", "dial"} /\ user[v] \in {"pool", "dial"}
               /\ mine[u] = mine[v] => u = v
    /\ \A u \in Users : user[u] = "pool" => dial[mine[u]] = "none"
    /\ \A u \in Users : user[u] = "cancel" => mine[u] # Nil
    /\ \A s \in Session : s > sessions => loop[s] = "none" /\ dial[s] = "none"
    /\ \A s \in Session : loop[s] \in {"select", "check", "timer", "end"} => dial[s] = "none"
    /\ \A s \in Session : dial[s] \in {"check", "add", "start"} => dialled[s] # Nil
    /\ \A k \in ConnID : k > connID => phase[k] = "none"

NoneLive == \A k \in ConnID : phase[k] # "live"

\* The session is on its way to a connection: its last one, if any, is gone.
Dialling(s) ==
    loop[s] \in {"check", "timer"} \/ (loop[s] \in {"none", "dial"} /\ dial[s] # "ok")

\* During the first session the live connection is c.conn, a signal in connGone
\* means that there is none, and the Stop that has set c.stopping holds c.conn
\* until it is closed.
FirstSession ==
    /\ \A k \in ConnID : phase[k] = "live" => k = conn
    /\ sessions = 0 => /\ started = "no" /\ stopping = "no" /\ connGone = 0 /\ NoneLive
                       /\ \A u \in Users : user[u] = "idle"
    /\ stopping = "no" /\ connGone = 1 => NoneLive
    /\ \A s \in 1..sessions : stopping = "no" /\ Dialling(s) => connGone = 0 /\ NoneLive
    /\ \A s \in 1..sessions : dial[s] \in {"add", "start"} => dialled[s] = conn
    /\ started = "no" /\ stopping = "no" =>
           /\ \A s \in 1..sessions : loop[s] = "none" /\ dial[s] = "none"
           /\ \A u \in Users : user[u] \notin {"pool", "dial"}
    /\ \A u \in Users : user[u] \notin {"idle", "pool", "dial"} => stopping = "yes"
    /\ stopping = "yes" =>
           \/ \E u \in Users : user[u] \in {"cancel", "stopConn"} /\ held[u] = conn
           \/ conn = Nil \/ phase[conn] = "closed"

IInv == TypeOK /\ CancelSet /\ SessionInv /\ (sessions <= 1 => FirstSession)

\* The dial waits for the peer's answer to its TLS handshake.
Handshaking(s) == TLS = "yes" /\ dial[s] = "connect"

\* Stop ends the loop of the session it cancels, whatever the loop was doing,
\* and even if the next Start has cleared c.stopping before the loop read it.
\* The one thing that keeps a loop is a TLS handshake with a silent peer, although
\* the comment at cancel() in Stop (client.go, line 180) says that it "stops the
\* run loop (and any in-flight dial)".
LoopEnds ==
    \A s \in Session :
        (\E u \in Users : user[u] = "cancel" /\ mine[u] = s)
            ~> [](loop[s] \in {"none", "end"} \/ Handshaking(s))

\* The comment in run: "dial failed; retry with a longer backoff".  A started
\* client without a connection gets one, or is stopped.
Reconnects ==
    (started = "yes") ~> (started = "no" \/ \E k \in ConnID : phase[k] = "live")
=============================================================================
