----------------------------- MODULE HeartBeat ------------------------------
(***************************************************************************)
(* The heartbeat template of a server or client: SetHeartBeatWithOption    *)
(* (StartHeartBeatWithOption on a client) builds a checker, publishes it   *)
(* under stateMu and may be called again at any time; every connection     *)
(* clones what it finds.  With it goes the counting: the metrics that      *)
(* connections, accept loop and checkers fetch from the registry.          *)
(*                                                                         *)
(* Module Connection has the checker's goroutine and its races with Stop;  *)
(* here a connection is stopped only after its Start.                      *)
(***************************************************************************)
EXTENDS Metrics, FiniteSets

CONSTANTS
    Setters,    \* goroutines that set the heartbeat, once each
    Conns,      \* connections, accepted or dialled once each
    Arguments,  \* the arguments of those calls: [interval, option]
    MaxMisses   \* bound on the liveness timeouts

ASSUME HeartBeatAssumption ==
    /\ Fetchers = Setters \cup Conns /\ Setters \cap Conns = {}
    /\ Host \notin Fetchers
    /\ MaxMisses \in Nat
    /\ \A a \in Arguments :
          /\ a.interval \in Int
          /\ \A o, q \in a.option : o = q
          /\ \A o \in a.option : o.timeout \in Int

VARIABLES
    host,       \* the connHost: server, client
    setter,     \* program counters of the Setters
    args,       \* their arguments
    tpl,        \* the checkers they build
    hbTemplate, \* whose checker is published, as a set of at most one
    routes,     \* message ids that have a route
    conn,       \* program counters of the connections
    found,      \* whose checker GetHeartBeat returned, as a set
    clone,      \* the connection's own checker, as a set
    misses      \* history: liveness timeouts

setVars  == <<setter, args, tpl, hbTemplate, routes>>
connVars == <<conn, found, clone, misses>>
vars == <<metricsVars, host, setVars, connVars>>

-----------------------------------------------------------------------------
(* The configuration of a checker; an option is a set of at most one record *)

HeartBeatDefaultMsgID == 99999
DefaultInterval == 10

NewHeartbeatChecker(i) ==
    LET interval == IF i <= 0 THEN DefaultInterval ELSE i
    IN  [interval |-> interval, timeout |-> 3 * interval, makeMsg |-> "default",
         onRemoteNotAlive |-> "default", msgID |-> HeartBeatDefaultMsgID,
         routerSlices |-> {}, metrics |-> {}]

SetTimeout(h, t) == IF t > 0 THEN [h EXCEPT !.timeout = t] ELSE h

SetHeartBeatMsgFunc(h, f) == IF f # "nil" THEN [h EXCEPT !.makeMsg = f] ELSE h

SetOnRemoteNotAlive(h, f) == IF f # "nil" THEN [h EXCEPT !.onRemoteNotAlive = f] ELSE h

BindRouterSlices(h, id, handlers) ==
    IF handlers = {} THEN h
    ELSE [h EXCEPT !.msgID = id, !.routerSlices = @ \cup handlers]

SetMsgID(h, id) == IF id # 0 THEN [h EXCEPT !.msgID = id] ELSE h

WithOption(h, o) ==
    BindRouterSlices(
        SetMsgID(SetTimeout(SetOnRemoteNotAlive(SetHeartBeatMsgFunc(h, o.makeMsg),
                                                o.onRemoteNotAlive),
                            o.timeout),
                 o.msgID),
        o.msgID, o.routerSlices)

\* The configuration of a checker: what SetHeartBeatWithOption was asked for.
Configuration(h) ==
    [interval |-> h.interval, timeout |-> h.timeout, makeMsg |-> h.makeMsg,
     onRemoteNotAlive |-> h.onRemoteNotAlive, msgID |-> h.msgID,
     routerSlices |-> h.routerSlices]

\* The clone is a new checker; the metrics of the template are not copied.
Clone(h) ==
    [interval |-> h.interval, timeout |-> h.timeout, makeMsg |-> h.makeMsg,
     onRemoteNotAlive |-> h.onRemoteNotAlive, msgID |-> h.msgID,
     routerSlices |-> h.routerSlices, metrics |-> {}]

Init ==
    /\ host \in {"server", "client"}
    /\ MetricsInit(IF host = "server" THEN serverMetrics \o handlerMetrics
                   ELSE handlerMetrics)
    /\ setter = [u \in Setters |-> "idle"]
    /\ args \in [Setters -> Arguments]
    /\ tpl = [u \in Setters |-> NewHeartbeatChecker(0)]
    /\ hbTemplate = {} /\ routes = {}
    /\ conn = [c \in Conns |-> "away"]
    /\ found = [c \in Conns |-> {}] /\ clone = [c \in Conns |-> {}]
    /\ misses = 0

-----------------------------------------------------------------------------
(* SetHeartBeatWithOption                                                  *)

SetGoto(u, l) == setter' = [setter EXCEPT ![u] = l]

\* Mutant: the checker is published before it is configured.
SetNewPublishes(u) ==
    /\ setter[u] = "idle"
    /\ tpl' = [tpl EXCEPT ![u] = NewHeartbeatChecker(args[u].interval)]
    /\ want' = [want EXCEPT ![u] = IF host = "server" THEN heartbeatMetrics ELSE <<>>]
    /\ hbTemplate' = {u}
    /\ SetGoto(u, "build")
    /\ UNCHANGED <<known, promReg, missing, held, panicked, value, counted, host, args,
                   routes, connVars>>

\* NewHeartbeatChecker; only a server goes on to fetch metrics.
SetNew(u) ==
    /\ setter[u] = "idle"
    /\ tpl' = [tpl EXCEPT ![u] = NewHeartbeatChecker(args[u].interval)]
    /\ want' = [want EXCEPT ![u] = IF host = "server" THEN heartbeatMetrics ELSE <<>>]
    /\ SetGoto(u, "build")
    /\ UNCHANGED <<known, promReg, missing, held, panicked, value, counted, host, args,
                   hbTemplate, routes, connVars>>

\* SetMetrics, and the option.
SetBuild(u) ==
    /\ setter[u] = "build" /\ Fetched(u)
    /\ LET h == [tpl[u] EXCEPT !.metrics = held[u]["missed"]] IN
          tpl' = [tpl EXCEPT ![u] = IF args[u].option = {} THEN h
                                    ELSE WithOption(h, CHOOSE o \in args[u].option : TRUE)]
    /\ SetGoto(u, "publish")
    /\ UNCHANGED <<metricsVars, host, args, hbTemplate, routes, connVars>>

SetPublish(u) ==
    /\ setter[u] = "publish"
    /\ hbTemplate' = {u}
    /\ SetGoto(u, IF host = "server" THEN "route" ELSE "done")
    /\ UNCHANGED <<metricsVars, host, args, tpl, routes, connVars>>

\* Mutant: the default id is routed, whatever the option says.
RoutedIDDefault(u) == HeartBeatDefaultMsgID

RoutedID(u) == tpl[u].msgID

\* AddRouterSlices with HeartBeatDefaultHandle; an id that has a route keeps it.
SetRoute(u) ==
    /\ setter[u] = "route"
    /\ routes' = routes \cup {RoutedID(u)}
    /\ SetGoto(u, "done")
    /\ UNCHANGED <<metricsVars, host, args, tpl, hbTemplate, connVars>>

-----------------------------------------------------------------------------
(* Connections                                                             *)

ConnGoto(c, l) == conn' = [conn EXCEPT ![c] = l]

connOther == <<host, setVars>>
registry  == <<known, promReg, want, missing, held, panicked>>

\* newConnMetrics; the accept loop handles one connection at a time, while a
\* client's Start and reconnect loop may both be dialling.
ConnNew(c) ==
    /\ conn[c] = "away"
    /\ host = "server" => \A d \in Conns : conn[d] # "fetch"
    /\ want' = [want EXCEPT ![c] = connMetrics]
    /\ ConnGoto(c, "fetch")
    /\ UNCHANGED <<known, promReg, missing, held, panicked, value, counted, connOther,
                   found, clone, misses>>

\* The connection is registered, and counted by handleConn; a client does not
\* count it.
ConnAdd(c) ==
    /\ conn[c] = "fetch" /\ Fetched(c)
    /\ IF host = "server" THEN Count(held[Host], [total |-> 1, active |-> 1])
       ELSE UNCHANGED <<value, counted>>
    /\ ConnGoto(c, "start")
    /\ UNCHANGED <<registry, connOther, found, clone, misses>>

\* Start: GetHeartBeat under stateMu ...
GetHeartBeat(c) ==
    /\ conn[c] = "start"
    /\ found' = [found EXCEPT ![c] = hbTemplate]
    /\ ConnGoto(c, IF hbTemplate = {} THEN "run" ELSE "clone")
    /\ UNCHANGED <<metricsVars, connOther, clone, misses>>

\* ... and Clone of what it returned, outside of the lock.
ConnClone(c) ==
    /\ conn[c] = "clone"
    /\ clone' = [clone EXCEPT ![c] = {Clone(tpl[u]) : u \in found[c]}]
    /\ ConnGoto(c, "run")
    /\ UNCHANGED <<metricsVars, connOther, found, misses>>

\* check finds the peer dead: the default callback stops the connection, the
\* application's own need not.
Miss(c) ==
    /\ conn[c] = "run" /\ misses < MaxMisses
    /\ misses' = misses + 1
    /\ \E h \in clone[c] :
          /\ IF h.metrics # {} THEN Count([missed |-> h.metrics], [missed |-> 1])
             ELSE UNCHANGED <<value, counted>>
          /\ ConnGoto(c, IF h.onRemoteNotAlive = "default" THEN "stopping" ELSE "run")
    /\ UNCHANGED <<registry, connOther, found, clone>>

\* stopOnce, called by the checker or by anybody else.
ConnStop(c) ==
    /\ conn[c] \in {"run", "stopping"}
    /\ Count(held[c], [active |-> -1, closed |-> 1])
    /\ ConnGoto(c, "closed")
    /\ UNCHANGED <<registry, connOther, found, clone, misses>>

-----------------------------------------------------------------------------
(* The specification                                                       *)

Next ==
    \/ \E f \in Fetchers : (Lookup(f) \/ Create(f)) /\ UNCHANGED <<host, setVars, connVars>>
    \/ \E u \in Setters : SetNew(u) \/ SetBuild(u) \/ SetPublish(u) \/ SetRoute(u)
    \/ \E c \in Conns :
          ConnNew(c) \/ ConnAdd(c) \/ GetHeartBeat(c) \/ ConnClone(c) \/ Miss(c) \/ ConnStop(c)

Spec == Init /\ [][Next]_vars

-----------------------------------------------------------------------------
(* Properties                                                              *)

\* The configuration a call asks for, field by field.  Handlers come with the
\* option's message id, also when that is zero.
Wanted(a) ==
    LET interval == IF a.interval > 0 THEN a.interval ELSE DefaultInterval
        some(P(_)) == \E o \in a.option : P(o)
        the == CHOOSE o \in a.option : TRUE
    IN  [interval |-> interval,
         timeout |-> IF some(LAMBDA o : o.timeout > 0) THEN the.timeout ELSE 3 * interval,
         makeMsg |-> IF some(LAMBDA o : o.makeMsg # "nil") THEN the.makeMsg ELSE "default",
         onRemoteNotAlive |-> IF some(LAMBDA o : o.onRemoteNotAlive # "nil")
                              THEN the.onRemoteNotAlive ELSE "default",
         msgID |-> IF some(LAMBDA o : o.msgID # 0 \/ o.routerSlices # {}) THEN the.msgID
                   ELSE HeartBeatDefaultMsgID,
         routerSlices |-> UNION {o.routerSlices : o \in a.option}]

\* A connection's checker has the whole configuration of one call of
\* SetHeartBeatWithOption: none that is half built, and no mixture of two
\* calls, however calls and Starts interleave.  What the checker counts its
\* misses with is not part of it: that is MissesCounted.
ClonesWhole ==
    \A c \in Conns : \A h \in clone[c] :
        \E u \in found[c] : Configuration(h) = Wanted(args[u])

\* When the calls have returned, a server routes the heartbeat frames that its
\* connections exchange, also those of connections that cloned an older template.
BeatsRouted ==
    host = "server" /\ (\A u \in Setters : setter[u] \in {"idle", "done"}) =>
        \A c \in Conns : \A h \in clone[c] : h.msgID \in routes

\* The connections that handleConn, or the client's dial, has registered and
\* stopOnce not yet uncounted.
OpenConns == {c \in Conns : conn[c] \in {"start", "clone", "run", "stopping"}}

\* The gauge is what its help text calls it, "Currently active connections": the
\* number of open connections, on a server and on a client.  Violated: on a
\* client nobody counts a connection up, and stopOnce counts every one down.
ActiveConnections == value["active"] = Cardinality(OpenConns)

\* Where the counter of missed heartbeats exists, it counts the liveness timeouts
\* ("Heartbeat liveness timeouts", the figure to alert on).  Violated: check
\* counts with the metrics of its checker, and Clone does not hand them on.
MissesCounted == promReg["missed"] # {} => value["missed"] = misses

-----------------------------------------------------------------------------
(* The inductive invariant behind these and NothingLost.                   *)

SetPC  == {"idle", "build", "publish", "route", "done"}
ConnPC == {"away", "fetch", "start", "clone", "run", "stopping", "closed"}

HBTypeOK ==
    /\ MetricsTypeOK
    /\ host \in {"server", "client"}
    /\ setter \in [Setters -> SetPC] /\ args \in [Setters -> Arguments]
    /\ DOMAIN tpl = Setters
    /\ hbTemplate \subseteq Setters
    /\ conn \in [Conns -> ConnPC]
    /\ found \in [Conns -> SUBSET Setters] /\ DOMAIN clone = Conns
    /\ misses \in Nat

\* Nobody is fetching before the call that needs the metrics, the host holds
\* what it counts with, and a connection has each of its handles or still has
\* to fetch it.
FetchInv ==
    /\ \A u \in Setters : setter[u] = "idle" => Fetched(u)
    /\ \A c \in Conns : conn[c] = "away" => Fetched(c)
    /\ \A c \in Conns : conn[c] \notin {"away", "fetch"} => Fetched(c)
    /\ host = "server" => held[Host]["total"] # {} /\ held[Host]["active"] # {}
    /\ \A c \in Conns : \A n \in {"active", "closed"} :
          conn[c] # "away" =>
              held[c][n] # {} \/ \E i \in DOMAIN want[c] : want[c][i] = n

\* What a setter has built so far.
SetterInv(u) ==
    /\ setter[u] = "build" => tpl[u] = NewHeartbeatChecker(args[u].interval)
    /\ setter[u] \in {"publish", "route", "done"} => Configuration(tpl[u]) = Wanted(args[u])
    /\ host = "server" /\ setter[u] = "done" => tpl[u].msgID \in routes

\* A checker is complete before it is published, and is not changed afterwards.
TemplateInv ==
    /\ \A u \in Setters : SetterInv(u)
    /\ \A u \in hbTemplate : setter[u] \in {"route", "done"}
    /\ \A c \in Conns : \A u \in found[c] : setter[u] \in {"route", "done"}
    /\ \A c \in Conns : conn[c] \in {"away", "fetch", "start"} => clone[c] = {}
    /\ \A c \in Conns : \A h \in clone[c] : \E u \in found[c] : h = Clone(tpl[u])

\* On a server the gauge is what it is meant to be.
GaugeInv == IsFiniteSet(OpenConns) /\ (host = "server" => ActiveConnections)

IInv == HBTypeOK /\ RegistryInv /\ FetchInv /\ TemplateInv /\ GaugeInv
=============================================================================
