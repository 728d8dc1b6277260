---------------------------- MODULE ClientProofs ----------------------------
(***************************************************************************)
(* Safety of the client, with and without TLS, for any number of           *)
(* goroutines that call Start and Stop and any number of sessions and      *)
(* connections.                                                            *)
(***************************************************************************)
EXTENDS Client, TLAPS

USE DEF vars, clientVars, userVars, loopVars, connVars, dialOther, loopOther,
        Session, ConnID, Nil

\* Every action keeps the variables in their types, and Add keeps the manager at
\* one connection.
LEMMA TypeStep ==
    ASSUME TypeOK, CancelSet, SessionInv, [Next]_vars
    PROVE  TypeOK'
<1> USE ClientAssumption DEF TypeOK, UserPC, LoopPC, DialPC, Phase
<1>1. ASSUME NEW u \in Users, StartEnter(u) \/ StartNext(u) PROVE TypeOK'
  <2> USE DEF UserGoto, DialGoto, LoopGoto
  <2>1. CASE StartEnter(u)
    BY <2>1 DEF StartEnter
  <2>2. CASE StartPool(u)
    BY <2>2, Zenon DEF StartPool
  <2>3. CASE StartOk(u)
    BY <2>3, Zenon DEF StartOk
  <2>4. CASE StartFailed(u)
    BY <2>4, Zenon DEF StartFailed
  <2> HIDE DEF TypeOK
  <2> QED BY ONLY <1>1, <2>1, <2>2, <2>3, <2>4 DEF StartNext
<1>2. ASSUME NEW u \in Users, StopEnter(u) \/ StopNext(u) PROVE TypeOK'
  <2> USE DEF UserGoto
  <2>1. CASE StopEnter(u)
    BY <2>1 DEF StopEnter
  <2>2. CASE StopCancel(u)
    <3>1. mine[u] \in Session
      BY <2>2 DEF StopCancel, SessionInv
    <3> QED BY <2>2, <3>1, ZenonT(30) DEF StopCancel
  <2>3. CASE StopConn(u)
    BY <2>3 DEF StopConn, Closing
  <2>4. CASE StopConnDone(u)
    BY <2>4 DEF StopConnDone
  <2>5. CASE StopClear(u)
    <3>1. (IF connMgr = {} THEN Nil ELSE CHOOSE k \in connMgr : TRUE) \in ConnID \cup {Nil}
      BY Zenon
    <3> QED BY <2>5, <3>1 DEF StopClear
  <2>6. CASE StopPool(u)
    BY <2>6 DEF StopPool
  <2> HIDE DEF TypeOK
  <2> QED BY ONLY <1>2, <2>1, <2>2, <2>3, <2>4, <2>5, <2>6 DEF StopNext
<1>3. ASSUME NEW s \in Session, DialNext(s) PROVE TypeOK'
  <2> USE DEF DialGoto
  <2>1. CASE DialConnect(s)
    BY <2>1 DEF DialConnect
  <2>2. CASE DialError(s)
    BY <2>2 DEF DialError
  <2>3. CASE DialCheck(s)
    BY <2>3 DEF DialCheck
  <2>4. CASE DialAdd(s)
    <3>1. dialled[s] \in ConnID
      BY <2>4 DEF DialAdd, SessionInv
    <3>2. connMgr' \subseteq ConnID /\ \A j, k \in connMgr' : j = k
      BY <2>4, <3>1, ZenonT(30) DEF DialAdd, MgrFull
    <3>3. dial' \in [Session -> DialPC]
      BY <2>4 DEF DialAdd
    <3>4. UNCHANGED <<dialOther, dialled, conn, connGone, connID, phase>>
      BY <2>4 DEF DialAdd
    <3> QED BY <3>2, <3>3, <3>4
  <2>5. CASE DialStart(s)
    <3>1. dialled[s] \in ConnID
      BY <2>5 DEF DialStart, SessionInv
    <3>2. phase' \in [ConnID -> Phase] /\ dial' \in [Session -> DialPC]
      BY <2>5, <3>1 DEF DialStart
    <3>3. UNCHANGED <<dialOther, dialled, conn, connGone, connID, connMgr>>
      BY <2>5 DEF DialStart
    <3> QED BY <3>2, <3>3
  <2> HIDE DEF TypeOK
  <2> QED BY ONLY <1>3, <2>1, <2>2, <2>3, <2>4, <2>5 DEF DialNext
<1>4. ASSUME NEW s \in Session, LoopNext(s) PROVE TypeOK'
  <2> USE DEF LoopGoto, DialGoto
  <2>1. CASE LoopCancelled(s)
    BY <2>1 DEF LoopCancelled
  <2>2. CASE LoopGone(s)
    BY <2>2 DEF LoopGone
  <2>3. CASE LoopCheck(s)
    BY <2>3 DEF LoopCheck
  <2>4. CASE LoopTimer(s)
    BY <2>4 DEF LoopTimer
  <2>5. CASE LoopDialled(s)
    BY <2>5 DEF LoopDialled
  <2> HIDE DEF TypeOK
  <2> QED BY ONLY <1>4, <2>1, <2>2, <2>3, <2>4, <2>5 DEF LoopNext
<1>5. ASSUME NEW k \in ConnID, ConnLost(k) PROVE TypeOK'
  BY <1>5 DEF ConnLost, Closing
<1>6. ASSUME NEW k \in ConnID, ConnClosed(k) PROVE TypeOK'
  BY <1>6 DEF ConnClosed
<1>7. CASE UNCHANGED vars
  BY <1>7
<1> HIDE DEF TypeOK
<1> QED BY <1>1, <1>2, <1>3, <1>4, <1>5, <1>6, <1>7 DEF Next

\* started and cancel are set and reset together, under c.mu.
LEMMA CancelStep ==
    ASSUME TypeOK, CancelSet, [Next]_vars
    PROVE  CancelSet'
<1> USE DEF CancelSet
<1>1. ASSUME NEW u \in Users, StartEnter(u) PROVE CancelSet'
  BY <1>1 DEF StartEnter, TypeOK
<1>2. ASSUME NEW u \in Users, StartNext(u) \/ StopEnter(u) PROVE CancelSet'
  BY <1>2 DEF StartNext, StartPool, StartOk, StartFailed, StopEnter
<1>3. ASSUME NEW u \in Users, StopNext(u) PROVE CancelSet'
  BY <1>3 DEF StopNext, StopCancel, StopConn, StopConnDone, StopClear, StopPool
<1>4. ASSUME NEW s \in Session, DialNext(s) \/ LoopNext(s) PROVE CancelSet'
  BY <1>4, Zenon DEF DialNext, DialConnect, DialError, DialCheck, DialAdd, DialStart,
     LoopNext, LoopCancelled, LoopGone, LoopCheck, LoopTimer, LoopDialled
<1>5. ASSUME NEW k \in ConnID, ConnLost(k) \/ ConnClosed(k) PROVE CancelSet'
  BY <1>5 DEF ConnLost, ConnClosed
<1>6. CASE UNCHANGED vars
  BY <1>6
<1> QED BY <1>1, <1>2, <1>3, <1>4, <1>5, <1>6 DEF Next

\* Sessions, dials and loops belong together.
LEMMA SessionStep ==
    ASSUME TypeOK, CancelSet, SessionInv, [Next]_vars
    PROVE  SessionInv'
<1> USE ClientAssumption DEF TypeOK, SessionInv
<1>1. ASSUME NEW u \in Users, StartEnter(u) \/ StartNext(u) PROVE SessionInv'
  <2> USE DEF UserGoto, DialGoto, LoopGoto
  <2>1. CASE StartEnter(u)
    BY <2>1 DEF StartEnter
  <2>2. CASE StartPool(u)
    BY <2>2 DEF StartPool
  <2>3. CASE StartOk(u)
    BY <2>3 DEF StartOk
  <2>4. CASE StartFailed(u)
    BY <2>4 DEF StartFailed
  <2> HIDE DEF TypeOK, SessionInv
  <2> QED BY ONLY <1>1, <2>1, <2>2, <2>3, <2>4 DEF StartNext
<1>2. ASSUME NEW u \in Users, StopEnter(u) \/ StopNext(u) PROVE SessionInv'
  <2> USE DEF UserGoto
  <2>1. CASE StopEnter(u)
    BY <2>1 DEF StopEnter, CancelSet
  <2>2. CASE StopConn(u)
    BY <2>2 DEF StopConn, Closing
  <2>3. CASE StopCancel(u)
    BY <2>3 DEF StopCancel
  <2>4. CASE StopConnDone(u)
    BY <2>4 DEF StopConnDone
  <2>5. CASE StopClear(u)
    BY <2>5 DEF StopClear
  <2>6. CASE StopPool(u)
    BY <2>6 DEF StopPool
  <2> HIDE DEF TypeOK, SessionInv
  <2> QED BY ONLY <1>2, <2>1, <2>2, <2>3, <2>4, <2>5, <2>6 DEF StopNext
<1>3. ASSUME NEW s \in Session, DialNext(s) PROVE SessionInv'
  <2> USE DEF DialGoto
  <2>1. CASE DialConnect(s)
    BY <2>1 DEF DialConnect
  <2>2. CASE DialError(s)
    BY <2>2 DEF DialError
  <2>3. CASE DialCheck(s)
    BY <2>3 DEF DialCheck
  <2>4. CASE DialAdd(s)
    BY <2>4 DEF DialAdd
  <2>5. CASE DialStart(s)
    BY <2>5 DEF DialStart
  <2> HIDE DEF TypeOK, SessionInv
  <2> QED BY ONLY <1>3, <2>1, <2>2, <2>3, <2>4, <2>5 DEF DialNext
<1>4. ASSUME NEW s \in Session, LoopNext(s) PROVE SessionInv'
  <2> USE DEF LoopGoto, DialGoto
  <2>1. CASE LoopCancelled(s)
    BY <2>1 DEF LoopCancelled
  <2>2. CASE LoopGone(s)
    BY <2>2 DEF LoopGone
  <2>3. CASE LoopCheck(s)
    BY <2>3 DEF LoopCheck
  <2>4. CASE LoopTimer(s)
    BY <2>4 DEF LoopTimer
  <2>5. CASE LoopDialled(s)
    BY <2>5 DEF LoopDialled
  <2> HIDE DEF TypeOK, SessionInv
  <2> QED BY ONLY <1>4, <2>1, <2>2, <2>3, <2>4, <2>5 DEF LoopNext
<1>5. ASSUME NEW k \in ConnID, ConnLost(k) \/ ConnClosed(k) PROVE SessionInv'
  <2>1. CASE ConnLost(k)
    BY <2>1 DEF ConnLost, Closing
  <2>2. CASE ConnClosed(k)
    BY <2>2 DEF ConnClosed
  <2> HIDE DEF TypeOK, SessionInv
  <2> QED BY ONLY <1>5, <2>1, <2>2
<1>6. CASE UNCHANGED vars
  BY <1>6
<1> HIDE DEF TypeOK, SessionInv
<1> QED BY <1>1, <1>2, <1>3, <1>4, <1>5, <1>6 DEF Next

\* While there has been one session only, the live connection is c.conn and the
\* Stop that has set c.stopping holds it until it is closed.
LEMMA FirstSessionStep ==
    ASSUME IInv, [Next]_vars, sessions' <= 1
    PROVE  FirstSession'
<1>1. sessions \in {0, 1} /\ FirstSession
  <2>1. ASSUME NEW u \in Users,
               StartEnter(u) \/ StartNext(u) \/ StopEnter(u) \/ StopNext(u)
        PROVE  sessions' = sessions \/ sessions' = sessions + 1
    BY <2>1, ZenonT(30) DEF StartEnter, StartNext, StartPool, StartOk, StartFailed,
       StopEnter, StopNext, StopCancel, StopConn, StopConnDone, StopClear, StopPool
  <2>2. ASSUME NEW s \in Session, DialNext(s) \/ LoopNext(s) PROVE sessions' = sessions
    BY <2>2, Zenon DEF DialNext, DialConnect, DialError, DialCheck, DialAdd, DialStart,
       LoopNext, LoopCancelled, LoopGone, LoopCheck, LoopTimer, LoopDialled
  <2>3. ASSUME NEW k \in ConnID, ConnLost(k) \/ ConnClosed(k) PROVE sessions' = sessions
    BY <2>3 DEF ConnLost, ConnClosed
  <2>4. sessions' = sessions \/ sessions' = sessions + 1
    BY <2>1, <2>2, <2>3 DEF Next
  <2>5. sessions \in Nat
    BY ClientAssumption DEF IInv, TypeOK
  <2> QED BY <2>4, <2>5 DEF IInv
<1>2. /\ stopping \in {"no", "yes"} /\ connGone \in {0, 1} /\ conn \in ConnID \cup {Nil}
      /\ phase \in [ConnID -> Phase] /\ dialled \in [Session -> ConnID \cup {Nil}]
      /\ user \in [Users -> UserPC] /\ held \in [Users -> ConnID \cup {Nil}]
      /\ loop \in [Session -> LoopPC] /\ dial \in [Session -> DialPC]
  BY DEF IInv, TypeOK
<1>3. /\ sessions = 1 => 1 \in Session
      /\ \A u, v \in Users :
             user[u] \in {"pool", "dial"} /\ user[v] \in {"pool", "dial"} => u = v
      /\ \A u \in Users : user[u] \in {"pool", "dial"} =>
             mine[u] = 1 /\ sessions = 1 /\ loop[1] = "none"
      /\ \A u \in Users : user[u] = "pool" => dial[1] = "none"
      /\ \A s \in Session : loop[s] # "none" \/ dial[s] # "none" => s = 1 /\ sessions = 1
      /\ \A s \in Session : dial[s] # "none" => loop[s] \in {"none", "dial"}
      /\ \A s \in Session : dial[s] \in {"check", "add", "start"} => dialled[s] # Nil
      /\ \A k \in ConnID : k > connID => phase[k] = "none"
  <2>1. TypeOK /\ SessionInv
    BY DEF IInv
  <2>2. sessions = 1 => 1 \in Session
    BY <2>1, ClientAssumption DEF TypeOK
  <2>3. \A u \in Users : user[u] \in {"pool", "dial"} =>
             mine[u] = 1 /\ sessions = 1 /\ loop[1] = "none"
    BY <2>1, <1>1 DEF SessionInv
  <2>4. \A s \in Session : loop[s] # "none" \/ dial[s] # "none" => s = 1 /\ sessions = 1
    BY <2>1, <1>1, ClientAssumption DEF SessionInv
  <2>5. \A s \in Session : dial[s] # "none" => loop[s] \in {"none", "dial"}
    BY <2>1, <1>2 DEF SessionInv, LoopPC
  <2>6. \A u, v \in Users :
             user[u] \in {"pool", "dial"} /\ user[v] \in {"pool", "dial"} => u = v
    BY <2>1, <2>3 DEF SessionInv
  <2>7. \A u \in Users : user[u] = "pool" => dial[1] = "none"
    BY <2>1, <2>3 DEF SessionInv
  <2> QED BY <2>1, <2>2, <2>3, <2>4, <2>5, <2>6, <2>7 DEF SessionInv
<1> USE SMTT(20), <1>1, <1>2, <1>3 DEF FirstSession, NoneLive, Dialling
<1>4. ASSUME NEW u \in Users, StartEnter(u) \/ StartNext(u) PROVE FirstSession'
  <2> USE DEF UserGoto, DialGoto, LoopGoto
  <2>1. CASE StartEnter(u)
    <3>1. sessions = 0 /\ sessions' = 1 /\ 1 \in Session
      BY <2>1, ClientAssumption DEF StartEnter
    <3>2. /\ started' = "yes" /\ stopping' = "no" /\ UNCHANGED <<conn, connGone, phase>>
          /\ UNCHANGED <<loop, dial, dialled, held>> /\ user' = [user EXCEPT ![u] = "pool"]
      BY <2>1 DEF StartEnter
    <3>3. loop[1] = "none" /\ dial[1] = "none" /\ connGone = 0 /\ NoneLive
      BY <3>1
    <3> QED BY <3>1, <3>2, <3>3
  <2>2. CASE StartPool(u)
    BY <2>2 DEF StartPool
  <2>3. CASE StartOk(u)
    BY <2>3 DEF StartOk
  <2>4. CASE StartFailed(u)
    BY <2>4 DEF StartFailed
  <2> HIDE DEF FirstSession
  <2> QED BY ONLY <1>4, <2>1, <2>2, <2>3, <2>4 DEF StartNext
<1>5. ASSUME NEW u \in Users, StopEnter(u) \/ StopNext(u) PROVE FirstSession'
  <2> USE DEF UserGoto
  <2>1. CASE StopEnter(u)
    BY <2>1 DEF StopEnter
  <2>2. CASE StopConn(u)
    BY <2>2 DEF StopConn, Closing
  <2>3. CASE StopCancel(u)
    BY <2>3 DEF StopCancel
  <2>4. CASE StopConnDone(u)
    BY <2>4 DEF StopConnDone
  <2>5. CASE StopClear(u)
    BY <2>5 DEF StopClear
  <2>6. CASE StopPool(u)
    BY <2>6 DEF StopPool
  <2> HIDE DEF FirstSession
  <2> QED BY ONLY <1>5, <2>1, <2>2, <2>3, <2>4, <2>5, <2>6 DEF StopNext
<1> DEFINE Rest == UNCHANGED <<clientVars, userVars, conn, phase>>
<1>6. ASSUME Rest, sessions = 1,
             stopping = "no" /\ connGone' = 1 => NoneLive,
             stopping = "no" /\ Dialling(1)' => connGone' = 0 /\ NoneLive,
             dial'[1] \in {"add", "start"} => dialled'[1] = conn,
             ~(started = "no" /\ stopping = "no")
      PROVE  FirstSession'
  <2>1. /\ UNCHANGED <<started, stopping, sessions, user, held, conn, phase>>
        /\ sessions' = 1 /\ \A n \in 1..sessions' : n = 1
    BY ONLY <1>6
  <2>2. (\A n \in 1..sessions' : stopping' = "no" /\ Dialling(n)' => connGone' = 0 /\ NoneLive')
    BY ONLY <1>6, <2>1 DEF NoneLive
  <2>3. \A n \in 1..sessions' : dial'[n] \in {"add", "start"} => dialled'[n] = conn'
    BY ONLY <1>6, <2>1, ZenonT(30)
  <2>4. /\ \A k \in ConnID : phase'[k] = "live" => k = conn'
        /\ stopping' = "no" /\ connGone' = 1 => NoneLive'
    BY ONLY <1>1, <1>6, <2>1, ZenonT(30) DEF FirstSession, NoneLive
  <2>5. \A u \in Users : user'[u] \notin {"idle", "pool", "dial"} => stopping' = "yes"
    BY ONLY <1>1, <2>1 DEF FirstSession
  <2>6. stopping' = "yes" =>
            \/ \E u \in Users : user'[u] \in {"cancel", "stopConn"} /\ held'[u] = conn'
            \/ conn' = Nil \/ phase'[conn'] = "closed"
    BY ONLY <1>1, <2>1, Zenon DEF FirstSession
  <2>7. sessions' # 0 /\ ~(started' = "no" /\ stopping' = "no")
    BY ONLY <1>6, <2>1
  <2> QED BY ONLY <2>2, <2>3, <2>4, <2>5, <2>6, <2>7, Zenon DEF FirstSession
<1>7. ASSUME NEW s \in Session, loop[s] # "none" \/ dial[s] # "none"
      PROVE  /\ s = 1 /\ sessions = 1 /\ ~(started = "no" /\ stopping = "no")
             /\ stopping = "no" /\ connGone = 1 => NoneLive
             /\ stopping = "no" /\ Dialling(s) => connGone = 0 /\ NoneLive
             /\ dial[s] \in {"add", "start"} => dialled[s] = conn
             /\ dial[s] # "none" => loop[s] \in {"none", "dial"}
  <2>1. s = 1 /\ sessions = 1 /\ (dial[s] # "none" => loop[s] \in {"none", "dial"})
    BY ONLY <1>3, <1>7
  <2>2. s \in 1..sessions
    BY ONLY <2>1
  <2> QED BY ONLY SMTT(20), <1>1, <1>7, <2>1, <2>2 DEF FirstSession
<1> HIDE <1>1, <1>2, <1>3 DEF FirstSession
<1> USE SMTT(20)
<1>8. ASSUME NEW s \in Session, DialNext(s) PROVE FirstSession'
  <2> USE DEF DialGoto
  <2>0. dial[s] # "none" /\ dial \in [Session -> DialPC]
    BY <1>2, <1>8 DEF DialNext, DialConnect, DialError, DialCheck, DialAdd, DialStart
  <2> USE <1>7, <2>0
  <2>1. CASE DialConnect(s)
    <3>1. connID \in 0..MaxConns
      BY ONLY IInv DEF IInv, TypeOK
    <3>2. connID + 1 \in ConnID /\ phase[connID + 1] = "none"
      BY <2>1, <3>1, <1>3, ClientAssumption DEF DialConnect
    <3>3. /\ \A k \in ConnID : phase'[k] = "live" => phase[k] = "live"
          /\ \A k \in ConnID : phase[k] = "closed" => phase'[k] = "closed"
          /\ dial' = [dial EXCEPT ![s] = "check"]
          /\ UNCHANGED <<clientVars, userVars, loop, conn, connGone>>
      BY <2>1, <3>2, <1>2 DEF DialConnect
    <3>4. (Dialling(s)' => Dialling(s)) /\ dial'[s] = "check" /\ \A n \in 1..sessions : n = s
      BY <2>1, <3>3 DEF DialConnect
    <3>5. NoneLive => NoneLive'
      BY <3>3
    <3>6. UNCHANGED <<started, stopping, sessions, user, held, loop, conn, connGone>>
      BY <3>3
    <3>7. stopping = "yes" =>
              \/ \E u \in Users : user[u] \in {"cancel", "stopConn"} /\ held[u] = conn
              \/ conn = Nil \/ phase'[conn] = "closed"
      BY <1>1, <1>2, <3>3 DEF FirstSession
    <3>8. \A k \in ConnID : phase'[k] = "live" => k = conn
      BY <1>1, <3>3 DEF FirstSession
    <3> QED BY <1>1, <3>4, <3>5, <3>6, <3>7, <3>8 DEF FirstSession
  <2>2. CASE DialError(s)
    BY <2>2, <1>6 DEF DialError
  <2>3. CASE DialCheck(s)
    <3> USE DEF DialCheck
    <3>1. CASE MayDial
      <4>1. stopping = "no" /\ connGone = 0 /\ NoneLive
        BY <2>3, <3>1 DEF MayDial
      <4>2. dial' = [dial EXCEPT ![s] = "add"] /\ conn' = dialled[s]
        BY <2>3, <3>1
      <4>3. UNCHANGED <<clientVars, userVars, loop, dialled, connGone, phase>>
        BY <2>3
      <4> QED BY <1>1, <4>1, <4>2, <4>3 DEF FirstSession
    <3>2. CASE ~MayDial
      <4>1. stopping # "no"
        BY <3>2 DEF MayDial
      <4>2. dial' = [dial EXCEPT ![s] = "err"] /\ Rest
        BY <2>3, <3>2
      <4> QED BY <1>6, <4>1, <4>2
    <3> QED BY <3>1, <3>2
  <2>4. CASE DialAdd(s)
    BY <2>4, <1>6 DEF DialAdd
  <2>5. CASE DialStart(s)
    <3> USE DEF DialStart
    <3>1. dialled[s] = conn /\ conn \in ConnID
      BY <2>5, <1>2, <1>3
    <3>2. \A k \in ConnID : phase'[k] = "live" => k = conn
      BY <2>5, <3>1, <1>1, <1>2 DEF FirstSession
    <3>3. phase[conn] = "closed" => phase'[conn] = "closed"
      BY <2>5, <3>1, <1>2
    <3>4. stopping = "no" => connGone = 0
      BY <2>5
    <3>5. /\ UNCHANGED <<clientVars, userVars, loop, dialled, conn, connGone>>
          /\ dial' = [dial EXCEPT ![s] = "ok"]
      BY <2>5
    <3>6. ~Dialling(s)'
      BY <2>5, <3>5
    <3> QED BY <1>1, <3>1, <3>2, <3>3, <3>4, <3>5, <3>6 DEF FirstSession
  <2> QED BY ONLY <1>8, <2>1, <2>2, <2>3, <2>4, <2>5 DEF DialNext
<1>9. ASSUME NEW s \in Session, LoopNext(s) PROVE FirstSession'
  <2> USE DEF LoopGoto, DialGoto
  <2>0. loop[s] # "none" /\ loop \in [Session -> LoopPC] /\ dial \in [Session -> DialPC]
    BY <1>2, <1>9
       DEF LoopNext, LoopCancelled, LoopGone, LoopCheck, LoopTimer, LoopDialled
  <2> USE <1>6, <1>7, <2>0
  <2>1. CASE LoopCancelled(s)
    BY <2>1 DEF LoopCancelled
  <2>2. CASE LoopGone(s)
    BY <2>2 DEF LoopGone
  <2>3. CASE LoopCheck(s)
    BY <2>3 DEF LoopCheck
  <2>4. CASE LoopTimer(s)
    BY <2>4 DEF LoopTimer
  <2>5. CASE LoopDialled(s)
    BY <2>5 DEF LoopDialled
  <2> QED BY ONLY <1>9, <2>1, <2>2, <2>3, <2>4, <2>5 DEF LoopNext
<1> USE SMTT(20), <1>1, <1>2, <1>3 DEF FirstSession
<1>10. ASSUME NEW k \in ConnID, ConnLost(k) PROVE FirstSession'
  <2>1. k = conn /\ phase' = [phase EXCEPT ![k] = "closing"] /\ connGone' = 1
    BY <1>10 DEF ConnLost, Closing
  <2>2. NoneLive' /\ phase'[conn] # "live" /\ phase[conn] # "closed"
    BY <1>10, <2>1 DEF ConnLost
  <2>3. UNCHANGED <<clientVars, userVars, loopVars, conn>>
    BY <1>10 DEF ConnLost
  <2>4. \A s \in 1..sessions : stopping = "no" => ~Dialling(s)
    BY <1>10 DEF ConnLost
  <2>5. sessions = 1 /\ conn # Nil
    BY <1>10, <2>1, ClientAssumption DEF ConnLost
  <2>6. stopping = "yes" => \E u \in Users : user[u] \in {"cancel", "stopConn"} /\ held[u] = conn
    BY <2>2, <2>5
  <2> QED BY ONLY SMTT(20), <1>1, <2>1, <2>2, <2>3, <2>4, <2>5, <2>6
          DEF FirstSession, NoneLive, Dialling
<1>11. ASSUME NEW k \in ConnID, ConnClosed(k) PROVE FirstSession'
  <2>1. /\ \A j \in ConnID : phase'[j] = "live" => phase[j] = "live"
        /\ \A j \in ConnID : phase[j] = "closed" => phase'[j] = "closed"
        /\ UNCHANGED <<clientVars, userVars, loopVars, conn, connGone>>
    BY <1>11 DEF ConnClosed
  <2> QED BY <2>1
<1>12. CASE UNCHANGED vars
  BY <1>12
<1> HIDE <1>1, <1>2, <1>3 DEF FirstSession
<1> QED BY <1>4, <1>5, <1>8, <1>9, <1>10, <1>11, <1>12 DEF Next

\* No session has been opened in the initial state.
LEMMA InitIInv == Init => IInv
<1> SUFFICES ASSUME Init PROVE IInv
  OBVIOUS
<1>1. TypeOK
  BY ClientAssumption DEF Init, TypeOK, UserPC, LoopPC, DialPC, Phase
<1>2. CancelSet /\ SessionInv
  BY DEF Init, CancelSet, SessionInv
<1>3. FirstSession
  BY DEF Init, FirstSession, NoneLive, Dialling
<1> QED BY <1>1, <1>2, <1>3 DEF IInv

\* IInv is an inductive invariant of the client.
THEOREM InductiveInvariant == Spec => []IInv
<1>1. IInv /\ [Next]_vars => IInv'
  BY TypeStep, CancelStep, SessionStep, FirstSessionStep DEF IInv
<1> QED BY InitIInv, <1>1, PTL DEF Spec

\* The state of the client stays typed: its manager never holds more than one
\* connection, although dial and Stop work on it without c.mu.
THEOREM TypeCorrect == Spec => []TypeOK
BY InductiveInvariant, PTL DEF IInv

\* Stop never calls a nil cancel function, however the error path of one Start
\* overlaps with the next Start.
THEOREM CancelNeverNil == Spec => []CancelSet
BY InductiveInvariant, PTL DEF IInv

\* A client started once and then stopped has no live connection left, wherever
\* Start, dial and the loop were when Stop came.
THEOREM NoReconnectAfterStop == Spec => []DisconnectedAfterStop
<1>1. ASSUME IInv, sessions <= 1, started = "no", \A u \in Users : user[u] = "idle",
             NEW k \in ConnID, phase[k] = "live"
      PROVE  FALSE
  <2>1. FirstSession /\ stopping \in {"no", "yes"} /\ sessions \in Nat
    <3>1. TypeOK
      BY <1>1 DEF IInv
    <3> QED BY <1>1, <3>1, ClientAssumption DEF IInv, TypeOK
  <2>2. k = conn
    BY <1>1, <2>1 DEF FirstSession
  <2>3. CASE stopping = "yes"
    BY <1>1, <2>1, <2>2, <2>3 DEF FirstSession
  <2>4. CASE stopping = "no" /\ sessions = 0
    BY <1>1, <2>1, <2>4 DEF FirstSession, NoneLive
  <2>5. CASE stopping = "no" /\ sessions = 1
    <3>1. loop[1] = "none" /\ dial[1] = "none"
      BY <1>1, <2>1, <2>5 DEF FirstSession
    <3> QED BY <1>1, <2>1, <2>5, <3>1 DEF FirstSession, Dialling, NoneLive
  <2> QED BY <1>1, <2>1, <2>3, <2>4, <2>5
<1>2. IInv => DisconnectedAfterStop
  BY <1>1 DEF DisconnectedAfterStop
<1> QED BY InductiveInvariant, <1>2, PTL
=============================================================================
