---------------------------- MODULE ServerProofs ----------------------------
(***************************************************************************)
(* Safety of the server, for any number of peers, of callers of Run,       *)
(* Shutdown and AttachMetrics, and any limit of the ConnManager; then of   *)
(* the management tools, which only look and stop: a server under any      *)
(* number of tool calls behaves as module Server says.                     *)
(***************************************************************************)
EXTENDS Mcp, FiniteSetTheorems, TLAPS

\* The variable groups of the UNCHANGED clauses.
USE DEF vars, runVars, shutVars, drainVars, acceptVars, metrics, attachVars,
        connOther, acceptOther, attachOther

\* Run, Shutdown and AttachMetrics touch no connection: neither its phase, nor
\* the manager, nor the counters.
LEMMA NoConnStep ==
    ASSUME \/ \E r \in Runners : RunEnter(r) \/ RunNext(r)
           \/ Cancel
           \/ \E x \in Callers : ShutEnter(x) \/ ShutStep(x) \/ ShutExpired(x)
           \/ \E a \in Attachers : AttachListen(a) \/ AttachStore(a)
           \/ UNCHANGED vars
    PROVE  UNCHANGED <<conn, connMgr, metrics, handling, toStop, stopping, late>>
BY ZenonT(30) DEF RunEnter, RunNext, RunListen, RunStore, RunPool, RunCancelled,
   RunShutdown, RunReturn, Cancel, ShutEnter, ShutStep, ShutClose, ShutDrained, ShutPool,
   ShutExpired, AttachListen, AttachStore

\* ClearConn, the connections and acceptLoop touch neither Run, Shutdown,
\* the listener, the pool nor AttachMetrics.
LEMMA ServerFrame ==
    ASSUME \/ ClearNext
           \/ \E c \in Clients : Accept(c) \/ ConnStep(c)
           \/ AcceptNext
    PROVE  UNCHANGED <<runVars, listener, lsock, shutVars, pool, attachVars>>
BY Zenon DEF ClearNext, ClearSnapshot, ClearDone, ClearStop, ClearStopped, Accept,
   ConnStep, ConnClose, ConnStuck, ConnClosed, ConnBlocked, Remove, AcceptNext, AcceptEnd,
   HandleCount, HandleAdd, RejectConn

\* Adding a connection below the limit keeps the manager finite and within it,
\* and removing one does too.
LEMMA ManagerSize ==
    ASSUME IsFiniteSet(connMgr), NEW c
    PROVE  /\ IsFiniteSet(connMgr \cup {c}) /\ IsFiniteSet(connMgr \ {c})
           /\ Cardinality(connMgr) \in Nat
           /\ Cardinality(connMgr \cup {c}) \in {Cardinality(connMgr), Cardinality(connMgr) + 1}
           /\ Cardinality(connMgr \ {c}) \in Nat
           /\ Cardinality(connMgr \ {c}) <= Cardinality(connMgr)
<1>1. /\ IsFiniteSet(connMgr \cup {c}) /\ IsFiniteSet(connMgr \ {c})
      /\ Cardinality(connMgr) \in Nat
  BY FS_AddElement, FS_RemoveElement, FS_CardinalityType, Zenon
<1>2. Cardinality(connMgr \cup {c}) \in {Cardinality(connMgr), Cardinality(connMgr) + 1}
  BY FS_AddElement
<1>3. Cardinality(connMgr \ {c}) \in {Cardinality(connMgr), Cardinality(connMgr) - 1}
  BY FS_RemoveElement
<1>4. Cardinality(connMgr \ {c}) \in Nat
  BY <1>1, FS_CardinalityType
<1> QED BY <1>1, <1>2, <1>3, <1>4

\* Every action keeps the variables in their types, and Add keeps the manager
\* within MaxConn.
LEMMA TypeStep ==
    ASSUME TypeOK, IsFiniteSet(connMgr), [Next]_vars
    PROVE  TypeOK'
<1> USE ServerAssumption
    DEF TypeOK, RunPC, ShutPC, DrainPC, AcceptPC, AttachPC, Phase, Callers
<1>1. ASSUME NEW r \in Runners, RunEnter(r) \/ RunNext(r) PROVE TypeOK'
  <2> USE DEF RunGoto
  <2>1. CASE RunEnter(r)
    BY <2>1 DEF RunEnter
  <2>2. CASE RunListen(r)
    BY <2>2 DEF RunListen
  <2>3. CASE RunStore(r)
    BY <2>3 DEF RunStore
  <2>4. CASE RunPool(r)
    BY <2>4 DEF RunPool
  <2>5. CASE RunCancelled(r) \/ RunShutdown(r) \/ RunReturn(r)
    BY <2>5 DEF RunCancelled, RunShutdown, RunReturn
  <2> QED BY <1>1, <2>1, <2>2, <2>3, <2>4, <2>5, Zenon DEF RunNext
<1>2. CASE Cancel
  BY <1>2 DEF Cancel
<1>3. ASSUME NEW x \in Callers, ShutEnter(x) \/ ShutStep(x) \/ ShutExpired(x)
      PROVE  TypeOK'
  <2> USE DEF ShutGoto
  <2>1. CASE ShutEnter(x)
    BY <2>1 DEF ShutEnter
  <2>2. CASE ShutClose(x)
    BY <2>2 DEF ShutClose
  <2>3. CASE ShutDrained(x) \/ ShutExpired(x)
    BY <2>3 DEF ShutDrained, ShutExpired
  <2>4. CASE ShutPool(x)
    BY <2>4 DEF ShutPool
  <2> QED BY <1>3, <2>1, <2>2, <2>3, <2>4, Zenon DEF ShutStep
<1>4. CASE ClearNext
  <2>1. CASE ClearSnapshot
    <3>1. Cardinality(connMgr') = 0
      BY <2>1, FS_EmptySet DEF ClearSnapshot
    <3> QED BY <2>1, <3>1 DEF ClearSnapshot
  <2>2. CASE ClearDone
    BY <2>2 DEF ClearDone
  <2>3. ASSUME NEW c \in Clients, ClearStop(c) \/ ClearStopped(c) PROVE TypeOK'
    BY <2>3 DEF ClearStop, ClearStopped
  <2> QED BY <1>4, <2>1, <2>2, <2>3 DEF ClearNext
<1>5. ASSUME NEW c \in Clients, Accept(c) PROVE TypeOK'
  BY <1>5 DEF Accept
<1>6. ASSUME NEW c \in Clients, ConnClose(c) \/ ConnStuck(c) PROVE TypeOK'
  BY <1>6 DEF ConnClose, ConnStuck
<1>7. ASSUME NEW c \in Clients, ConnClosed(c) \/ ConnBlocked(c) PROVE TypeOK'
  <2>1. connMgr' = connMgr \ {c} /\ Cardinality(connMgr \ {c}) \in Nat
        /\ Cardinality(connMgr \ {c}) <= Cardinality(connMgr)
        /\ Cardinality(connMgr) \in Nat
    BY ONLY <1>7, ManagerSize, IsFiniteSet(connMgr), Zenon DEF ConnClosed,
       ConnBlocked, Remove
  <2> QED BY <1>7, <2>1 DEF ConnClosed, ConnBlocked
<1>8. CASE AcceptEnd
  BY <1>8 DEF AcceptEnd
<1>9. CASE HandleCount
  BY <1>9 DEF HandleCount
<1>10. ASSUME NEW c \in Clients, HandleAdd(c) PROVE TypeOK'
  <2>1. CASE Full
    BY <1>10, <2>1 DEF HandleAdd
  <2>2. CASE ~Full
    <3>1. /\ connMgr' = connMgr \cup {c} /\ Cardinality(connMgr) \in Nat
          /\ Cardinality(connMgr \cup {c})
                 \in {Cardinality(connMgr), Cardinality(connMgr) + 1}
      BY ONLY <1>10, <2>2, ManagerSize, IsFiniteSet(connMgr), Zenon DEF HandleAdd
    <3>2. MaxConn > 0 => Cardinality(connMgr') <= MaxConn
      BY ONLY <2>2, <3>1, ServerAssumption DEF Full
    <3> QED BY <1>10, <2>2, <3>1, <3>2 DEF HandleAdd
  <2> QED BY <2>1, <2>2
<1>11. ASSUME NEW c \in Clients, RejectConn(c) PROVE TypeOK'
  BY <1>11 DEF RejectConn
<1>12. ASSUME NEW a \in Attachers, AttachListen(a) \/ AttachStore(a) PROVE TypeOK'
  BY <1>12 DEF AttachListen, AttachStore
<1>13. CASE UNCHANGED vars
  BY <1>13
<1> QED
  BY <1>1, <1>2, <1>3, <1>4, <1>5, <1>6, <1>7, <1>8, <1>9, <1>10, <1>11, <1>12, <1>13,
     ZenonT(30)
     DEF Next, ConnStep, AcceptNext

-----------------------------------------------------------------------------
(* The inductive invariant, one lemma per part.                            *)

\* acceptLoop does not come to life without Run.
LEMMA AcceptorStep ==
    ASSUME \/ ClearNext
           \/ \E c \in Clients : Accept(c) \/ ConnStep(c)
           \/ AcceptNext,
           acceptor = "none"
    PROVE  acceptor' = "none"
BY ZenonT(30) DEF ClearNext, ClearSnapshot, ClearDone, ClearStop, ClearStopped, Accept,
   ConnStep, ConnClose, ConnStuck, ConnClosed, ConnBlocked, Remove, AcceptNext, AcceptEnd,
   HandleCount, HandleAdd, RejectConn

\* started keeps every other Run out until a failed listen resets it.
LEMMA RunInvStep ==
    ASSUME TypeOK, RunInv, [Next]_vars
    PROVE  RunInv'
<1> USE DEF TypeOK, RunInv
<1>1. ASSUME NEW r \in Runners, RunEnter(r) \/ RunNext(r) PROVE RunInv'
  <2> USE DEF RunGoto
  <2>1. CASE RunEnter(r)
    BY <2>1 DEF RunEnter
  <2>2. CASE RunListen(r)
    BY <2>2 DEF RunListen
  <2>3. CASE RunStore(r)
    BY <2>3 DEF RunStore
  <2>4. CASE RunPool(r)
    BY <2>4 DEF RunPool
  <2>5. CASE RunCancelled(r) \/ RunShutdown(r) \/ RunReturn(r)
    BY <2>5, ZenonT(30) DEF RunCancelled, RunShutdown, RunReturn
  <2> QED BY <1>1, <2>1, <2>2, <2>3, <2>4, <2>5, ZenonT(30) DEF RunNext
<1>2. CASE Cancel
  BY <1>2 DEF Cancel
<1>3. ASSUME NEW x \in Callers, ShutEnter(x) \/ ShutStep(x) \/ ShutExpired(x)
      PROVE  RunInv'
  <2>1. /\ UNCHANGED <<runVars, listener, acceptor>>
        /\ lnTaken' \in {lnTaken, listener}
    BY <1>3, Zenon DEF ShutEnter, ShutStep, ShutClose, ShutDrained, ShutPool, ShutExpired
  <2> QED BY <2>1
<1>4. ASSUME \/ ClearNext
             \/ \E c \in Clients : Accept(c) \/ ConnStep(c)
             \/ AcceptNext
      PROVE  RunInv'
  BY ONLY <1>4, ServerFrame, AcceptorStep, RunInv DEF RunInv
<1>5. ASSUME NEW a \in Attachers, AttachListen(a) \/ AttachStore(a) PROVE RunInv'
  BY <1>5 DEF AttachListen, AttachStore
<1>6. CASE UNCHANGED vars
  BY <1>6
<1> QED BY <1>1, <1>2, <1>3, <1>4, <1>5, <1>6, ZenonT(30) DEF Next

\* acceptLoop handles one connection after the other.
LEMMA AcceptStep ==
    ASSUME TypeOK, RunInv, AcceptInv, [Next]_vars
    PROVE  AcceptInv'
<1> USE DEF TypeOK, AcceptInv, Open
<1>1. ASSUME NEW r \in Runners, RunEnter(r) \/ RunNext(r) PROVE AcceptInv'
  <2>1. UNCHANGED <<conn, connMgr, handling>>
    BY <1>1, NoConnStep
  <2>2. acceptor' = acceptor \/ (acceptor = "none" /\ acceptor' = "accept")
    BY <1>1, Zenon DEF RunEnter, RunNext, RunListen, RunStore, RunPool, RunCancelled,
       RunShutdown, RunReturn, RunInv
  <2> QED BY <2>1, <2>2
<1>2. ASSUME \/ Cancel
             \/ \E x \in Callers : ShutEnter(x) \/ ShutStep(x) \/ ShutExpired(x)
             \/ \E a \in Attachers : AttachListen(a) \/ AttachStore(a)
             \/ UNCHANGED vars
      PROVE  AcceptInv'
  <2>1. UNCHANGED <<conn, connMgr, handling>>
    BY ONLY <1>2, NoConnStep
  <2>2. UNCHANGED acceptor
    BY <1>2, ZenonT(30) DEF Cancel, ShutEnter, ShutStep, ShutClose, ShutDrained, ShutPool,
       ShutExpired, AttachListen, AttachStore
  <2> QED BY <2>1, <2>2
<1>3. CASE ClearNext
  BY <1>3, Zenon DEF ClearNext, ClearSnapshot, ClearDone, ClearStop, ClearStopped
<1>4. ASSUME NEW c \in Clients, Accept(c) PROVE AcceptInv'
  BY <1>4 DEF Accept
<1>5. ASSUME NEW c \in Clients, ConnStep(c) PROVE AcceptInv'
  BY <1>5 DEF ConnStep, ConnClose, ConnStuck, ConnClosed, ConnBlocked, Remove
<1>6. CASE AcceptEnd \/ HandleCount
  BY <1>6, Zenon DEF AcceptEnd, HandleCount
<1>7. ASSUME NEW c \in Clients, HandleAdd(c) PROVE AcceptInv'
  BY <1>7 DEF HandleAdd
<1>8. ASSUME NEW c \in Clients, RejectConn(c) PROVE AcceptInv'
  BY <1>8 DEF RejectConn
<1> QED BY <1>1, <1>2, <1>3, <1>4, <1>5, <1>6, <1>7, <1>8, ZenonT(30) DEF Next, AcceptNext

\* The counted connections after one more has been added, or one has begun to close.
LEMMA ActiveSize ==
    ASSUME IsFiniteSet(Active), NEW c
    PROVE  /\ IsFiniteSet(Active \cup {c}) /\ IsFiniteSet(Active \ {c})
           /\ Cardinality(Active) \in Nat
           /\ c \notin Active => Cardinality(Active \cup {c}) = Cardinality(Active) + 1
           /\ c \in Active => Cardinality(Active \ {c}) = Cardinality(Active) - 1
BY FS_AddElement, FS_RemoveElement, FS_CardinalityType

\* The counters follow the connections.
LEMMA CountStep ==
    ASSUME TypeOK, RunInv, AcceptInv, CountInv, [Next]_vars
    PROVE  CountInv'
<1>1. ASSUME NEW r \in Runners, RunEnter(r) \/ RunNext(r) PROVE CountInv'
  <2>1. UNCHANGED <<conn, connMgr, metrics>>
    BY ONLY <1>1, NoConnStep
  <2>2. acceptor' = acceptor \/ (acceptor = "none" /\ acceptor' = "accept")
    BY <1>1, Zenon DEF RunEnter, RunNext, RunListen, RunStore, RunPool, RunCancelled,
       RunShutdown, RunReturn, RunInv
  <2>3. Active' = Active
    BY <2>1 DEF Active
  <2> QED BY <2>1, <2>2, <2>3 DEF CountInv
<1>2. ASSUME \/ Cancel
             \/ \E x \in Callers : ShutEnter(x) \/ ShutStep(x) \/ ShutExpired(x)
             \/ \E a \in Attachers : AttachListen(a) \/ AttachStore(a)
             \/ UNCHANGED vars
      PROVE  CountInv'
  <2>1. UNCHANGED <<conn, connMgr, metrics>>
    BY ONLY <1>2, NoConnStep
  <2>2. UNCHANGED acceptor
    BY <1>2, Zenon DEF Cancel, ShutEnter, ShutStep, ShutClose, ShutDrained, ShutPool,
       ShutExpired, AttachListen, AttachStore
  <2>3. Active' = Active
    BY <2>1 DEF Active
  <2> QED BY <2>1, <2>2, <2>3 DEF CountInv
<1>3. CASE ClearNext
  <2>1. UNCHANGED <<conn, metrics, acceptor>> /\ connMgr' \in {connMgr, {}}
    BY <1>3, Zenon DEF ClearNext, ClearSnapshot, ClearDone, ClearStop, ClearStopped
  <2>2. Active' = Active
    BY <2>1 DEF Active
  <2>3. IsFiniteSet({})
    BY FS_EmptySet
  <2> QED BY <2>1, <2>2, <2>3 DEF CountInv
<1>4. ASSUME NEW c \in Clients, Accept(c) PROVE CountInv'
  <2>1. Active' = Active
    BY <1>4 DEF Accept, Active, TypeOK
  <2> QED BY <1>4, <2>1 DEF Accept, CountInv
<1>5. ASSUME NEW c \in Clients, ConnClose(c) PROVE CountInv'
  <2>1. Active' = Active \ {c} /\ c \in Active
    BY <1>5 DEF ConnClose, Active, TypeOK
  <2>2. IsFiniteSet(Active') /\ Cardinality(Active') = Cardinality(Active) - 1
        /\ Cardinality(Active) \in Nat
    BY ONLY <2>1, ActiveSize, CountInv, ZenonT(30) DEF CountInv
  <2>3. UNCHANGED <<connMgr, acceptor, connsTotal>> /\ connsActive' = connsActive - 1
        /\ connsClosed' = connsClosed + 1
    BY <1>5 DEF ConnClose
  <2> QED BY <2>2, <2>3 DEF CountInv, TypeOK
<1>6. ASSUME NEW c \in Clients, ConnClosed(c) \/ ConnBlocked(c) PROVE CountInv'
  <2>1. Active' = Active
    BY <1>6 DEF ConnClosed, ConnBlocked, Active, TypeOK
  <2>2. IsFiniteSet(connMgr')
    BY ONLY <1>6, ManagerSize, CountInv, ZenonT(30) DEF ConnClosed, ConnBlocked,
       Remove, CountInv
  <2> QED BY <1>6, <2>1, <2>2 DEF ConnClosed, ConnBlocked, CountInv
<1>7. CASE AcceptEnd
  <2>1. Active' = Active
    BY <1>7 DEF AcceptEnd, Active
  <2> QED BY <1>7, <2>1 DEF AcceptEnd, CountInv
<1>8. CASE HandleCount
  <2>1. Active' = Active
    BY <1>8 DEF HandleCount, Active
  <2> QED BY <1>8, <2>1 DEF HandleCount, CountInv, TypeOK
<1>9. ASSUME NEW c \in Clients, HandleAdd(c) PROVE CountInv'
  <2>1. CASE Full
    <3>1. UNCHANGED <<conn, connMgr, metrics>> /\ acceptor = "add" /\ acceptor' = "reject"
      BY <1>9, <2>1 DEF HandleAdd
    <3>2. Active' = Active
      BY <3>1 DEF Active
    <3> QED BY <3>1, <3>2 DEF CountInv
  <2>2. CASE ~Full
    <3>1. /\ UNCHANGED metrics /\ connMgr' = connMgr \cup {c}
          /\ acceptor = "add" /\ acceptor' = "count"
      BY <1>9, <2>2 DEF HandleAdd
    <3>2. Active' = Active \cup {c} /\ c \notin Active
      <4>1. conn[c] = "accepted" /\ conn' = [conn EXCEPT ![c] = "live"]
        BY <1>9, <2>2 DEF HandleAdd, AcceptInv
      <4> QED BY <4>1 DEF Active, TypeOK
    <3>3. /\ IsFiniteSet(Active') /\ IsFiniteSet(connMgr')
          /\ Cardinality(Active') = Cardinality(Active) + 1
          /\ Cardinality(Active) \in Nat
      BY ONLY <3>1, <3>2, ActiveSize, ManagerSize, CountInv, ZenonT(30) DEF CountInv
    <3> QED BY <3>1, <3>3 DEF CountInv, TypeOK
  <2> QED BY <2>1, <2>2
<1>10. ASSUME NEW c \in Clients, RejectConn(c) PROVE CountInv'
  <2>1. Active' = Active
    BY <1>10, ZenonT(30) DEF RejectConn, AcceptInv, Active, TypeOK
  <2> QED BY <1>10, <2>1, Zenon DEF RejectConn, CountInv
<1>11. ASSUME NEW c \in Clients, ConnStuck(c) PROVE CountInv'
  <2>1. Active' = Active
    BY <1>11 DEF ConnStuck, Active, TypeOK
  <2> QED BY <1>11, <2>1 DEF ConnStuck, CountInv
<1> QED BY <1>1, <1>2, <1>3, <1>4, <1>5, <1>6, <1>7, <1>8, <1>9, <1>10, <1>11
        DEF Next, ConnStep, AcceptNext

\* The closed flag lets one Shutdown through, and ClearConn is its own.
LEMMA ShutInvStep ==
    ASSUME TypeOK, ShutInv, [Next]_vars
    PROVE  ShutInv'
<1> USE DEF TypeOK, ShutInv, Callers
<1>1. ASSUME \/ \E r \in Runners : RunEnter(r) \/ RunNext(r)
             \/ Cancel
             \/ \E c \in Clients : Accept(c) \/ ConnStep(c)
             \/ AcceptNext
             \/ \E a \in Attachers : AttachListen(a) \/ AttachStore(a)
             \/ UNCHANGED vars
      PROVE  ShutInv'
  <2>1. UNCHANGED <<shutVars, drainVars>>
    BY <1>1, ZenonT(30) DEF RunEnter, RunNext, RunListen, RunStore, RunPool, RunCancelled,
       RunShutdown, RunReturn, Cancel, Accept, ConnStep, ConnClose, ConnStuck,
       ConnClosed, ConnBlocked, Remove, AcceptNext,
       AcceptEnd, HandleCount, HandleAdd, RejectConn, AttachListen, AttachStore
  <2> QED BY <2>1, ZenonT(30)
<1>2. ASSUME NEW x \in Callers, ShutEnter(x) \/ ShutStep(x) \/ ShutExpired(x)
      PROVE  ShutInv'
  <2> USE DEF ShutGoto
  <2>1. CASE ShutEnter(x)
    BY <2>1, ZenonT(30) DEF ShutEnter
  <2>2. CASE ShutClose(x)
    BY <2>2, ZenonT(30) DEF ShutClose
  <2>3. CASE ShutDrained(x)
    BY <2>3, ZenonT(30) DEF ShutDrained
  <2>4. CASE ShutExpired(x)
    BY <2>4, ZenonT(30) DEF ShutExpired
  <2>5. CASE ShutPool(x)
    BY <2>5, ZenonT(30) DEF ShutPool
  <2> QED BY <1>2, <2>1, <2>2, <2>3, <2>4, <2>5, ZenonT(30) DEF ShutStep
<1>3. CASE ClearNext
  <2>1. CASE ClearSnapshot
    BY <2>1, ZenonT(30) DEF ClearSnapshot
  <2>2. CASE ClearDone
    BY <2>2, ZenonT(30) DEF ClearDone
  <2>3. ASSUME NEW c \in Clients, ClearStop(c) PROVE ShutInv'
    BY <2>3, ZenonT(30) DEF ClearStop
  <2>4. ASSUME NEW c \in Clients, ClearStopped(c) PROVE ShutInv'
    BY <2>4, ZenonT(30) DEF ClearStopped
  <2> QED BY <1>3, <2>1, <2>2, <2>3, <2>4, ZenonT(30) DEF ClearNext
<1> QED BY <1>1, <1>2, <1>3, ZenonT(30) DEF Next

\* A connection leaves the manager when it is closed or when ClearConn takes it,
\* and ClearConn keeps it in hand until it is closed.
LEMMA OrphanStep ==
    ASSUME TypeOK, ShutInv, NoOrphan, [Next]_vars
    PROVE  NoOrphan'
<1> USE DEF NoOrphan, Open, TypeOK
<1>1. ASSUME \/ \E r \in Runners : RunEnter(r) \/ RunNext(r)
             \/ Cancel
             \/ \E x \in Callers : ShutEnter(x) \/ ShutStep(x) \/ ShutExpired(x)
             \/ \E a \in Attachers : AttachListen(a) \/ AttachStore(a)
             \/ UNCHANGED vars
      PROVE  NoOrphan'
  <2>1. UNCHANGED <<conn, connMgr, toStop, stopping>>
    BY ONLY <1>1, NoConnStep
  <2> QED BY <2>1
<1>2. CASE ClearNext
  <2>1. CASE ClearSnapshot
    BY <2>1, ZenonT(30) DEF ClearSnapshot, ShutInv
  <2>2. CASE ClearDone
    BY <2>2, ZenonT(30) DEF ClearDone
  <2>3. ASSUME NEW c \in Clients, ClearStop(c) PROVE NoOrphan'
    BY <2>3, ZenonT(30) DEF ClearStop
  <2>4. ASSUME NEW c \in Clients, ClearStopped(c) PROVE NoOrphan'
    BY <2>4, ZenonT(30) DEF ClearStopped, StopReturned, ShutInv
  <2> QED BY <1>2, <2>1, <2>2, <2>3, <2>4, ZenonT(30) DEF ClearNext
<1>3. ASSUME NEW c \in Clients, Accept(c) PROVE NoOrphan'
  BY <1>3, ZenonT(30) DEF Accept
<1>4. ASSUME NEW c \in Clients, ConnClose(c) \/ ConnStuck(c) PROVE NoOrphan'
  BY <1>4, ZenonT(30) DEF ConnClose, ConnStuck
<1>5. ASSUME NEW c \in Clients, ConnClosed(c) \/ ConnBlocked(c) PROVE NoOrphan'
  BY <1>5, ZenonT(30) DEF ConnClosed, ConnBlocked, Remove
<1>6. CASE AcceptEnd \/ HandleCount
  BY <1>6, ZenonT(30) DEF AcceptEnd, HandleCount
<1>7. ASSUME NEW c \in Clients, HandleAdd(c) PROVE NoOrphan'
  BY <1>7, ZenonT(30) DEF HandleAdd
<1>8. ASSUME NEW c \in Clients, RejectConn(c) PROVE NoOrphan'
  BY <1>8, ZenonT(30) DEF RejectConn
<1> QED BY <1>1, <1>2, <1>3, <1>4, <1>5, <1>6, <1>7, <1>8, ZenonT(30) DEF Next, ConnStep,
           AcceptNext

\* A Shutdown that has found the listener leaves nothing open but what was late.
LEMMA DrainStep ==
    ASSUME TypeOK, RunInv, AcceptInv, ShutInv, NoOrphan, DrainInv, [Next]_vars
    PROVE  DrainInv'
<1> USE DEF DrainInv, Open, TypeOK
<1>1. ASSUME NEW r \in Runners, RunEnter(r) \/ RunNext(r) PROVE DrainInv'
  <2>1. UNCHANGED <<conn, handling, drainVars, lnTaken>>
    BY <1>1, ZenonT(30) DEF RunEnter, RunNext, RunListen, RunStore, RunPool, RunCancelled,
       RunShutdown, RunReturn
  <2>2. lnTaken = "set" => lsock' = lsock
    BY <1>1, ZenonT(30) DEF RunEnter, RunNext, RunListen, RunStore, RunPool, RunCancelled,
       RunShutdown, RunReturn, RunInv
  <2>3. acceptor' \in {acceptor, "accept"}
    BY <1>1, ZenonT(30) DEF RunEnter, RunNext, RunListen, RunStore, RunPool, RunCancelled,
       RunShutdown, RunReturn
  <2> QED BY <2>1, <2>2, <2>3, ZenonT(30)
<1>2. ASSUME NEW x \in Callers, ShutEnter(x) \/ ShutStep(x) \/ ShutExpired(x)
      PROVE  DrainInv'
  <2>1. CASE ShutEnter(x)
    BY <2>1, ZenonT(30) DEF ShutEnter, ShutInv
  <2>2. CASE ShutClose(x)
    BY <2>2, ZenonT(30) DEF ShutClose
  <2>3. CASE ShutDrained(x) \/ ShutExpired(x) \/ ShutPool(x)
    BY <2>3, ZenonT(30) DEF ShutDrained, ShutExpired, ShutPool
  <2> QED BY <1>2, <2>1, <2>2, <2>3, ZenonT(30) DEF ShutStep
<1>3. CASE ClearNext
  <2>1. CASE ClearSnapshot
    <3>1. /\ toStop' = connMgr /\ late' = handling \ connMgr /\ drain = "snapshot"
          /\ UNCHANGED <<lnTaken, lsock, conn, stopping, acceptor, handling>>
      BY <2>1, ZenonT(30) DEF ClearSnapshot
    <3>2. \A c, d \in late' : c = d
      BY <3>1, ZenonT(30) DEF AcceptInv
    <3>3. \A c \in Clients : Open(c)' => c \in toStop' \cup stopping'
      BY <3>1, ZenonT(30) DEF ShutInv, NoOrphan
    <3>4. acceptor' = "add" => handling' \subseteq late'
      BY <3>1, ZenonT(30) DEF AcceptInv
    <3> QED BY <3>1, <3>2, <3>3, <3>4, ZenonT(30)
  <2>2. CASE ClearDone
    BY <2>2, ZenonT(30) DEF ClearDone
  <2>3. ASSUME NEW c \in Clients, ClearStop(c) PROVE DrainInv'
    BY <2>3, ZenonT(30) DEF ClearStop
  <2>4. ASSUME NEW c \in Clients, ClearStopped(c) PROVE DrainInv'
    BY <2>4, ZenonT(30) DEF ClearStopped, StopReturned, ShutInv
  <2> QED BY <1>3, <2>1, <2>2, <2>3, <2>4, ZenonT(30) DEF ClearNext
<1>4. ASSUME NEW c \in Clients, Accept(c) PROVE DrainInv'
  BY <1>4, ZenonT(30) DEF Accept
<1>5. ASSUME NEW c \in Clients, ConnStep(c) PROVE DrainInv'
  <2>1. UNCHANGED <<connOther, drainVars>>
    BY <1>5, ZenonT(30) DEF ConnStep, ConnClose, ConnStuck, ConnClosed, ConnBlocked, Remove
  <2>2. \A d \in Clients : Open(d)' => Open(d)
    <3>1. conn[c] \in {"live", "closing"} /\ \E p : conn' = [conn EXCEPT ![c] = p]
      BY <1>5, ZenonT(30) DEF ConnStep, ConnClose, ConnStuck, ConnClosed, ConnBlocked, Remove
    <3>2. DOMAIN conn = Clients
      BY Zenon
    <3> QED BY ONLY <3>1, <3>2 DEF Open
  <2> HIDE DEF Open
  <2> QED BY <2>1, <2>2, ZenonT(30) DEF connOther, drainVars
<1>6. CASE AcceptEnd \/ HandleCount
  BY <1>6, ZenonT(30) DEF AcceptEnd, HandleCount
<1>7. ASSUME NEW c \in Clients, HandleAdd(c) PROVE DrainInv'
  BY <1>7 DEF HandleAdd
<1>8. ASSUME NEW c \in Clients, RejectConn(c) PROVE DrainInv'
  BY <1>8, ZenonT(30) DEF RejectConn
<1>9. ASSUME \/ Cancel
             \/ \E a \in Attachers : AttachListen(a) \/ AttachStore(a)
             \/ UNCHANGED vars
      PROVE  DrainInv'
  BY <1>9, ZenonT(30) DEF Cancel, AttachListen, AttachStore
<1> QED BY <1>1, <1>2, <1>3, <1>4, <1>5, <1>6, <1>7, <1>8, <1>9, ZenonT(30) DEF Next,
           AcceptNext

\* A metrics listener passes from AttachMetrics to the server to Shutdown, or is
\* closed by the one that has it.
LEMMA MetricsStep ==
    ASSUME TypeOK, ShutInv, MetricsOwned, [Next]_vars
    PROVE  MetricsOwned'
<1> USE DEF MetricsOwned, TypeOK
<1>1. ASSUME \/ \E r \in Runners : RunEnter(r) \/ RunNext(r)
             \/ Cancel
             \/ ClearNext
             \/ \E c \in Clients : Accept(c) \/ ConnStep(c)
             \/ AcceptNext
             \/ UNCHANGED vars
      PROVE  MetricsOwned'
  <2>1. UNCHANGED <<metricsTaken, attachVars>>
    BY <1>1, ServerFrame, ZenonT(30) DEF RunEnter, RunNext, RunListen, RunStore, RunPool,
       RunCancelled, RunShutdown, RunReturn, Cancel
  <2> QED BY <2>1, ZenonT(30)
<1>2. ASSUME NEW x \in Callers, ShutEnter(x) \/ ShutStep(x) \/ ShutExpired(x)
      PROVE  MetricsOwned'
  BY <1>2, ZenonT(30) DEF ShutEnter, ShutStep, ShutClose, ShutDrained, ShutPool,
     ShutExpired, ShutInv
<1>3. ASSUME NEW a \in Attachers, AttachListen(a) PROVE MetricsOwned'
  BY <1>3 DEF AttachListen
<1>4. ASSUME NEW a \in Attachers, AttachStore(a) PROVE MetricsOwned'
  BY <1>4, Zenon DEF AttachStore
<1> QED BY <1>1, <1>2, <1>3, <1>4, ZenonT(30) DEF Next
-----------------------------------------------------------------------------
(* The theorems.                                                           *)

\* A server that has just been created satisfies the invariant.
LEMMA InitIInv == Init => IInv
<1> SUFFICES ASSUME Init PROVE IInv
  OBVIOUS
<1> USE DEF Init
<1>1. connMgr = {} /\ Active = {} /\ IsFiniteSet({}) /\ Cardinality({}) = 0
  BY FS_EmptySet DEF Active
<1>2. TypeOK
  BY <1>1, ServerAssumption
     DEF TypeOK, RunPC, ShutPC, DrainPC, AcceptPC, AttachPC, Phase
<1>3. CountInv
  BY <1>1 DEF CountInv
<1>4. RunInv /\ AcceptInv /\ NoOrphan /\ MetricsOwned
  BY DEF RunInv, AcceptInv, NoOrphan, MetricsOwned, Open
<1>5. ShutInv /\ DrainInv
  BY DEF ShutInv, DrainInv
<1> QED BY <1>2, <1>3, <1>4, <1>5 DEF IInv

\* No step of Run, Shutdown, ClearConn, acceptLoop, AttachMetrics or of a
\* connection leaves the invariant.
LEMMA IInvStep == IInv /\ [Next]_vars => IInv'
<1> SUFFICES ASSUME IInv, [Next]_vars PROVE IInv'
  OBVIOUS
<1>1. TypeOK'
  BY TypeStep DEF IInv, CountInv
<1>2. RunInv'
  BY RunInvStep DEF IInv
<1>3. AcceptInv'
  BY AcceptStep DEF IInv
<1>4. CountInv'
  BY CountStep DEF IInv
<1>5. ShutInv'
  BY ShutInvStep DEF IInv
<1>6. DrainInv'
  BY DrainStep DEF IInv
<1>7. NoOrphan'
  BY OrphanStep DEF IInv
<1>8. MetricsOwned'
  BY MetricsStep DEF IInv
<1> QED BY <1>1, <1>2, <1>3, <1>4, <1>5, <1>6, <1>7, <1>8 DEF IInv

\* The invariant holds in every reachable state of the server.
THEOREM InductiveInvariant == Spec => []IInv
BY InitIInv, IInvStep, PTL DEF Spec

\* Every reachable state is type correct; the ConnManager never holds more than
\* MaxConn connections.
THEOREM TypeCorrect == Spec => []TypeOK
<1>1. IInv => TypeOK
  BY DEF IInv
<1> QED BY InductiveInvariant, <1>1, PTL

\* No connection that was added escapes management before it is closed,
\* whenever ClearConn empties the manager.
THEOREM NothingOrphaned == Spec => []NoOrphan
<1>1. IInv => NoOrphan
  BY DEF IInv
<1> QED BY InductiveInvariant, <1>1, PTL

\* Whenever acceptLoop is between two connections, the gauge is the number of
\* open connections and the difference of the two counters.
THEOREM MetricsExact == Spec => []MetricsAgree
<1>1. IInv => MetricsAgree
  BY DEF IInv, CountInv, MetricsAgree, TypeOK
<1> QED BY InductiveInvariant, <1>1, PTL

\* A Shutdown that found the listener stops the worker pool and returns only when
\* every connection is closed but one that handleConn had not added in time.
THEOREM ShutdownDrains == Spec => []OnlyLateOpen
<1>1. IInv => OnlyLateOpen
  BY DEF IInv, DrainInv, ShutInv, OnlyLateOpen
<1> QED BY InductiveInvariant, <1>1, PTL

\* No open metrics listener is forgotten.
THEOREM MetricsListenersOwned == Spec => []MetricsOwned
<1>1. IInv => MetricsOwned
  BY DEF IInv
<1> QED BY InductiveInvariant, <1>1, PTL

-----------------------------------------------------------------------------
(* The management tools (module Mcp)                                       *)

USE DEF mvars, mcpVars

\* A tool call changes nothing of the server by itself.
LEMMA ToolFrame ==
    ASSUME NEW t \in Calls, Authorize(t) \/ ToolNext(t)
    PROVE  UNCHANGED vars
BY ZenonT(30) DEF Authorize, ToolNext, Arguments, Get, RangeSnapshot, SendReturn,
   CloseConnection, ShutdownServer, SendMsg

\* Every step of the composition is a step of the server or leaves it alone.
LEMMA ServerStep == [McpNext]_mvars => [Next]_vars
<1> SUFFICES ASSUME [McpNext]_mvars PROVE [Next]_vars
  OBVIOUS
<1>1. CASE ServerNext
  BY <1>1, ZenonT(30) DEF ServerNext, Serve
<1>2. ASSUME NEW t \in Calls, Authorize(t) \/ ToolNext(t) PROVE UNCHANGED vars
  BY <1>2, ToolFrame
<1>3. CASE UNCHANGED mvars
  BY <1>3
<1> QED BY <1>1, <1>2, <1>3, ZenonT(30) DEF McpNext

\* The composition implements Server: whatever the tools are called with and
\* however the calls overlap, they take the server nowhere it could not go
\* without them.
THEOREM ImplementsServer == McpSpec => Spec
<1>1. McpInit => Init
  BY DEF McpInit
<1> QED BY <1>1, ServerStep, PTL DEF McpSpec, Spec

\* So every safety theorem of ServerProofs holds with tool calls going on.
THEOREM ServerSafe == McpSpec => [](TypeOK /\ NoOrphan /\ MetricsAgree /\ OnlyLateOpen)
BY ImplementsServer, TypeCorrect, NothingOrphaned, MetricsExact, ShutdownDrains, PTL
-----------------------------------------------------------------------------
(* Broadcast.                                                              *)

\* A connection that has been added is not added again: it only moves on towards
\* closed, and what is open and managed after a step of the server was before.
LEMMA OnceAdded ==
    ASSUME TypeOK, AcceptInv, [Next]_vars,
           NEW c \in Clients, conn[c] \in {"live", "stuck", "closing", "closed", "blocked"}
    PROVE  /\ conn'[c] \in {"live", "stuck", "closing", "closed", "blocked"}
           /\ c \in Live' \cap connMgr' => c \in Live \cap connMgr
<1> USE DEF TypeOK, Live
<1>1. ASSUME \/ \E r \in Runners : RunEnter(r) \/ RunNext(r)
             \/ Cancel
             \/ \E x \in Callers : ShutEnter(x) \/ ShutStep(x) \/ ShutExpired(x)
             \/ \E a \in Attachers : AttachListen(a) \/ AttachStore(a)
             \/ UNCHANGED vars
      PROVE  UNCHANGED <<conn, connMgr>>
  BY ONLY <1>1, NoConnStep
<1>2. CASE ClearNext
  BY <1>2, ZenonT(30) DEF ClearNext, ClearSnapshot, ClearDone, ClearStop, ClearStopped
<1>3. ASSUME NEW d \in Clients, Accept(d) \/ ConnStep(d)
      PROVE  /\ conn'[c] \in {"live", "stuck", "closing", "closed", "blocked"}
             /\ c \in Live' \cap connMgr' => c \in Live \cap connMgr
  BY <1>3, ZenonT(30) DEF Accept, ConnStep, ConnClose, ConnStuck, ConnClosed, ConnBlocked, Remove
<1>4. CASE AcceptEnd \/ HandleCount
  BY <1>4, ZenonT(30) DEF AcceptEnd, HandleCount
<1>5. ASSUME NEW d \in Clients, HandleAdd(d) \/ RejectConn(d)
      PROVE  /\ conn'[c] \in {"live", "stuck", "closing", "closed", "blocked"}
             /\ c \in Live' \cap connMgr' => c \in Live \cap connMgr
  BY <1>5, ZenonT(30) DEF HandleAdd, RejectConn, AcceptInv
<1> QED BY <1>1, <1>2, <1>3, <1>4, <1>5, ZenonT(30) DEF Next, AcceptNext

\* The steps of a call keep its variables in their types.
LEMMA McpTypeStep ==
    ASSUME TypeOK, McpTypeOK, [McpNext]_mvars, \A t \in Calls : ToolInv(t)
    PROVE  McpTypeOK'
<1> USE DEF McpTypeOK, CallPC, Results, Tools, ReadTools, RangeTools, ConnTools, CallGoto
<1>1. ASSUME NEW t \in Calls, Authorize(t) PROVE McpTypeOK'
  <2>1. UNCHANGED <<conns, sent, failed, queued>>
    BY <1>1, ZenonT(30) DEF Authorize
  <2>2. call' \in [Calls -> CallPC]
    BY <1>1, ZenonT(30) DEF Authorize
  <2>3. tool' \in [Calls -> Tools \cup {"none"}]
    BY <1>1, ZenonT(30) DEF Authorize
  <2>4. connArg' \in [Calls -> SUBSET Clients]
    <3>1. \/ \E arg \in {{}} \cup {{c} : c \in Clients} :
                connArg' = [connArg EXCEPT ![t] = arg]
          \/ connArg' = connArg
      BY ONLY <1>1, ZenonT(30) DEF Authorize
    <3>2. connArg \in [Calls -> SUBSET Clients]
      BY Zenon
    <3> QED BY ONLY <3>1, <3>2
  <2>5. witness' \in [Calls -> SUBSET Clients]
    <3>1. \/ \E n \in Tools :
                witness' = [witness EXCEPT ![t] = IF n = "broadcast" THEN Live ELSE {}]
          \/ witness' = witness
      BY ONLY <1>1, ZenonT(30) DEF Authorize
    <3>2. witness \in [Calls -> SUBSET Clients] /\ Live \subseteq Clients
      BY Zenon DEF Live
    <3> QED BY ONLY <3>1, <3>2
  <2> QED BY <2>1, <2>2, <2>3, <2>4, <2>5, ZenonT(30)
<1>2. ASSUME NEW t \in Calls, Arguments(t) PROVE McpTypeOK'
  <2>1. FirstStep(tool[t]) \in CallPC
    BY <1>2 DEF Arguments, FirstStep, ToolInv
  <2> QED BY <1>2, <2>1, ZenonT(30) DEF Arguments
<1>3. ASSUME NEW t \in Calls, Get(t) PROVE McpTypeOK'
  <2>1. tool[t] \in ConnTools
    BY <1>3, Zenon DEF Get, ToolInv
  <2>2. AfterGet(tool[t]) \in CallPC
    BY <2>1 DEF AfterGet
  <2> QED BY <1>3, <2>2, ZenonT(30) DEF Get
<1>4. ASSUME NEW t \in Calls, RangeSnapshot(t) PROVE McpTypeOK'
  BY <1>4, ZenonT(30) DEF RangeSnapshot, AfterRange, TypeOK
<1>5. ASSUME NEW t \in Calls, SendReturn(t) \/ CloseConnection(t) \/ ShutdownServer(t)
      PROVE  McpTypeOK'
  BY <1>5, ZenonT(30) DEF SendReturn, CloseConnection, ShutdownServer
<1>6. ASSUME NEW t \in Calls, NEW c \in Clients, SendMsg(t, c) PROVE McpTypeOK'
  <2>1. UNCHANGED <<call, tool, connArg, witness>>
    BY <1>6, ZenonT(30) DEF SendMsg
  <2>2. conns' \in [Calls -> SUBSET Clients]
    BY <1>6, ZenonT(30) DEF SendMsg
  <2>3. sent' \in [Calls -> Nat]
    <3>1. sent' = [sent EXCEPT ![t] = @ + 1] \/ sent' = sent
      BY ONLY <1>6, Zenon DEF SendMsg
    <3>2. sent \in [Calls -> Nat]
      BY Zenon
    <3> QED BY ONLY <3>1, <3>2
  <2>4. failed' \in [Calls -> SUBSET Clients] /\ queued' \in [Calls -> SUBSET Clients]
    <3>1. /\ failed' = [failed EXCEPT ![t] = @ \cup {c}] \/ failed' = failed
          /\ queued' = [queued EXCEPT ![t] = @ \cup {c}] \/ queued' = queued
      BY ONLY <1>6, Zenon DEF SendMsg
    <3>2. failed \in [Calls -> SUBSET Clients] /\ queued \in [Calls -> SUBSET Clients]
      BY Zenon
    <3> QED BY ONLY <3>1, <3>2, c \in Clients
  <2> QED BY <2>1, <2>2, <2>3, <2>4, ZenonT(30)
<1>7. CASE ServerNext \/ UNCHANGED mvars
  BY <1>7, ZenonT(30) DEF ServerNext, Serve
<1> QED BY <1>1, <1>2, <1>3, <1>4, <1>5, <1>6, <1>7, ZenonT(30) DEF McpNext, ToolNext

\* A step of the server keeps what the calls rely on.
LEMMA CallServerStep ==
    ASSUME IInv, McpTypeOK, [Next]_vars, UNCHANGED mcpVars,
           NEW t \in Calls, ToolInv(t), ReachInv(t)
    PROVE  ToolInv(t)' /\ ReachInv(t)'
<1>1. ToolInv(t)'
  BY ZenonT(30) DEF ToolInv
<1>2. \A c \in witness[t] :
          /\ conn'[c] \in {"live", "stuck", "closing", "closed", "blocked"}
          /\ c \in Live' \cap connMgr' => c \in Live \cap connMgr
  BY OnceAdded, ZenonT(30) DEF IInv, ReachInv, McpTypeOK
<1>3. ReachInv(t)'
  BY <1>2, ZenonT(30) DEF ReachInv
<1> QED BY <1>1, <1>3, ZenonT(30)

\* A step of one call keeps the invariant of every call.
LEMMA CallInvStep ==
    ASSUME IInv, McpTypeOK, NEW t \in Calls, Authorize(t) \/ ToolNext(t),
           NEW u \in Calls, ToolInv(u), ReachInv(u)
    PROVE  ToolInv(u)' /\ ReachInv(u)'
<1>1. UNCHANGED vars /\ Live' = Live
  BY ToolFrame, ZenonT(30) DEF Live
<1> USE DEF McpTypeOK
<1>2. CASE u # t
  <2>1. /\ call'[u] = call[u] /\ tool'[u] = tool[u] /\ conns'[u] = conns[u]
        /\ sent'[u] = sent[u] /\ failed'[u] = failed[u] /\ queued'[u] = queued[u]
        /\ witness'[u] = witness[u]
    <3> USE <1>2 DEF CallGoto
    <3>1. CASE Authorize(t)
      BY <3>1, ZenonT(30) DEF Authorize
    <3>2. CASE Arguments(t) \/ SendReturn(t) \/ CloseConnection(t) \/ ShutdownServer(t)
      BY <3>2, ZenonT(30) DEF Arguments, SendReturn, CloseConnection, ShutdownServer
    <3>3. CASE Get(t) \/ RangeSnapshot(t)
      BY <3>3, ZenonT(30) DEF Get, RangeSnapshot
    <3>4. ASSUME NEW c \in Clients, SendMsg(t, c)
          PROVE  /\ UNCHANGED <<call, tool, witness>> /\ conns'[u] = conns[u]
                 /\ sent'[u] = sent[u] /\ failed'[u] = failed[u]
                 /\ queued'[u] = queued[u]
      BY <3>4, ZenonT(30) DEF SendMsg
    <3> QED BY <3>1, <3>2, <3>3, <3>4, ZenonT(30) DEF ToolNext
  <2>2. ToolInv(u)'
    BY <2>1, ZenonT(30) DEF ToolInv
  <2>3. ReachInv(u)'
    BY <1>1, <2>1, ZenonT(30) DEF ReachInv
  <2> QED BY <2>2, <2>3, ZenonT(30)
<1>3. CASE u = t
  <2> USE <1>1, <1>3 DEF CallGoto, ToolInv, ReachInv, Results, Tools, ReadTools,
                         RangeTools, ConnTools
  <2>1. CASE Authorize(t)
    <3>1. /\ call[t] = "idle" /\ UNCHANGED <<conns, sent, failed, queued>>
          /\ call'[t] \in {"args", "denied"}
          /\ call'[t] = "args" => tool'[t] \in Tools
      BY <2>1, ZenonT(30) DEF Authorize
    <3>2. witness'[t] = witness[t] \/ witness'[t] \subseteq Live
      <4>1. witness \in [Calls -> SUBSET Clients]
        BY ONLY McpTypeOK DEF McpTypeOK
      <4>2. \/ \E n \in Tools :
                   witness' = [witness EXCEPT ![t] = IF n = "broadcast" THEN Live ELSE {}]
            \/ witness' = witness
        BY ONLY <2>1, ZenonT(30) DEF Authorize
      <4> QED BY ONLY <4>1, <4>2, t \in Calls
    <3>3. \A c \in witness'[t] :
              conn[c] \in {"live", "stuck", "closing", "closed", "blocked"}
      BY <3>2, ZenonT(30) DEF Live
    <3> QED BY <3>1, <3>3, ZenonT(30)
  <2>2. CASE Arguments(t)
    <3>1. tool[t] = "broadcast" => FirstStep(tool[t]) = "range"
      BY DEF FirstStep
    <3>2. FirstStep(tool[t]) = "get" => tool[t] \in ConnTools
      BY <2>2, ZenonT(30) DEF FirstStep, Arguments
    <3>3. FirstStep(tool[t]) # "send" /\ FirstStep(tool[t]) # "args"
      BY <2>2, ZenonT(30) DEF FirstStep, Arguments
    <3> HIDE DEF FirstStep
    <3> QED BY <2>2, <3>1, <3>2, <3>3, ZenonT(30) DEF Arguments
  <2>3. CASE Get(t)
    <3>1. tool[t] \in ConnTools
      BY <2>3, ZenonT(30) DEF Get
    <3>2. AfterGet(tool[t]) \in {"ok", "send", "stop"}
      BY <3>1 DEF AfterGet
    <3> QED BY <2>3, <3>1, <3>2, ZenonT(30) DEF Get
  <2>4. CASE RangeSnapshot(t)
    BY <2>4, ZenonT(30) DEF RangeSnapshot, AfterRange
  <2>5. CASE SendReturn(t)
    BY <2>5, ZenonT(30) DEF SendReturn, SentAll
  <2>6. CASE CloseConnection(t) \/ ShutdownServer(t)
    <3>1. /\ call[t] \in {"stop", "shutdown"} /\ call'[t] \in {"ok", "error"}
          /\ UNCHANGED <<tool, conns, sent, failed, queued, witness>>
      BY <2>6, ZenonT(30) DEF CloseConnection, ShutdownServer
    <3> QED BY <3>1, ZenonT(30)
  <2>7. ASSUME NEW c \in Clients, SendMsg(t, c)
        PROVE  ToolInv(u)' /\ ReachInv(u)'
    <3>1. /\ IsFiniteSet(queued[t] \cup {c})
          /\ c \notin queued[t] =>
                Cardinality(queued[t] \cup {c}) = Cardinality(queued[t]) + 1
      BY FS_AddElement, ZenonT(30)
    <3>2. c \notin queued[t]
      BY <2>7, ZenonT(30) DEF SendMsg
    <3>3. /\ UNCHANGED <<call, tool, witness>> /\ conns'[t] = conns[t] \ {c}
          /\ call[t] = "send"
      BY <2>7, ZenonT(30) DEF SendMsg
    <3>4. \/ /\ queued'[t] = queued[t] \cup {c} /\ sent'[t] = sent[t] + 1
             /\ failed'[t] = failed[t]
          \/ /\ failed'[t] = failed[t] \cup {c} /\ queued'[t] = queued[t]
             /\ sent'[t] = sent[t]
      <4>1. /\ queued \in [Calls -> SUBSET Clients] /\ failed \in [Calls -> SUBSET Clients]
            /\ sent \in [Calls -> Nat]
        BY ONLY McpTypeOK, Zenon DEF McpTypeOK
      <4> QED BY ONLY <2>7, <4>1, t \in Calls, ZenonT(30) DEF SendMsg
    <3> QED BY <3>1, <3>2, <3>3, <3>4, ZenonT(30)
  <2> QED BY <2>1, <2>2, <2>3, <2>4, <2>5, <2>6, <2>7, ZenonT(30) DEF ToolNext
<1> QED BY <1>2, <1>3, ZenonT(30)

\* The invariant of the composition.
THEOREM McpInvariant == McpSpec => []McpInv
<1>1. McpInit => McpInv
  <2> SUFFICES ASSUME McpInit PROVE McpInv
    OBVIOUS
  <2>1. IInv
    BY InitIInv DEF McpInit
  <2>2. McpTypeOK
    BY ZenonT(30) DEF McpInit, McpTypeOK, CallPC
  <2>3. IsFiniteSet({}) /\ Cardinality({}) = 0
    BY FS_EmptySet
  <2>4. ASSUME NEW t \in Calls PROVE ToolInv(t) /\ ReachInv(t)
    BY <2>3, ZenonT(30) DEF McpInit, ToolInv, ReachInv
  <2> QED BY <2>1, <2>2, <2>4 DEF McpInv
<1>2. McpInv /\ [McpNext]_mvars => McpInv'
  <2> SUFFICES ASSUME McpInv, [McpNext]_mvars PROVE McpInv'
    BY ZenonT(30)
  <2>1. IInv'
    BY IInvStep, ServerStep, ZenonT(30) DEF McpInv
  <2>2. McpTypeOK'
    BY McpTypeStep, ZenonT(30) DEF McpInv, IInv
  <2>3. ASSUME NEW u \in Calls PROVE ToolInv(u)' /\ ReachInv(u)'
    <3>1. CASE ServerNext \/ UNCHANGED mvars
      <4>1. UNCHANGED mcpVars /\ [Next]_vars
        BY <3>1, ZenonT(30) DEF ServerNext, Serve
      <4> QED BY <4>1, CallServerStep, ZenonT(30) DEF McpInv
    <3>2. ASSUME NEW t \in Calls, Authorize(t) \/ ToolNext(t)
          PROVE  ToolInv(u)' /\ ReachInv(u)'
      BY <3>2, CallInvStep, ZenonT(30) DEF McpInv
    <3> QED BY <3>1, <3>2, ZenonT(30) DEF McpNext
  <2> QED BY <2>1, <2>2, <2>3, ZenonT(30) DEF McpInv
<1> QED BY <1>1, <1>2, PTL DEF McpSpec

\* A broadcast that returns has reached every connection that was open when it
\* began and is open and managed still, but for those whose SendMsg failed, and
\* returns the number of those that got the message.
THEOREM BroadcastExact == McpSpec => []BroadcastReaches
<1>1. McpInv => BroadcastReaches
  BY ZenonT(30) DEF McpInv, ReachInv, BroadcastReaches
<1> QED BY McpInvariant, <1>1, PTL

-----------------------------------------------------------------------------
(* The configuration that get_config returns (module Config)               *)

\* Induction up to n, on a set: what holds of 0 and goes on from each number to
\* the next holds up to n.
LEMMA UpTo ==
    ASSUME NEW n \in Nat, NEW S, 0 \in S,
           \A i \in 0..n : i < n /\ i \in S => i + 1 \in S
    PROVE  \A i \in 0..n : i \in S
<1> DEFINE T == (0..n) \ S
<1>1. ASSUME T # {} PROVE FALSE
  <2>1. T \subseteq Nat
    OBVIOUS
  <2>2. PICK x \in T : \A y \in T : ~ (<<y, x>> \in OpToRel(<, Nat))
    BY <1>1, <2>1, WFMin, NatLessThanWellFounded, ZenonT(30)
  <2>3. \A y \in T : ~(y < x)
    BY <2>1, <2>2, Zenon DEF OpToRel
  <2>4. x # 0 /\ x \in 0..n /\ x - 1 \in 0..n /\ x - 1 < n
    OBVIOUS
  <2>5. x - 1 \in S
    BY <2>3, <2>4
  <2> QED BY <2>4, <2>5
<1> QED BY <1>1

\* f lists what applyEnv has after each of the variables.
EnvSteps(cfgs, env, f) ==
    f = [i \in 0..Len(Fields) |->
            IF i = 0 THEN cfgs ELSE ApplyVar(f[i - 1], env, Fields[i])]

\* applyEnv returns the last entry of such a list.
LEMMA EnvLast ==
    ASSUME NEW cfgs, NEW env, NEW f, EnvSteps(cfgs, env, f)
    PROVE  applyEnv(cfgs, env) = f[Len(Fields)]
<1> DEFINE n == Len(Fields)
           g == CHOOSE h : EnvSteps(cfgs, env, h)
           Same(i) == g[i] = f[i]
           S == {i \in 0..n : Same(i)}
<1>1. n \in Nat
  BY DEF Fields
<1>2. applyEnv(cfgs, env) = g[n]
  BY Zenon DEF applyEnv, EnvSteps
<1>3. EnvSteps(cfgs, env, g)
  OBVIOUS
<1> HIDE DEF g, n
<1>4. ASSUME NEW h, EnvSteps(cfgs, env, h)
      PROVE  /\ h[0] = cfgs
             /\ \A i \in 0..n : i < n => h[i + 1] = ApplyVar(h[i], env, Fields[i + 1])
  <2>1. \A i \in 0..n : h[i] = IF i = 0 THEN cfgs ELSE ApplyVar(h[i - 1], env, Fields[i])
    BY <1>4, ZenonT(30) DEF EnvSteps, n
  <2>2. ASSUME NEW i \in 0..n, i < n
        PROVE  h[i + 1] = ApplyVar(h[i], env, Fields[i + 1])
    <3>1. i + 1 \in 0..n /\ i + 1 # 0 /\ (i + 1) - 1 = i
      BY <1>1, <2>2
    <3> QED BY <2>1, <3>1
  <2>3. 0 \in 0..n
    BY <1>1
  <2> QED BY <2>1, <2>2, <2>3, ZenonT(30)
<1>5. Same(0)
  BY <1>3, <1>4, ZenonT(30)
<1>6. ASSUME NEW i \in 0..n, i < n, Same(i) PROVE Same(i + 1)
  BY <1>3, <1>4, <1>6, ZenonT(30)
<1> HIDE DEF Same
<1>7. 0 \in S /\ \A i \in 0..n : i < n /\ i \in S => i + 1 \in S
  BY <1>1, <1>5, <1>6
<1>8. \A i \in 0..n : i \in S
  BY <1>1, <1>7, UpTo, Zenon
<1>9. Same(n)
  BY <1>1, <1>8
<1> QED BY <1>2, <1>9, ZenonT(30) DEF Same, n

\* An error ends applyEnv.
LEMMA EnvNil ==
    ASSUME NEW env
    PROVE  applyEnv({}, env) = {}
<1> DEFINE f == [i \in 0..Len(Fields) |-> {}]
<1>1. EnvSteps({}, env, f)
  <2>1. Len(Fields) \in Nat
    BY DEF Fields
  <2>2. ASSUME NEW i \in 0..Len(Fields)
        PROVE  f[i] = IF i = 0 THEN {} ELSE ApplyVar(f[i - 1], env, Fields[i])
    <3>1. i # 0 => f[i - 1] = {}
      BY <2>1
    <3> QED BY <3>1, Zenon DEF ApplyVar
  <2> QED BY <2>2, Zenon DEF EnvSteps
<1>2. f[Len(Fields)] = {}
  BY DEF Fields
<1> QED BY <1>1, <1>2, EnvLast, ZenonT(30)

\* What the first i variables make of a configuration.
AfterVars(cfg, env, i) ==
    IF \A j \in 1..i : Fields[j] \in DOMAIN env => env[Fields[j]] \in Parses(KindOf[Fields[j]])
    THEN {[k \in DOMAIN cfg |->
              IF k \in DOMAIN env /\ \E j \in 1..i : Fields[j] = k THEN env[k] ELSE cfg[k]]}
    ELSE {}

\* One variable more.
LEMMA AfterVar ==
    ASSUME NEW cfg, cfg = [k \in Field |-> cfg[k]], NEW env, NEW i \in 1..Len(Fields)
    PROVE  AfterVars(cfg, env, i) = ApplyVar(AfterVars(cfg, env, i - 1), env, Fields[i])
<1> DEFINE v == Fields[i]
           Ok(j) == Fields[j] \in DOMAIN env => env[Fields[j]] \in Parses(KindOf[Fields[j]])
           Set(j, k) == k \in DOMAIN env /\ \E l \in 1..j : Fields[l] = k
           New(j) == [k \in DOMAIN cfg |-> IF Set(j, k) THEN env[k] ELSE cfg[k]]
<1>1. i \in Nat /\ i - 1 \in Nat /\ \A j : j \in 1..i <=> j \in 1..(i - 1) \/ j = i
  BY DEF Fields
<1>2. DOMAIN cfg = Field /\ v \in Field
  <2>1. v \in Field
    BY DEF Field, Fields
  <2> QED BY <2>1
<1>3. \A j \in {i, i - 1} : AfterVars(cfg, env, j) = IF \A l \in 1..j : Ok(l) THEN {New(j)} ELSE {}
  BY Zenon DEF AfterVars
<1>4. \A k : Set(i, k) <=> Set(i - 1, k) \/ (k \in DOMAIN env /\ k = v)
  BY <1>1
<1>5. (\A l \in 1..i : Ok(l)) <=> (\A l \in 1..(i - 1) : Ok(l)) /\ Ok(i)
  BY <1>1
<1> HIDE DEF Set
<1>6. CASE v \notin DOMAIN env
  <2>1. New(i) = New(i - 1) /\ Ok(i)
    BY <1>4, <1>6
  <2> QED BY <1>3, <1>5, <1>6, <2>1, ZenonT(30) DEF ApplyVar
<1>7. CASE v \in DOMAIN env
  <2>1. New(i) = [New(i - 1) EXCEPT ![v] = env[v]]
    BY <1>2, <1>4, <1>7, ZenonT(30)
  <2> HIDE DEF New
  <2>2. CASE ~ \A l \in 1..(i - 1) : Ok(l)
    BY <1>3, <1>5, <1>7, <2>2, Zenon DEF ApplyVar
  <2>3. CASE \A l \in 1..(i - 1) : Ok(l)
    <3>1. AfterVars(cfg, env, i - 1) = {New(i - 1)}
      BY <1>3, <2>3
    <3>2. ApplyVar({New(i - 1)}, env, v)
             = {[c EXCEPT ![v] = env[v]] : c \in {c \in {New(i - 1)} : env[v] \in Parses(KindOf[v])}}
      BY <1>7, ZenonT(30) DEF ApplyVar
    <3>3. CASE Ok(i)
      <4>1. {c \in {New(i - 1)} : env[v] \in Parses(KindOf[v])} = {New(i - 1)}
        BY <1>7, <3>3, ZenonT(30)
      <4>2. ApplyVar({New(i - 1)}, env, v) = {New(i)}
        <5>1. ApplyVar({New(i - 1)}, env, v)
                 = {[c EXCEPT ![v] = env[v]] : c \in {New(i - 1)}}
          BY <3>2, <4>1, ZenonT(30)
        <5>2. {[c EXCEPT ![v] = env[v]] : c \in {New(i - 1)}} = {[New(i - 1) EXCEPT ![v] = env[v]]}
          OBVIOUS
        <5> QED BY <2>1, <5>1, <5>2, ZenonT(30)
      <4> QED BY <1>3, <1>5, <2>3, <3>1, <3>3, <4>2, ZenonT(30)
    <3>4. CASE ~Ok(i)
      <4>1. {c \in {New(i - 1)} : env[v] \in Parses(KindOf[v])} = {}
        BY <1>7, <3>4
      <4>2. ApplyVar({New(i - 1)}, env, v) = {}
        BY <3>2, <4>1, ZenonT(30)
      <4> QED BY <1>3, <1>5, <3>1, <3>4, <4>2, ZenonT(30)
    <3> QED BY <3>3, <3>4, ZenonT(30)
  <2> QED BY <2>2, <2>3, ZenonT(30)
<1> QED BY <1>6, <1>7

\* applyEnv gives every field that has a variable the value of the variable,
\* and fails when one of them does not parse.
LEMMA EnvApplied ==
    ASSUME NEW cfg, cfg = [k \in Field |-> cfg[k]], NEW env
    PROVE  applyEnv({cfg}, env) = AfterVars(cfg, env, Len(Fields))
<1> DEFINE n == Len(Fields)
           f == [i \in 0..n |-> AfterVars(cfg, env, i)]
<1>1. n \in Nat
  BY DEF Fields
<1>2. f[0] = {cfg}
  <2>1. AfterVars(cfg, env, 0) = {[k \in DOMAIN cfg |-> cfg[k]]}
    BY DEF AfterVars
  <2>2. [k \in DOMAIN cfg |-> cfg[k]] = cfg
    OBVIOUS
  <2> QED BY <1>1, <2>1, <2>2
<1>3. ASSUME NEW i \in 0..n, i # 0 PROVE f[i] = ApplyVar(f[i - 1], env, Fields[i])
  <2>1. i \in 1..Len(Fields) /\ i - 1 \in 0..n
    BY <1>1, <1>3
  <2>2. AfterVars(cfg, env, i) = ApplyVar(AfterVars(cfg, env, i - 1), env, Fields[i])
    BY <2>1, AfterVar
  <2> QED BY <2>1, <2>2, ZenonT(30)
<1>4. EnvSteps({cfg}, env, f)
  <2>1. \A i \in 0..n : f[i] = IF i = 0 THEN {cfg} ELSE ApplyVar(f[i - 1], env, Fields[i])
    BY <1>2, <1>3
  <2> QED BY <2>1, ZenonT(30) DEF EnvSteps
<1>5. f[n] = AfterVars(cfg, env, n)
  BY <1>1
<1> QED BY <1>4, <1>5, EnvLast, ZenonT(30)

\* Load takes each field from the last source that sets it, for every file and
\* every environment.
THEOREM LoadIsExpected ==
    ASSUME NEW file \in Files(AnySettings), NEW env \in AnySettings
    PROVE  Load(file, env) = Expected(file, env)
<1> DEFINE Valid(s, k) == s[k] \in Parses(KindOf[k])
           EnvOk == \A k \in DOMAIN env : Valid(env, k)
           FileOk == \A k \in DOMAIN file.sets : file.sets[k] \in UnmarshalYAML(KindOf[k])
           wanted == [k \in Field |->
                         CASE k \in DOMAIN env -> env[k]
                           [] k \in DOMAIN file.sets \ DOMAIN env -> file.sets[k]
                           [] OTHER -> "default"]
           base == [k \in Field |-> IF k \in DOMAIN file.sets THEN file.sets[k] ELSE "default"]
<1>1. /\ file.read \in {"ok", "none", "missing", "unreadable", "malformed"}
      /\ file.read # "ok" => DOMAIN file.sets = {}
  BY DEF Files
<1>2. DOMAIN env \subseteq Field
  BY DEF AnySettings
<1>3. Expected(file, env)
        = IF file.read \notin {"unreadable", "malformed"} /\ FileOk /\ EnvOk THEN {wanted} ELSE {}
  BY DEF Expected
<1>4. applyEnv({base}, env) = IF EnvOk THEN {wanted} ELSE {}
  <2>1. \A k \in Field : \E j \in 1..Len(Fields) : Fields[j] = k
    BY DEF Field, Fields
  <2>2. (\A j \in 1..Len(Fields) :
             Fields[j] \in DOMAIN env => Valid(env, Fields[j])) <=> EnvOk
    BY <1>2, <2>1, Zenon
  <2>3. [k \in DOMAIN base |->
            IF k \in DOMAIN env /\ \E j \in 1..Len(Fields) : Fields[j] = k THEN env[k] ELSE base[k]] = wanted
    BY <2>1
  <2>4. base = [k \in Field |-> base[k]]
    OBVIOUS
  <2>5. AfterVars(base, env, Len(Fields)) = IF EnvOk THEN {wanted} ELSE {}
    BY <2>2, <2>3, ZenonT(30) DEF AfterVars
  <2> HIDE DEF base
  <2> QED BY <2>4, <2>5, EnvApplied
<1>5. CASE file.read = "ok"
  <2>1. Load(file, env) = applyEnv(ApplyFile(Default, file), env)
    BY <1>5 DEF Load
  <2>2. ApplyFile(Default, file) = IF FileOk THEN {base} ELSE {}
    BY ZenonT(30) DEF ApplyFile, Default
  <2> HIDE DEF base, wanted, EnvOk, FileOk
  <2> QED BY <1>3, <1>4, <1>5, <2>1, <2>2, EnvNil, Zenon
<1>6. CASE file.read # "ok"
  <2>1. FileOk /\ base = Default
    BY <1>1, <1>6, ZenonT(30) DEF Default
  <2> HIDE DEF base, wanted, EnvOk, FileOk
  <2>2. CASE file.read \in {"none", "missing"}
    <3>1. Load(file, env) = applyEnv({Default}, env)
      BY <2>2 DEF Load
    <3> QED BY <1>3, <1>4, <2>1, <2>2, <3>1, ZenonT(30)
  <2>3. CASE file.read \in {"unreadable", "malformed"}
    BY <1>3, <2>3 DEF Load
  <2> QED BY <1>1, <1>6, <2>2, <2>3, ZenonT(30)
<1> QED BY <1>5, <1>6

\* In particular for the files and environments of LoadFaults.
LEMMA NoLoadFaults == LoadFaults = {}
<1>1. \A n : Settings(n) \subseteq AnySettings
  BY DEF Settings, AnySettings
<1>2. Files(Settings(1)) \subseteq Files(AnySettings)
  BY <1>1, ZenonT(30) DEF Files
<1>3. \A file \in Files(AnySettings), env \in AnySettings : Load(file, env) = Expected(file, env)
  BY LoadIsExpected
<1>4. ASSUME NEW in \in Files(Settings(1)) \X Settings(2)
      PROVE  Load(in[1], in[2]) = Expected(in[1], in[2])
  <2>1. in[1] \in Files(AnySettings) /\ in[2] \in AnySettings
    BY <1>1, <1>2
  <2> QED BY <1>3, <2>1, ZenonT(30)
<1> QED BY <1>4, ZenonT(30) DEF LoadFaults

\* What get_config returns is the defaults, overridden by the file, overridden
\* by the environment, or Load has failed as a whole.
THEOREM ConfigLoaded == McpSpec => []LoadPrecedence
<1>1. LoadPrecedence
  BY NoLoadFaults, Zenon DEF LoadPrecedence
<1> QED BY <1>1, PTL
=============================================================================
