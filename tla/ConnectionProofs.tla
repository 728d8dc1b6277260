-------------------------- MODULE ConnectionProofs --------------------------
(***************************************************************************)
(* Safety of the connection life cycle, for any number of callers of       *)
(* Start, Stop and SendMsg, any queue size and any batch size; then of a   *)
(* connection with the pool that serves it, for any number of workers.     *)
(* The facts about that pool are the theorems of MsgHandlerProofs.         *)
(***************************************************************************)
EXTENDS ConnDispatch, TLAPS, WellFoundedInduction

\* The variable groups of the UNCHANGED clauses.
USE DEF vars, cleanupVars, ioVars, callers, lifeVars

\* Every action keeps the variables in their types; in particular msgChan never
\* exceeds WriteQueueSize, because SendMsg and the heartbeat only send when the
\* channel has room.
LEMMA TypeStep == TypeOK /\ [Next]_vars => TypeOK'
<1> SUFFICES ASSUME TypeOK, [Next]_vars PROVE TypeOK'
  OBVIOUS
<1> USE ConnectionAssumption
    DEF TypeOK, Cleanup, StartPC, StopPC, SendPC, ReaderPC, WriterPC, BeatPC,
        Message
<1>1. ASSUME NEW s \in Starters, StartCAS(s) \/ StartNext(s) PROVE TypeOK'
  <2> USE DEF StartGoto
  <2>1. CASE StartCAS(s)
    <3>1. /\ start' \in [Starters -> StartPC]
          /\ state' \in {"created", "running", "closed"}
      BY <2>1, Zenon DEF StartCAS
    <3> QED BY <2>1, <3>1 DEF StartCAS
  <2>2. CASE StartBind(s)
    <3>1. start' \in [Starters -> StartPC] /\ hb' \in {"nil", "clone"}
      BY <2>2, Zenon DEF StartBind
    <3> QED BY <2>2, <3>1 DEF StartBind
  <2>3. CASE StartCheck(s)
    BY <2>3 DEF StartCheck
  <2>4. CASE StartBeat(s)
    BY <2>4 DEF StartBeat
  <2>5. CASE StartDrop(s)
    BY <2>5 DEF StartDrop
  <2>6. CASE StartMark(s)
    BY <2>6 DEF StartMark
  <2>7. CASE StartSpawn(s)
    BY <2>7 DEF StartSpawn
  <2>8. CASE StartHook(s)
    BY <2>8 DEF StartHook
  <2>9. CASE HookStop(s)
    <3>1. start' \in [Starters -> StartPC]
      BY <2>9, Zenon DEF HookStop
    <3> QED BY <2>9, <3>1 DEF HookStop
  <2> QED BY <1>1, <2>1, <2>2, <2>3, <2>4, <2>5, <2>6, <2>7, <2>8, <2>9, Zenon
          DEF StartNext
<1>2. ASSUME NEW p \in Stoppers, StopCall(p) \/ StopNext(p) PROVE TypeOK'
  <2>1. CASE StopCall(p)
    BY <2>1 DEF StopCall
  <2>2. CASE StopOnceReturns(p)
    BY <2>2 DEF StopOnceReturns
  <2>3. CASE StopWait(p)
    BY <2>3 DEF StopWait
  <2> QED BY <1>2, <2>1, <2>2, <2>3 DEF StopNext
<1>3. ASSUME NEW m \in Senders, SendEnter(m) \/ SendNext(m) PROVE TypeOK'
  <2> USE DEF SendGoto
  <2>1. CASE SendEnter(m)
    BY <2>1 DEF SendEnter
  <2>2. CASE SendQueue(m)
    BY <2>2 DEF SendQueue, HasRoom
  <2>3. CASE SendClosed(m)
    BY <2>3 DEF SendClosed
  <2>4. CASE SendTimeout(m)
    BY <2>4 DEF SendTimeout
  <2> QED BY <1>3, <2>1, <2>2, <2>3, <2>4, Zenon DEF SendNext
<1>4. CASE OnceNext
  <2>1. CASE OnceEnter \/ OnceHook
    BY <2>1 DEF OnceEnter, OnceHook
  <2>2. CASE OnceTakeHb
    BY <2>2 DEF OnceTakeHb
  <2>3. CASE OnceStopHb
    BY <2>3 DEF OnceStopHb
  <2>4. CASE OnceCloseSock \/ OnceCloseDone \/ OnceRemove
    BY <2>4 DEF OnceCloseSock, OnceCloseDone, OnceRemove
  <2> QED BY <1>4, <2>1, <2>2, <2>3, <2>4, Zenon DEF OnceNext
<1>5. CASE ReaderNext
  BY <1>5 DEF ReaderNext, ReadData, ReadError, Deliver, ReaderExit
<1>6. CASE WriterNext
  <2>1. CASE WriterTake
    BY <2>1 DEF WriterTake
  <2>2. CASE WriteOk
    <3>1. written' \in Seq(Senders)
      BY <2>2 DEF WriteOk
    <3> QED BY <2>2, <3>1 DEF WriteOk
  <2>3. CASE WriterDone \/ WriteError \/ WriterExit
    BY <2>3 DEF WriterDone, WriteError, WriterExit
  <2> QED BY <1>6, <2>1, <2>2, <2>3 DEF WriterNext
<1>7. CASE BeatNext
  <2>1. CASE BeatSend
    <3>1. msgChan' \in Seq(Message) /\ Len(msgChan') <= QueueSize
      <4>1. CASE HasRoom /\ msgChan' = Append(msgChan, Beat)
        BY <4>1 DEF HasRoom
      <4>2. CASE UNCHANGED msgChan
        BY <4>2
      <4> QED BY <2>1, <4>1, <4>2 DEF BeatSend
    <3> QED BY <2>1, <3>1 DEF BeatSend
  <2>2. CASE BeatTick \/ BeatStop \/ BeatQuit
    BY <2>2 DEF BeatTick, BeatStop, BeatQuit
  <2> QED BY <1>7, <2>1, <2>2 DEF BeatNext
<1>8. CASE Silence
  BY <1>8 DEF Silence
<1>9. CASE UNCHANGED vars
  BY <1>9
<1> QED BY <1>1, <1>2, <1>3, <1>4, <1>5, <1>6, <1>7, <1>8, <1>9, Zenon DEF Next

\* The connection that NewConnection returns is type correct.
LEMMA InitTypeOK == Init => TypeOK
  BY ConnectionAssumption
     DEF Init, TypeOK, Cleanup, StartPC, StopPC, SendPC, ReaderPC, WriterPC,
         BeatPC, Message

\* Every reachable state is type correct.
THEOREM TypeCorrect == Spec => []TypeOK
BY InitTypeOK, TypeStep, PTL DEF Spec
-----------------------------------------------------------------------------
(* The inductive invariant, one lemma per part.                            *)

\* Senders, reader, writer and heartbeat loop touch nothing of the life cycle:
\* they only ask for it to end, by going to closeOnce.Do.
LEMMA IOStep ==
    ASSUME (\E m \in Senders : SendEnter(m) \/ SendNext(m))
             \/ ReaderNext \/ WriterNext \/ BeatNext \/ Silence
    PROVE  UNCHANGED lifeVars
BY ZenonT(30) DEF SendEnter, SendNext, SendQueue, SendClosed, SendTimeout,
   ReaderNext, ReadData, ReadError, Deliver, ReaderExit,
   WriterNext, WriterTake, WriterDone, WriteOk, WriteError, WriterExit,
   BeatNext, BeatTick, BeatSend, BeatStop, BeatQuit, Silence

\* The cleanup only moves forward, each stage leaves its mark, and sync.Once
\* lets no caller go on before the last stage.
LEMMA CleanupStep == TypeOK /\ CleanupInv /\ [Next]_vars => CleanupInv'
<1> SUFFICES ASSUME TypeOK, CleanupInv, [Next]_vars PROVE CleanupInv'
  OBVIOUS
<1> USE DEF TypeOK, CleanupInv
<1>1. ASSUME NEW s \in Starters, StartCAS(s) \/ StartNext(s) PROVE CleanupInv'
  BY <1>1, ZenonT(30)
     DEF StartCAS, StartNext, StartBind, StartCheck, StartBeat, StartDrop,
     StartMark, StartSpawn, StartHook, HookStop
<1>2. ASSUME NEW p \in Stoppers, StopCall(p) \/ StopNext(p) PROVE CleanupInv'
  BY <1>2 DEF StopCall, StopNext, StopOnceReturns, StopWait, OnceReturns
<1>3. CASE OnceNext
  BY <1>3, Zenon DEF OnceNext, OnceEnter, OnceHook, OnceTakeHb, OnceStopHb,
     OnceCloseSock, OnceCloseDone, OnceRemove
<1>4. CASE UNCHANGED lifeVars
  BY <1>4
<1> QED BY <1>1, <1>2, <1>3, <1>4, IOStep, Zenon DEF Next

\* One Start wins the compare-and-swap and goes through its steps alone.
LEMMA StartStep == TypeOK /\ StartInv /\ [Next]_vars => StartInv'
<1> SUFFICES ASSUME TypeOK, StartInv, [Next]_vars PROVE StartInv'
  OBVIOUS
<1> USE ConnectionAssumption DEF TypeOK, StartInv, Launching, StartPC
<1>1. ASSUME NEW s \in Starters, StartCAS(s) \/ StartNext(s) PROVE StartInv'
  <2> USE DEF StartGoto
  <2>1. CASE StartCAS(s)
    BY <2>1 DEF StartCAS
  <2>2. CASE StartBind(s)
    <3>1. CASE StartGoto(s, "check")
      BY <2>2, <3>1 DEF StartBind
    <3>2. CASE StartGoto(s, "mark")
      BY <2>2, <3>2 DEF StartBind
    <3> QED BY <2>2, <3>1, <3>2 DEF StartBind
  <2>3. CASE StartCheck(s)
    BY <2>3 DEF StartCheck
  <2>4. CASE StartBeat(s)
    BY <2>4 DEF StartBeat
  <2>5. CASE StartDrop(s)
    BY <2>5 DEF StartDrop
  <2>6. CASE StartMark(s)
    BY <2>6 DEF StartMark
  <2>7. CASE StartSpawn(s)
    BY <2>7 DEF StartSpawn
  <2>8. CASE StartHook(s)
    BY <2>8 DEF StartHook
  <2>9. CASE HookStop(s)
    <3>1. CASE start[s] = "once" /\ StartGoto(s, "wait")
      BY <2>9, <3>1 DEF HookStop
    <3>2. CASE start[s] = "wait" /\ StartGoto(s, "returned")
      BY <2>9, <3>2 DEF HookStop
    <3> QED BY <2>9, <3>1, <3>2, ZenonT(30) DEF HookStop
  <2> QED BY <1>1, <2>1, <2>2, <2>3, <2>4, <2>5, <2>6, <2>7, <2>8, <2>9, ZenonT(30)
          DEF StartNext
<1>2. ASSUME NEW p \in Stoppers, StopCall(p) \/ StopNext(p) PROVE StartInv'
  BY <1>2, ZenonT(30) DEF StopCall, StopNext, StopOnceReturns, StopWait
<1>3. ASSUME NEW m \in Senders, SendEnter(m) \/ SendNext(m) PROVE StartInv'
  BY <1>3, ZenonT(30) DEF SendEnter, SendNext, SendQueue, SendClosed, SendTimeout
<1>4. CASE OnceNext
  <2>1. CASE OnceEnter \/ OnceHook
    BY <2>1 DEF OnceEnter, OnceHook
  <2>2. CASE OnceTakeHb
    BY <2>2 DEF OnceTakeHb
  <2>3. CASE OnceStopHb
    BY <2>3 DEF OnceStopHb
  <2>4. CASE OnceCloseSock \/ OnceCloseDone \/ OnceRemove
    BY <2>4, ZenonT(30) DEF OnceCloseSock, OnceCloseDone, OnceRemove
  <2> QED BY <1>4, <2>1, <2>2, <2>3, <2>4, ZenonT(30) DEF OnceNext
<1>5. CASE ReaderNext \/ WriterNext
  BY <1>5, ZenonT(30) DEF ReaderNext, ReadData, ReadError, Deliver, ReaderExit,
     WriterNext, WriterTake, WriterDone, WriteOk, WriteError, WriterExit
<1>6. CASE BeatNext \/ Silence
  BY <1>6, Zenon DEF BeatNext, BeatTick, BeatSend, BeatStop, BeatQuit, Silence
<1>7. CASE UNCHANGED vars
  BY <1>7
<1> QED BY <1>1, <1>2, <1>3, <1>4, <1>5, <1>6, <1>7, ZenonT(30) DEF Next

\* Either stopOnce finds a checker that is running, or Start finds the state
\* closed; hbMu excludes the interleaving in between.
LEMMA BeatStep ==
    TypeOK /\ CleanupInv /\ StartInv /\ BeatInv /\ [Next]_vars => BeatInv'
<1> SUFFICES ASSUME TypeOK, CleanupInv, StartInv, BeatInv, [Next]_vars
             PROVE  BeatInv'
  OBVIOUS
<1> USE ConnectionAssumption
    DEF TypeOK, BeatInv, NoHeartbeatLeak, HbHandled, BeforeTake, Cloning,
        Launching, Cleanup
<1>1. ASSUME NEW s \in Starters, StartCAS(s) \/ StartNext(s) PROVE BeatInv'
  <2> USE DEF StartGoto, StartInv, CleanupInv
  <2>1. CASE StartCAS(s)
    <3>1. /\ state' = "created" => state = "created"
          /\ state = "created" => checker = "new"
          /\ UNCHANGED <<hb, hbTaken, checker, cleanup>>
      BY <2>1 DEF StartCAS, cleanupVars
    <3>2. \A t \in Starters :
             \/ start'[t] = start[t]
             \/ start[t] = "idle" /\ start'[t] = "bind" /\ state = "created"
             \/ start[t] = "idle" /\ start'[t] = "returned"
      BY <2>1, ZenonT(30) DEF StartCAS
    <3> QED BY ONLY BeatInv, <3>1, <3>2
            DEF BeatInv, NoHeartbeatLeak, HbHandled, BeforeTake, Cloning
  <2>2. CASE StartBind(s)
    BY <2>2, ZenonT(30) DEF StartBind
  <2>3. CASE StartCheck(s)
    <3>1. /\ UNCHANGED <<state, hb, hbTaken, checker, cleanup>>
          /\ state = "running" => cleanup = "new"
      BY <2>3 DEF StartCheck, cleanupVars
    <3>2. /\ start[s] = "check"
          /\ start'[s] = IF state = "running" THEN "beat" ELSE "drop"
          /\ \A t \in Starters : t # s => start'[t] = start[t]
      BY <2>3 DEF StartCheck, MayBeat
    <3> QED BY ONLY BeatInv, s \in Starters, <3>1, <3>2
            DEF BeatInv, NoHeartbeatLeak, HbHandled, BeforeTake, Cloning
  <2>4. CASE StartBeat(s)
    BY <2>4, Zenon DEF StartBeat
  <2>5. CASE StartDrop(s)
    BY <2>5, ZenonT(30) DEF StartDrop
  <2>6. CASE StartMark(s)
    BY <2>6, ZenonT(30) DEF StartMark
  <2>7. CASE StartSpawn(s)
    BY <2>7, ZenonT(30) DEF StartSpawn
  <2>8. CASE StartHook(s)
    BY <2>8, ZenonT(30) DEF StartHook
  <2>9. CASE HookStop(s)
    <3>1. CASE start[s] = "once" /\ StartGoto(s, "wait")
      BY <2>9, <3>1, ZenonT(30) DEF HookStop
    <3>2. CASE start[s] = "wait" /\ StartGoto(s, "returned")
      BY <2>9, <3>2, ZenonT(30) DEF HookStop
    <3> QED BY <2>9, <3>1, <3>2, ZenonT(30) DEF HookStop
  <2> QED BY <1>1, <2>1, <2>2, <2>3, <2>4, <2>5, <2>6, <2>7, <2>8, <2>9, ZenonT(30)
          DEF StartNext
<1>2. ASSUME NEW p \in Stoppers, StopCall(p) \/ StopNext(p) PROVE BeatInv'
  <2>1. CASE StopCall(p)
    BY <2>1 DEF StopCall
  <2>2. CASE StopOnceReturns(p)
    BY <2>2 DEF StopOnceReturns
  <2>3. CASE StopWait(p)
    BY <2>3 DEF StopWait
  <2> QED BY <1>2, <2>1, <2>2, <2>3, ZenonT(30) DEF StopNext
<1>3. CASE OnceNext
  <2> USE DEF CleanupInv, StartInv
  <2>1. CASE OnceEnter
    BY <2>1 DEF OnceEnter
  <2>2. CASE OnceTakeHb
    BY <2>2 DEF OnceTakeHb, HbMuFree
  <2>3. CASE OnceStopHb
    BY <2>3, ZenonT(30) DEF OnceStopHb
  <2>4. CASE OnceHook \/ OnceCloseSock \/ OnceCloseDone \/ OnceRemove
    BY <2>4, ZenonT(30) DEF OnceHook, OnceCloseSock, OnceCloseDone, OnceRemove
  <2> QED BY <1>3, <2>1, <2>2, <2>3, <2>4, ZenonT(30) DEF OnceNext
<1>4. CASE UNCHANGED lifeVars
  BY <1>4
<1> QED BY <1>1, <1>2, <1>3, <1>4, IOStep, Zenon DEF Next

\* Stop returns either after the reader has ended, or before it was launched,
\* and then on a closed socket that it cannot read from.
LEMMA QuietStep ==
    TypeOK /\ CleanupInv /\ StartInv /\ QuietInv /\ [Next]_vars => QuietInv'
<1> SUFFICES ASSUME TypeOK, CleanupInv, StartInv, QuietInv, [Next]_vars
             PROVE  QuietInv'
  OBVIOUS
<1> USE ConnectionAssumption DEF TypeOK, QuietInv
<1>1. ASSUME NEW s \in Starters, StartCAS(s) \/ StartNext(s) PROVE QuietInv'
  BY <1>1, Zenon DEF StartCAS, StartNext, StartBind, StartCheck, StartBeat, StartDrop,
     StartMark, StartSpawn, StartHook, HookStop, StartInv, Launching
<1>2. ASSUME NEW p \in Stoppers, StopCall(p) \/ StopNext(p) PROVE QuietInv'
  <2>1. CASE StopCall(p)
    BY <2>1 DEF StopCall
  <2>2. CASE StopOnceReturns(p)
    BY <2>2 DEF StopOnceReturns
  <2>3. CASE StopWait(p)
    BY <2>3 DEF StopWait, Waited, StartInv
  <2> QED BY <1>2, <2>1, <2>2, <2>3 DEF StopNext
<1>3. ASSUME NEW m \in Senders, SendEnter(m) \/ SendNext(m) PROVE QuietInv'
  BY <1>3, Zenon DEF SendEnter, SendNext, SendQueue, SendClosed, SendTimeout
<1>4. CASE OnceNext
  <2>1. CASE OnceEnter \/ OnceHook
    BY <2>1 DEF OnceEnter, OnceHook
  <2>2. CASE OnceTakeHb
    BY <2>2 DEF OnceTakeHb
  <2>3. CASE OnceStopHb
    BY <2>3 DEF OnceStopHb
  <2>4. CASE OnceCloseSock \/ OnceCloseDone \/ OnceRemove
    BY <2>4, Zenon DEF OnceCloseSock, OnceCloseDone, OnceRemove
  <2> QED BY <1>4, <2>1, <2>2, <2>3, <2>4 DEF OnceNext
<1>5. CASE ReaderNext
  <2>1. CASE ReadData
    BY <2>1 DEF ReadData, CleanupInv
  <2>2. CASE ReadError \/ Deliver \/ ReaderExit
    BY <2>2, ZenonT(30) DEF ReadError, Deliver, ReaderExit
  <2> QED BY <1>5, <2>1, <2>2 DEF ReaderNext
<1>6. CASE WriterNext \/ BeatNext \/ Silence
  BY <1>6, Zenon DEF WriterNext, WriterTake, WriterDone, WriteOk, WriteError,
     WriterExit, BeatNext, BeatTick, BeatSend, BeatStop, BeatQuit, Silence
<1>7. CASE UNCHANGED vars
  BY <1>7
<1> QED BY <1>1, <1>2, <1>3, <1>4, <1>5, <1>6, <1>7, ZenonT(30) DEF Next

\* IInv holds of the connection that NewConnection returns.
LEMMA InitIInv == Init => IInv
<1>1. Init => CleanupInv /\ StartInv /\ BeatInv /\ QuietInv
  BY ConnectionAssumption
     DEF Init, CleanupInv, StartInv, BeatInv, QuietInv, NoHeartbeatLeak,
         HbHandled, Launching, Cloning
<1> QED BY <1>1, InitTypeOK DEF IInv

\* Every step of the connection keeps IInv.
LEMMA IInvStep == IInv /\ [Next]_vars => IInv'
BY TypeStep, CleanupStep, StartStep, BeatStep, QuietStep, Zenon DEF IInv

\* IInv is an invariant of the connection.
THEOREM InductiveInvariant == Spec => []IInv
BY InitIInv, IInvStep, PTL DEF Spec

-----------------------------------------------------------------------------
(* What follows from it.                                                   *)

\* The heartbeat goroutine never outlives the connection: past hb.Stop in
\* stopOnce the checker is not running, for every interleaving of Start and
\* Stop.
THEOREM HeartbeatNeverLeaks == Spec => []NoHeartbeatLeak
<1>1. IInv => NoHeartbeatLeak
  BY DEF IInv, BeatInv
<1> QED BY <1>1, InductiveInvariant, PTL

\* A closed connection whose Start has finished refers to no checker.
THEOREM CheckerReleased == Spec => []NoStaleChecker
<1>1. IInv => NoStaleChecker
  BY DEF IInv, BeatInv, TypeOK, NoStaleChecker
<1> QED BY <1>1, InductiveInvariant, PTL

\* After a Stop has returned nothing of the connection reaches a handler or
\* the network any more.
THEOREM StopFinal == Spec => []StopIsFinal
<1>1. IInv => StopIsFinal
  BY DEF IInv, CleanupInv, QuietInv, StopIsFinal
<1> QED BY <1>1, InductiveInvariant, PTL

-----------------------------------------------------------------------------
(* What OfSenders computes.  It is defined by recursion, so each fact is an *)
(* induction along the queue.                                               *)

\* Induction up to n, on a set: what holds of 0 and goes on from each number to
\* the next holds up to n.
LEMMA UpTo ==
    ASSUME NEW n \in Nat, NEW S, 0 \in S,
           \A i \in 0..n : i < n /\ i \in S => i + 1 \in S
    PROVE  \A i \in 0..n : i \in S
<1> DEFINE T == (0..n) \ S
<1>1. ASSUME T # {} PROVE FALSE
  <2>1. T \subseteq Nat
    OBVIOUS
  <2>2. PICK x \in T : \A y \in T : ~ (<<y, x>> \in OpToRel(<, Nat))
    BY <1>1, <2>1, WFMin, NatLessThanWellFounded, Zenon
  <2>3. \A y \in T : ~(y < x)
    BY <2>1, <2>2, Zenon DEF OpToRel
  <2>4. x # 0 /\ x \in 0..n /\ x - 1 \in 0..n /\ x - 1 < n
    OBVIOUS
  <2>5. x - 1 \in S
    BY <2>3, <2>4
  <2> QED BY <2>4, <2>5
<1> QED BY <1>1

\* of lists what OfSenders leaves of the first n messages, of fewer, of none.
Filter(msgs, n, of) ==
    /\ of \in [0..n -> Seq(Senders)]
    /\ of[0] = <<>>
    /\ \A i \in 1..n :
           of[i] = IF msgs[i] = Beat THEN of[i - 1] ELSE Append(of[i - 1], msgs[i])

\* A list for n messages is continued by the next message.
LEMMA FilterNext ==
    ASSUME NEW msgs \in Seq(Message), NEW n \in 0..Len(msgs), n < Len(msgs), NEW f,
           Filter(msgs, n, f)
    PROVE  \E g : /\ Filter(msgs, n + 1, g)
                  /\ g[n + 1] = IF msgs[n + 1] = Beat THEN f[n]
                                ELSE Append(f[n], msgs[n + 1])
<1> DEFINE last == IF msgs[n + 1] = Beat THEN f[n] ELSE Append(f[n], msgs[n + 1])
           g == [i \in 0..(n + 1) |-> IF i = n + 1 THEN last ELSE f[i]]
<1>0. n \in Nat
  OBVIOUS
<1>1. msgs[n + 1] = Beat \/ msgs[n + 1] \in Senders
  BY DEF Message
<1>2. last \in Seq(Senders)
  BY <1>0, <1>1 DEF Filter
<1>3. g \in [0..(n + 1) -> Seq(Senders)]
  <2> HIDE DEF last
  <2> QED BY <1>0, <1>2 DEF Filter
<1>4. g[0] = <<>> /\ g[n + 1] = last
  BY <1>0 DEF Filter
<1>5. ASSUME NEW i \in 1..(n + 1)
      PROVE  g[i] = IF msgs[i] = Beat THEN g[i - 1] ELSE Append(g[i - 1], msgs[i])
  <2>1. CASE i = n + 1
    BY <1>0, <2>1
  <2>2. CASE i # n + 1
    <3>1. i \in 1..n /\ i \in 0..(n + 1) /\ i - 1 \in 0..(n + 1) /\ i - 1 # n + 1
      BY <1>0, <2>2
    <3>2. g[i] = f[i] /\ g[i - 1] = f[i - 1]
      BY <2>2, <3>1
    <3> HIDE DEF g
    <3> QED BY <3>1, <3>2, Zenon DEF Filter
  <2> QED BY <2>1, <2>2
<1> HIDE DEF g
<1>6. Filter(msgs, n + 1, g)
  BY <1>3, <1>4, <1>5 DEF Filter
<1> QED BY <1>4, <1>6

\* There is a list, however many messages there are.
LEMMA FilterExists ==
    ASSUME NEW msgs \in Seq(Message)
    PROVE  \E of : Filter(msgs, Len(msgs), of)
<1> DEFINE Listed(n) == \E of : Filter(msgs, n, of)
           S == {n \in 0..Len(msgs) : Listed(n)}
<1>1. Listed(0)
  <2>1. Filter(msgs, 0, [i \in 0..0 |-> <<>>])
    BY DEF Filter
  <2> QED BY <2>1
<1>2. ASSUME NEW n \in 0..Len(msgs), n < Len(msgs), Listed(n) PROVE Listed(n + 1)
  BY <1>2, FilterNext
<1>3. Len(msgs) \in Nat
  OBVIOUS
<1> HIDE DEF Listed
<1>4. 0 \in S /\ \A n \in 0..Len(msgs) : n < Len(msgs) /\ n \in S => n + 1 \in S
  BY <1>1, <1>2, <1>3
<1>5. \A n \in 0..Len(msgs) : n \in S
  BY <1>3, <1>4, UpTo, Zenon
<1>6. Listed(Len(msgs))
  BY <1>3, <1>5
<1> QED BY <1>6 DEF Listed

\* OfSenders is the last entry of the list.
LEMMA FilterLast ==
    ASSUME NEW msgs \in Seq(Message), NEW f, Filter(msgs, Len(msgs), f)
    PROVE  OfSenders(msgs) = f[Len(msgs)]
<1> DEFINE Step(h, i) == IF i = 0 THEN <<>>
                         ELSE IF msgs[i] = Beat THEN h[i - 1]
                         ELSE Append(h[i - 1], msgs[i])
           Def(h) == h = [i \in 0..Len(msgs) |-> Step(h, i)]
           of == CHOOSE h : Def(h)
           Same(i) == of[i] = f[i]
           S == {i \in 0..Len(msgs) : Same(i)}
<1>0. Len(msgs) \in Nat
  OBVIOUS
<1>1. OfSenders(msgs) = of[Len(msgs)]
  BY DEF OfSenders
<1>2. Def(f)
  <2>1. ASSUME NEW i \in 0..Len(msgs) PROVE f[i] = Step(f, i)
    <3>1. CASE i = 0
      BY <3>1 DEF Filter
    <3>2. CASE i # 0
      <4>1. i \in 1..Len(msgs)
        BY <1>0, <3>2
      <4> QED BY <3>2, <4>1, Zenon DEF Filter
    <3> QED BY <3>1, <3>2
  <2>2. f = [i \in 0..Len(msgs) |-> f[i]]
    BY DEF Filter
  <2> HIDE DEF Step
  <2> QED BY <2>1, <2>2
<1> HIDE DEF Def
<1>3. Def(of)
  BY <1>2
<1> HIDE DEF of
<1>4. /\ of[0] = <<>>
      /\ \A i \in 1..Len(msgs) :
             of[i] = IF msgs[i] = Beat THEN of[i - 1] ELSE Append(of[i - 1], msgs[i])
  <2>1. \A i \in 0..Len(msgs) : of[i] = Step(of, i)
    <3> HIDE DEF Step
    <3> QED BY <1>3 DEF Def
  <2>2. of[0] = Step(of, 0) /\ \A i \in 1..Len(msgs) : i # 0 /\ of[i] = Step(of, i)
    <3> HIDE DEF Step
    <3> QED BY <1>0, <2>1
  <2> QED BY <2>2
<1>5. Same(0)
  BY <1>4 DEF Filter
<1>6. ASSUME NEW i \in 0..Len(msgs), i < Len(msgs), Same(i) PROVE Same(i + 1)
  <2>1. i + 1 \in 1..Len(msgs) /\ (i + 1) - 1 = i
    BY <1>0, <1>6
  <2> QED BY <1>4, <1>6, <2>1 DEF Filter
<1> HIDE DEF Same
<1>7. 0 \in S /\ \A i \in 0..Len(msgs) : i < Len(msgs) /\ i \in S => i + 1 \in S
  BY <1>0, <1>5, <1>6
<1>8. \A i \in 0..Len(msgs) : i \in S
  BY <1>0, <1>7, UpTo, Zenon
<1>9. Same(Len(msgs))
  BY <1>0, <1>8
<1> QED BY <1>1, <1>9 DEF Same

\* A queue without messages has none of a sender.
LEMMA OfEmpty == OfSenders(<<>>) = <<>>
<1>1. Filter(<<>>, 0, [i \in 0..0 |-> <<>>])
  BY DEF Filter
<1> QED BY <1>1, FilterLast

\* What sending a message adds.
LEMMA OfAppend ==
    ASSUME NEW msgs \in Seq(Message), NEW m \in Message
    PROVE  /\ OfSenders(msgs) \in Seq(Senders)
           /\ OfSenders(Append(msgs, m)) = IF m = Beat THEN OfSenders(msgs)
                                           ELSE Append(OfSenders(msgs), m)
<1> DEFINE n == Len(msgs)
           more == Append(msgs, m)
<1>1. PICK f : Filter(msgs, n, f)
  BY FilterExists
<1>2. OfSenders(msgs) = f[n] /\ f[n] \in Seq(Senders)
  BY <1>1, FilterLast DEF Filter
<1>3. /\ more \in Seq(Message) /\ Len(more) = n + 1 /\ more[n + 1] = m
      /\ \A i \in 1..n : more[i] = msgs[i]
      /\ n \in 0..(n + 1) /\ n < n + 1
  OBVIOUS
<1>4. Filter(more, n, f)
  <2> HIDE DEF more, n
  <2> QED BY <1>1, <1>3, Zenon DEF Filter
<1>5. PICK g : /\ Filter(more, n + 1, g)
               /\ g[n + 1] = IF m = Beat THEN f[n] ELSE Append(f[n], m)
  <2> HIDE DEF more, n
  <2> QED BY <1>3, <1>4, FilterNext
<1>6. OfSenders(more) = g[n + 1]
  <2> HIDE DEF more, n
  <2> QED BY <1>3, <1>5, FilterLast, Zenon
<1> QED BY <1>2, <1>5, <1>6

\* Append goes with concatenation.
LEMMA ConcatAppend ==
    ASSUME NEW a \in Seq(Senders), NEW b \in Seq(Senders), NEW m \in Senders
    PROVE  a \o Append(b, m) = Append(a \o b, m)
OBVIOUS

\* The list of a queue goes on, after the first message, as that of the rest.
LEMMA FilterTail ==
    ASSUME NEW msgs \in Seq(Message), msgs # <<>>, NEW f, NEW g,
           Filter(msgs, Len(msgs), f), Filter(Tail(msgs), Len(msgs) - 1, g)
    PROVE  f[Len(msgs)] = f[1] \o g[Len(msgs) - 1]
<1> DEFINE rest == Tail(msgs)
           n == Len(msgs) - 1
           Split(i) == f[i + 1] = f[1] \o g[i]
           S == {i \in 0..n : Split(i)}
<1>0. /\ rest \in Seq(Message) /\ n \in Nat /\ Len(msgs) = n + 1 /\ Len(rest) = n
      /\ \A i \in 1..n : rest[i] = msgs[i + 1]
      /\ Filter(msgs, n + 1, f) /\ Filter(rest, n, g)
  OBVIOUS
<1> HIDE DEF rest, n
<1>1. f[1] \in Seq(Senders) /\ g[0] = <<>>
  BY <1>0 DEF Filter
<1>2. Split(0)
  BY <1>1
<1>3. ASSUME NEW i \in 0..n, i < n, Split(i) PROVE Split(i + 1)
  <2>1. /\ i + 1 \in 1..n /\ (i + 1) - 1 = i
        /\ i + 2 \in 1..(n + 1) /\ (i + 2) - 1 = i + 1 /\ (i + 1) + 1 = i + 2
    BY <1>0, <1>3
  <2>2. rest[i + 1] = msgs[i + 2]
    BY <1>0, <2>1
  <2>3. f[i + 2] = IF msgs[i + 2] = Beat THEN f[i + 1]
                   ELSE Append(f[i + 1], msgs[i + 2])
    BY ONLY <1>0, <2>1, Zenon DEF Filter
  <2>4. /\ g[i + 1] = IF rest[i + 1] = Beat THEN g[i] ELSE Append(g[i], rest[i + 1])
        /\ g[i] \in Seq(Senders)
    BY ONLY <1>0, <2>1, i \in 0..n, Zenon DEF Filter
  <2>5. rest[i + 1] = Beat \/ rest[i + 1] \in Senders
    BY <1>0, <2>1 DEF Message
  <2>6. f[i + 2] = f[1] \o g[i + 1]
    <3>1. f[i + 1] = f[1] \o g[i]
      BY <1>3
    <3>2. CASE rest[i + 1] = Beat
      BY ONLY <2>2, <2>3, <2>4, <3>1, <3>2
    <3>3. CASE rest[i + 1] # Beat
      <4>1. f[1] \o Append(g[i], rest[i + 1]) = Append(f[1] \o g[i], rest[i + 1])
        BY <1>1, <2>4, <2>5, <3>3, ConcatAppend, Zenon
      <4> QED BY ONLY <2>2, <2>3, <2>4, <3>1, <3>3, <4>1, ZenonT(30)
    <3> QED BY <3>2, <3>3, ZenonT(30)
  <2> QED BY ONLY <2>1, <2>6, Zenon
<1> HIDE DEF Split
<1>4. 0 \in S /\ \A i \in 0..n : i < n /\ i \in S => i + 1 \in S
  BY <1>0, <1>2, <1>3
<1>5. \A i \in 0..n : i \in S
  BY <1>0, <1>4, UpTo, Zenon
<1>6. Split(n)
  BY <1>0, <1>5
<1> QED BY <1>0, <1>6, Zenon DEF Split, n

\* Taking the first message of a queue splits what it holds of the senders.
LEMMA OfHead ==
    ASSUME NEW msgs \in Seq(Message), msgs # <<>>
    PROVE  OfSenders(msgs) = OfSenders(<<Head(msgs)>>) \o OfSenders(Tail(msgs))
<1> DEFINE rest == Tail(msgs)
           n == Len(msgs) - 1
<1>1. /\ rest \in Seq(Message) /\ Len(rest) = n
      /\ Len(msgs) \in Nat /\ Len(msgs) >= 1
      /\ Head(msgs) = msgs[1] /\ msgs[1] \in Message
  OBVIOUS
<1> HIDE DEF rest, n
<1>2. PICK f : Filter(msgs, Len(msgs), f) /\ OfSenders(msgs) = f[Len(msgs)]
  BY FilterExists, FilterLast
<1>3. PICK g : Filter(rest, n, g) /\ OfSenders(rest) = g[n]
  BY <1>1, FilterExists, FilterLast
<1>4. f[Len(msgs)] = f[1] \o g[n]
  BY <1>2, <1>3, FilterTail, Zenon DEF rest, n
<1>5. OfSenders(<<Head(msgs)>>) = f[1]
  <2>1. <<>> \in Seq(Message) /\ <<Head(msgs)>> = Append(<<>>, Head(msgs))
    BY <1>1
  <2>2. OfSenders(<<Head(msgs)>>)
            = IF msgs[1] = Beat THEN <<>> ELSE Append(<<>>, msgs[1])
    BY <1>1, <2>1, OfAppend, OfEmpty, Zenon
  <2>3. f[1] = IF msgs[1] = Beat THEN <<>> ELSE Append(<<>>, msgs[1])
    <3>1. 1 \in 1..Len(msgs) /\ 1 - 1 = 0
      BY <1>1
    <3> QED BY ONLY <1>2, <3>1, Zenon DEF Filter
  <2> QED BY <2>2, <2>3
<1> QED BY <1>2, <1>3, <1>4, <1>5, Zenon DEF rest

\* Concatenation of sequences is associative, ...
LEMMA ConcatAssoc ==
    ASSUME NEW a \in Seq(Senders), NEW b \in Seq(Senders), NEW c \in Seq(Senders)
    PROVE  (a \o b) \o c = a \o (b \o c)
OBVIOUS

\* ... the empty sequence is neutral, ...
LEMMA ConcatEmpty ==
    ASSUME NEW a \in Seq(Senders)
    PROVE  a \o <<>> = a /\ <<>> \o a = a
OBVIOUS

\* ... and one more message is a concatenation too.
LEMMA ConcatOne ==
    ASSUME NEW a \in Seq(Senders), NEW m \in Senders
    PROVE  a \o Append(<<>>, m) = Append(a, m)
OBVIOUS

\* What the writer has in flight is one message.
LEMMA OneLong ==
    ASSUME NEW s \in Seq(Message), s # <<>>, Len(s) <= 1
    PROVE  s = Append(<<>>, Head(s)) /\ Head(s) \in Message
<1>1. Len(s) = 1 /\ Head(s) = s[1] /\ s[1] \in Message
  OBVIOUS
<1>2. s = [i \in 1..1 |-> s[i]]
  BY <1>1
<1>3. Append(<<>>, s[1]) = [i \in 1..1 |-> s[i]]
  BY <1>1
<1> QED BY <1>1, <1>2, <1>3

-----------------------------------------------------------------------------
(* The order on the wire.                                                  *)

\* The writer is launched by one Start, and takes one message after the other.
LEMMA WriterStep ==
    ASSUME TypeOK, StartInv, WireInv, [Next]_vars
    PROVE  /\ writer' \in {"none", "select"} => inflight' = <<>>
           /\ state' = "created" => writer' = "none"
           /\ \A s \in Starters : start'[s] \in Launching => writer' = "none"
<1> DEFINE Idle == /\ writer \in {"none", "select"} => inflight = <<>>
                   /\ state = "created" => writer = "none"
                   /\ \A s \in Starters : start[s] \in Launching => writer = "none"
<1>0. Idle
  BY DEF WireInv
<1>1. ASSUME NEW s \in Starters, StartCAS(s) \/ StartNext(s) PROVE Idle'
  <2>1. CASE StartSpawn(s)
    <3>1. writer = "none" /\ inflight = <<>> /\ inflight' = <<>>
             /\ state' # "created"
      BY <1>0, <2>1, ZenonT(30) DEF StartSpawn, StartInv, Launching
    <3>2. \A t \in Starters : start'[t] \notin Launching
      BY <2>1, ZenonT(30) DEF StartSpawn, StartGoto, StartInv, Launching, TypeOK
    <3> QED BY <3>1, <3>2
  <2>2. CASE StartCAS(s)
    BY <1>0, <2>2, ZenonT(30) DEF StartCAS, StartGoto, Launching, TypeOK
  <2>3. CASE ~StartSpawn(s) /\ StartNext(s)
    <3>1. UNCHANGED <<writer, inflight, state>>
      BY <2>3, ZenonT(30)
         DEF StartNext, StartBind, StartCheck, StartBeat, StartDrop, StartMark,
         StartHook, HookStop
    <3>2. (\E t \in Starters : start'[t] \in Launching)
             => \E t \in Starters : start[t] \in Launching
      BY <2>3, ZenonT(30)
         DEF StartNext, StartBind, StartCheck, StartBeat, StartDrop, StartMark,
         StartHook, HookStop, StartGoto, Launching, TypeOK
    <3> QED BY <1>0, <3>1, <3>2
  <2> QED BY <1>1, <2>1, <2>2, <2>3
<1>2. ASSUME NEW p \in Stoppers, StopCall(p) \/ StopNext(p) PROVE Idle'
  BY <1>0, <1>2, ZenonT(30) DEF StopCall, StopNext, StopOnceReturns, StopWait
<1>3. CASE OnceNext
  BY <1>0, <1>3, ZenonT(30) DEF OnceNext, OnceEnter, OnceHook, OnceTakeHb, OnceStopHb,
     OnceCloseSock, OnceCloseDone, OnceRemove
<1>4. ASSUME NEW m \in Senders, SendEnter(m) \/ SendNext(m) PROVE Idle'
  BY <1>0, <1>4, ZenonT(30) DEF SendEnter, SendNext, SendQueue, SendClosed, SendTimeout
<1>5. CASE WriterNext
  BY <1>0, <1>5, ZenonT(30) DEF WriterNext, WriterTake, WriterDone, WriteOk, WriteError,
     WriterExit
<1>6. CASE ReaderNext \/ BeatNext \/ Silence
  BY <1>0, <1>6, Zenon DEF ReaderNext, ReadData, ReadError, Deliver, ReaderExit,
     BeatNext, BeatTick, BeatSend, BeatStop, BeatQuit, Silence
<1>7. CASE UNCHANGED vars
  BY <1>0, <1>7
<1> QED BY <1>1, <1>2, <1>3, <1>4, <1>5, <1>6, <1>7, ZenonT(30) DEF Next

\* SendMsg and the heartbeat queue at the end, the writer takes from the front,
\* and what the socket accepts is what was in flight.
LEMMA WireStep ==
    ASSUME TypeOK, TypeOK', WireInv, [Next]_vars
    PROVE  WireOrder'
<1>0. /\ accepted \in Seq(Senders) /\ written \in Seq(Senders)
      /\ inflight \in Seq(Message) /\ msgChan \in Seq(Message)
      /\ Beat \in Message /\ \A m \in Senders : m \in Message /\ m # Beat
  BY ConnectionAssumption, Zenon DEF TypeOK, Message
<1>1. /\ OfSenders(inflight) \in Seq(Senders)
      /\ OfSenders(msgChan) \in Seq(Senders)
  BY <1>0, OfAppend
<1>2. accepted = (written \o OfSenders(inflight)) \o OfSenders(msgChan)
  BY DEF WireInv, WireOrder
<1>3. CASE WriterTake
  <2>1. /\ msgChan # <<>> /\ inflight = <<>>
        /\ inflight' = <<Head(msgChan)>> /\ msgChan' = Tail(msgChan)
        /\ accepted' = accepted /\ written' = written
    BY <1>3 DEF WriterTake, WireInv
  <2>2. accepted = written \o OfSenders(msgChan)
    BY <1>0, <1>1, <1>2, <2>1, OfEmpty, ConcatEmpty, Zenon
  <2>3. OfSenders(msgChan) = OfSenders(inflight') \o OfSenders(msgChan')
    BY <1>0, <2>1, OfHead
  <2>4. OfSenders(inflight') \in Seq(Senders) /\ OfSenders(msgChan') \in Seq(Senders)
    BY <1>0, OfAppend, Zenon DEF TypeOK
  <2>5. written \o (OfSenders(inflight') \o OfSenders(msgChan'))
           = (written \o OfSenders(inflight')) \o OfSenders(msgChan')
    BY <1>0, <2>4, ConcatAssoc, Zenon
  <2> QED BY <2>1, <2>2, <2>3, <2>5, Zenon DEF WireOrder
<1>4. CASE WriteOk
  <2>1. /\ inflight' = <<>> /\ msgChan' = msgChan /\ accepted' = accepted
        /\ written' = IF Head(inflight) = Beat THEN written
                      ELSE Append(written, Head(inflight))
    BY <1>4 DEF WriteOk
  <2>2. inflight = Append(<<>>, Head(inflight)) /\ Head(inflight) \in Message
    <3>1. inflight # <<>> /\ Len(inflight) <= 1
      BY <1>4, Zenon DEF WriteOk, TypeOK
    <3> QED BY <1>0, <3>1, OneLong
  <2>3. OfSenders(inflight) = IF Head(inflight) = Beat THEN <<>>
                              ELSE Append(<<>>, Head(inflight))
    <3>1. <<>> \in Seq(Message)
      OBVIOUS
    <3> QED BY <2>2, <3>1, OfAppend, OfEmpty, ZenonT(30)
  <2>4. written' = written \o OfSenders(inflight)
    <3>1. CASE Head(inflight) = Beat
      BY <1>0, <2>1, <2>3, <3>1, ConcatEmpty
    <3>2. CASE Head(inflight) # Beat
      <4>1. Head(inflight) \in Senders
        BY <2>2, <3>2 DEF Message
      <4> QED BY <1>0, <2>1, <2>3, <3>2, <4>1, ConcatOne
    <3> QED BY <3>1, <3>2
  <2>5. written' \o <<>> = written'
    BY ConcatEmpty, ZenonT(30) DEF TypeOK
  <2> QED BY <1>2, <2>1, <2>4, <2>5, OfEmpty, ZenonT(30) DEF WireOrder
<1>5. ASSUME NEW m \in Senders, SendQueue(m) PROVE WireOrder'
  <2>1. /\ msgChan' = Append(msgChan, m) /\ accepted' = Append(accepted, m)
        /\ UNCHANGED <<inflight, written>>
    BY <1>5 DEF SendQueue
  <2>2. OfSenders(msgChan') = Append(OfSenders(msgChan), m)
    BY <1>0, <2>1, OfAppend
  <2>3. written \o OfSenders(inflight) \in Seq(Senders)
    BY <1>0, <1>1
  <2>4. (written \o OfSenders(inflight)) \o Append(OfSenders(msgChan), m)
          = Append((written \o OfSenders(inflight)) \o OfSenders(msgChan), m)
    BY <1>1, <2>3, ConcatAppend
  <2> QED BY <1>2, <2>1, <2>2, <2>4 DEF WireOrder
<1>6. CASE BeatSend
  <2>1. UNCHANGED <<inflight, written, accepted>>
    BY <1>6 DEF BeatSend
  <2>2. msgChan' = msgChan \/ msgChan' = Append(msgChan, Beat)
    BY <1>6 DEF BeatSend
  <2>3. OfSenders(msgChan') = OfSenders(msgChan)
    BY <1>0, <2>2, OfAppend, ZenonT(30)
  <2> QED BY <1>2, <2>1, <2>3 DEF WireOrder
<1>7. CASE UNCHANGED <<msgChan, inflight, accepted, written>>
  BY <1>2, <1>7 DEF WireOrder
<1>8. \/ WriterTake \/ WriteOk \/ BeatSend \/ \E m \in Senders : SendQueue(m)
      \/ UNCHANGED <<msgChan, inflight, accepted, written>>
  <2>1. ASSUME NEW s \in Starters, StartCAS(s) \/ StartNext(s)
        PROVE  UNCHANGED <<msgChan, inflight, accepted, written>>
    BY <2>1, ZenonT(30)
       DEF StartCAS, StartNext, StartBind, StartCheck, StartBeat, StartDrop,
       StartMark, StartSpawn, StartHook, HookStop
  <2>2. ASSUME NEW p \in Stoppers, StopCall(p) \/ StopNext(p)
        PROVE  UNCHANGED <<msgChan, inflight, accepted, written>>
    BY <2>2, ZenonT(30) DEF StopCall, StopNext, StopOnceReturns, StopWait
  <2>3. ASSUME NEW m \in Senders, SendEnter(m) \/ SendNext(m)
        PROVE  SendQueue(m) \/ UNCHANGED <<msgChan, inflight, accepted, written>>
    BY <2>3, ZenonT(30) DEF SendEnter, SendNext, SendClosed, SendTimeout
  <2>4. ASSUME OnceNext PROVE UNCHANGED <<msgChan, inflight, accepted, written>>
    BY <2>4, ZenonT(30) DEF OnceNext, OnceEnter, OnceHook, OnceTakeHb, OnceStopHb,
       OnceCloseSock, OnceCloseDone, OnceRemove
  <2>5. ASSUME ReaderNext PROVE UNCHANGED <<msgChan, inflight, accepted, written>>
    BY <2>5, ZenonT(30) DEF ReaderNext, ReadData, ReadError, Deliver, ReaderExit
  <2>6. ASSUME WriterNext, ~WriterTake, ~WriteOk
        PROVE  UNCHANGED <<msgChan, inflight, accepted, written>>
    BY <2>6, ZenonT(30) DEF WriterNext, WriterDone, WriteError, WriterExit
  <2>7. ASSUME BeatNext \/ Silence, ~BeatSend
        PROVE  UNCHANGED <<msgChan, inflight, accepted, written>>
    BY <2>7, Zenon DEF BeatNext, BeatTick, BeatStop, BeatQuit, Silence
  <2>8. UNCHANGED vars => UNCHANGED <<msgChan, inflight, accepted, written>>
    OBVIOUS
  <2> QED BY <2>1, <2>2, <2>3, <2>4, <2>5, <2>6, <2>7, <2>8, Zenon DEF Next
<1> QED BY <1>3, <1>4, <1>5, <1>6, <1>7, <1>8

\* Messages reach the socket in the order in which SendMsg accepted them, and
\* none is lost, duplicated or overtaken in between.
THEOREM WireOrdered == Spec => []WireOrder
<1>1. Init => WireInv
  <2>1. <<>> \o <<>> = <<>>
    OBVIOUS
  <2> QED BY <2>1, OfEmpty DEF Init, WireInv, WireOrder, Launching
<1>2. IInv /\ IInv' /\ WireInv /\ [Next]_vars => WireInv'
  BY WriterStep, WireStep, Zenon DEF IInv, WireInv
<1>3. WireInv => WireOrder
  BY DEF WireInv
<1> QED BY <1>1, <1>2, <1>3, InductiveInvariant, PTL DEF Spec

-----------------------------------------------------------------------------
(* The connection and the pool (module ConnDispatch)                       *)

\* Counting one further.
LEMMA OneMore ==
    ASSUME NEW n \in Nat, n >= 1
    PROVE  1..(n - 1) \cup {n} = 1..n
  OBVIOUS

\* What is counted before n is counted.
LEMMA Counted ==
    ASSUME NEW top \in Int, NEW n \in 1..top, NEW m \in 1..n
    PROVE  m \in 1..top /\ (m = n \/ m < n)
  OBVIOUS

USE DEF pool, conn

-----------------------------------------------------------------------------
(* The pool of the composition is the pool of MsgHandler.                  *)

\* What the pool of a server with one connection can do in one step.
PoolStep ==
    \/ Pool!StartWorkerPool
    \/ Pool!DispatchSnapshot(conn) \/ Pool!DispatchSend(conn)
    \/ \E w \in Pool!Workers : Pool!WorkerTake(w) \/ Pool!ExecuteEnd(w)
    \/ UNCHANGED pool

\* Reader, handlers and connection use the pool only through its operations.
LEMMA PoolStepOnly == [DispatchNext]_allVars => PoolStep
BY Zenon DEF DispatchNext, PoolStart, ConnStart, Read, ReaderOther, HandOver,
   HandedOver, ConnOther, WorkerTake, HandlerStop, HandlerSend, HandlerReturns,
   allVars, PoolStep

\* Every step of the composition is a step of the pool, or leaves it alone.
LEMMA PoolNext == [DispatchNext]_allVars => [Pool!Next]_(Pool!vars)
<1>1. PoolStep => [Pool!Next]_(Pool!vars)
  BY DEF PoolStep, Pool!Next, Pool!WorkerNext, Pool!vars
<1> QED BY <1>1, PoolStepOnly

\* A connection drives the pool as MsgHandler expects of its readers: what is
\* proved of the pool alone holds of the pool that serves the connection.
THEOREM ImplementsPool == DispatchSpec => Pool!Spec
<1>1. DispatchInit => Pool!Init
  BY DEF DispatchInit
<1> QED BY <1>1, PoolNext, PTL DEF DispatchSpec, Pool!Spec

-----------------------------------------------------------------------------
(* The connection of the composition.                                      *)

\* What a worker that takes a request changes of the connection: its SendMsg,
\* for the next handler.
SenderReset ==
    /\ \E w \in Senders : SendGoto(w, "idle")
    /\ UNCHANGED <<lifeVars, reader, writer, beat, ioVars>>

\* Every step of the composition is a step of the connection, leaves it alone,
\* or begins the next handler.
LEMMA ConnNext == [DispatchNext]_allVars => [Next]_vars \/ SenderReset
<1> SUFFICES ASSUME [DispatchNext]_allVars PROVE [Next]_vars \/ SenderReset
  OBVIOUS
<1>1. ASSUME NEW w \in Pool!Workers,
             WorkerTake(w) \/ HandlerStop(w) \/ HandlerSend(w) \/ HandlerReturns(w)
      PROVE  [Next]_vars \/ SenderReset
  <2>1. w \in Senders /\ w \in Stoppers
    BY ConnDispatchAssumption
  <2> QED BY <1>1, <2>1, Zenon
          DEF WorkerTake, HandlerStop, HandlerSend, HandlerReturns, Next, SenderReset
<1>2. CASE ConnOther
  BY <1>2 DEF ConnOther, Next
<1>3. CASE PoolStart \/ HandedOver \/ UNCHANGED allVars
  BY <1>3, ZenonT(30) DEF PoolStart, HandedOver, allVars
<1>4. CASE (\E s \in Starters : ConnStart(s)) \/ Read \/ ReaderOther \/ HandOver
  BY <1>4, ZenonT(30) DEF ConnStart, Read, ReaderOther, HandOver, Next, ReaderNext
<1> QED BY <1>1, <1>2, <1>3, <1>4, ZenonT(30) DEF DispatchNext

\* The invariant of the connection does not depend on which handler runs.
LEMMA ConnStep == IInv /\ [DispatchNext]_allVars => IInv'
<1> SUFFICES ASSUME IInv, [DispatchNext]_allVars PROVE IInv'
  OBVIOUS
<1>1. CASE [Next]_vars
  BY <1>1, IInvStep
<1>2. CASE SenderReset
  <2> USE DEF lifeVars, cleanupVars, ioVars
  <2>1. TypeOK'
    <3>1. TypeOK
      BY DEF IInv
    <3>2. send' \in [Senders -> SendPC]
      BY <1>2, <3>1, ZenonT(30) DEF SenderReset, SendGoto, TypeOK, SendPC
    <3>3. UNCHANGED <<lifeVars, reader, writer, beat, ioVars>>
      BY <1>2 DEF SenderReset
    <3>4. UNCHANGED <<state, started, hb, hbMu, checker, start, stop, cleanup, hbTaken,
                      sock, done, registered>>
      BY ONLY <3>3 DEF lifeVars, cleanupVars
    <3>5. UNCHANGED <<reader, writer, beat, activity, batch, msgChan, inflight, accepted,
                      written>>
      BY ONLY <3>3 DEF ioVars
    <3>6. /\ batch \in 0..MaxBatch /\ msgChan \in Seq(Message) /\ Len(msgChan) <= QueueSize
          /\ inflight \in Seq(Message) /\ Len(inflight) <= 1
          /\ writer = "write" => inflight # <<>>
      BY ONLY <3>1, Zenon DEF TypeOK
    <3>7. /\ batch' \in 0..MaxBatch /\ msgChan' \in Seq(Message) /\ Len(msgChan') <= QueueSize
          /\ inflight' \in Seq(Message) /\ Len(inflight') <= 1
          /\ writer' = "write" => inflight' # <<>>
      BY ONLY <3>5, <3>6, Zenon
    <3>8. /\ start' \in [Starters -> StartPC] /\ stop' \in [Stoppers -> StopPC]
          /\ reader' \in ReaderPC /\ writer' \in WriterPC /\ beat' \in BeatPC
          /\ accepted' \in Seq(Senders) /\ written' \in Seq(Senders)
      BY ONLY <3>1, <3>4, <3>5, Zenon DEF TypeOK
    <3>9. /\ state' \in {"created", "running", "closed"} /\ started' \in {"no", "yes"}
          /\ cleanup' \in Cleanup /\ hb' \in {"nil", "clone"}
          /\ hbMu' \in Starters \cup {"free"} /\ hbTaken' \in {"nil", "clone"}
          /\ checker' \in {"new", "started", "stopped"}
      BY ONLY <3>1, <3>4 DEF TypeOK
    <3>10. /\ sock' \in {"open", "closed"} /\ done' \in {"open", "closed"}
           /\ registered' \in {"no", "yes"} /\ activity' \in {"fresh", "stale"}
      BY ONLY <3>1, <3>4, <3>5 DEF TypeOK
    <3> QED BY ONLY <3>2, <3>7, <3>8, <3>9, <3>10 DEF TypeOK
  <2>2. CleanupInv' /\ QuietInv'
    BY <1>2 DEF SenderReset, IInv, CleanupInv, QuietInv
  <2>3. StartInv'
    BY <1>2, ZenonT(30) DEF SenderReset, IInv, StartInv
  <2>4. BeatInv'
    BY <1>2, ZenonT(30) DEF SenderReset, IInv, BeatInv, NoHeartbeatLeak, HbHandled
  <2> QED BY <2>1, <2>2, <2>3, <2>4 DEF IInv
<1> QED BY <1>1, <1>2, ConnNext

-----------------------------------------------------------------------------
(* The two together.                                                       *)

\* The reader is one goroutine, and Start launches it once: it stays at the
\* batch it delivers for as long as it is inside SendMsgToTaskQueue.
LEMMA HandOverStep ==
    ASSUME IInv, Pool!IInv, HandOverInv, [DispatchNext]_allVars
    PROVE  HandOverInv'
<1> USE DEF HandOverInv, Dispatching
<1>1. CASE PoolStart \/ HandedOver \/ UNCHANGED allVars
  <2>1. dispatch'[ConnID] = "send" => dispatch[ConnID] = "send"
    BY <1>1, ZenonT(30) DEF PoolStart, HandedOver, allVars, Pool!StartWorkerPool,
       Pool!DispatchSend, Pool!IInv, Pool!TypeOK
  <2>2. reader' = reader
    BY <1>1, Zenon DEF PoolStart, HandedOver, allVars, vars
  <2> QED BY <2>1, <2>2
<1>2. ASSUME NEW s \in Starters, ConnStart(s) PROVE HandOverInv'
  <2>1. start[s] = "spawn" => reader = "none"
    BY DEF IInv, StartInv, Launching
  <2>2. reader' = reader \/ start[s] = "spawn"
    BY <1>2, Zenon DEF ConnStart, StartCAS, StartNext, StartBind, StartCheck, StartBeat,
       StartDrop, StartMark, StartSpawn, StartHook, HookStop
  <2>3. dispatch' = dispatch
    BY <1>2 DEF ConnStart
  <2> QED BY <2>1, <2>2, <2>3
<1>3. CASE Read \/ ReaderOther
  BY <1>3, Zenon DEF Read, ReaderOther
<1>4. CASE HandOver
  <2>1. batch \in Nat
    BY ConnectionAssumption DEF IInv, TypeOK
  <2>2. reader' = "deliver"
    BY ONLY <1>4, <2>1 DEF HandOver, Deliver
  <2> QED BY ONLY <2>2
<1>5. CASE ConnOther
  <2>1. ASSUME NEW p \in Stoppers, StopCall(p) \/ StopNext(p) PROVE reader' = reader
    BY ONLY <2>1, ZenonT(30) DEF StopCall, StopNext, StopOnceReturns, StopWait
  <2>2. ASSUME NEW m \in Senders, SendNext(m) PROVE reader' = reader
    BY ONLY <2>2, ZenonT(30) DEF SendNext, SendQueue, SendClosed, SendTimeout
  <2>3. ASSUME OnceNext PROVE reader' = reader
    BY ONLY <2>3, ZenonT(30)
       DEF OnceNext, OnceEnter, OnceHook, OnceTakeHb, OnceStopHb, OnceCloseSock,
           OnceCloseDone, OnceRemove, callers
  <2>4. ASSUME WriterNext PROVE reader' = reader
    BY ONLY <2>4, Zenon
       DEF WriterNext, WriterTake, WriterDone, WriteOk, WriteError, WriterExit
  <2>5. reader' = reader /\ dispatch' = dispatch
    BY ONLY <1>5, <2>1, <2>2, <2>3, <2>4 DEF ConnOther
  <2> QED BY ONLY <2>5, HandOverInv
<1>6. ASSUME NEW w \in Pool!Workers,
             WorkerTake(w) \/ HandlerStop(w) \/ HandlerSend(w) \/ HandlerReturns(w)
      PROVE  HandOverInv'
  <2>1. dispatch' = dispatch
    BY <1>6, ZenonT(30) DEF WorkerTake, HandlerStop, HandlerSend, HandlerReturns,
       Pool!WorkerTake, Pool!Receive, Pool!ExecuteEnd, Pool!dispatchVars
  <2>2. reader' = reader
    BY <1>6, ZenonT(30)
       DEF WorkerTake, HandlerStop, HandlerSend, HandlerReturns, StopCall,
       SendEnter, vars
  <2> QED BY <2>1, <2>2
<1> QED BY <1>1, <1>2, <1>3, <1>4, <1>5, <1>6, ZenonT(30) DEF DispatchNext

\* A frame is queued before the reader hands over the next one.
LEMMA FramesStep ==
    ASSUME Pool!IInv, FramesInv, PoolStep
    PROVE  FramesInv'
<1> USE DEF FramesInv, Dispatching
<1>0. /\ dispatch[ConnID] \in {"idle", "send"}
      /\ dispatch \in [{ConnID} -> {"idle", "send"}]
      /\ sent \in [{ConnID} -> 0..MaxFrames]
      /\ DOMAIN pooled = {ConnID}
      /\ dispatch[ConnID] = "send" => sent[ConnID] >= 1
  BY ZenonT(30) DEF Pool!IInv, Pool!TypeOK, Pool!SentInv, Pool!DispatchPC
<1>1. CASE Pool!StartWorkerPool
  BY <1>1, Zenon DEF Pool!StartWorkerPool
<1>2. CASE Pool!DispatchSnapshot(ConnID)
  <2>1. /\ dispatch[ConnID] = "idle" /\ dispatch'[ConnID] = "send"
        /\ sent'[ConnID] = sent[ConnID] + 1
        /\ pooled' = pooled /\ workerCtx' = workerCtx /\ workerCancel' = workerCancel
    BY <1>0, <1>2, ZenonT(30) DEF Pool!DispatchSnapshot, Pool!poolVars
  <2>2. sent[ConnID] \in 0..MaxFrames
    BY <1>0, Zenon
  <2>3. (sent[ConnID] + 1) - 1 = sent[ConnID]
    BY ONLY <2>2, ConnDispatchAssumption
  <2>4. pooled[ConnID] = 1..sent[ConnID]
    BY <2>1
  <2> QED BY <2>1, <2>3, <2>4, Zenon
<1>3. CASE Pool!DispatchSend(ConnID)
  <2>1. /\ dispatch[ConnID] = "send" /\ dispatch'[ConnID] = "idle"
        /\ sent' = sent /\ workerCtx' = workerCtx /\ workerCancel' = workerCancel
        /\ pooled'[ConnID] = pooled[ConnID] \cup {sent[ConnID]}
    BY <1>0, <1>3, Zenon DEF Pool!DispatchSend, Pool!poolVars
  <2>2. sent[ConnID] \in Nat /\ sent[ConnID] >= 1
    <3>1. sent[ConnID] \in 0..MaxFrames
      BY <1>0
    <3>2. sent[ConnID] >= 1
      BY <1>0, <2>1, Zenon
    <3> QED BY ONLY <3>1, <3>2, ConnDispatchAssumption
  <2>3. 1..(sent[ConnID] - 1) \cup {sent[ConnID]} = 1..sent[ConnID]
    BY <2>2, OneMore, Zenon
  <2>4. pooled[ConnID] = 1..(sent[ConnID] - 1)
    BY <2>1, ZenonT(30)
  <2> QED BY <2>1, <2>3, <2>4, ZenonT(30)
<1>4. CASE UNCHANGED pool
          \/ \E w \in Pool!Workers : Pool!WorkerTake(w) \/ Pool!ExecuteEnd(w)
  <2>1. UNCHANGED <<dispatch, sent, pooled, workerCtx, workerCancel>>
    BY <1>4, Zenon
       DEF Pool!WorkerTake, Pool!Receive, Pool!ExecuteEnd, Pool!dispatchVars,
       Pool!poolVars
  <2> QED BY <2>1
<1> QED BY <1>1, <1>2, <1>3, <1>4, ZenonT(30) DEF PoolStep

\* A Stop that has returned has waited for the reader, which alone hands over.
LEMMA StoppedStep ==
    ASSUME DispatchInv, [DispatchNext]_allVars, NEW p \in Stoppers, stop[p] = "returned"
    PROVE  ~Dispatching /\ UNCHANGED <<sent, pooled>>
<1>1. reader # "deliver"
  BY DEF DispatchInv, IInv, QuietInv
<1>2. ~Dispatching
  BY <1>1 DEF DispatchInv, HandOverInv
<1>3. ~HandOver /\ ~HandedOver
  BY <1>1, <1>2, ZenonT(30) DEF HandOver, HandedOver, Deliver, Dispatching,
     Pool!DispatchSend
<1>4. UNCHANGED <<sent, pooled>>
  BY <1>3, ZenonT(30)
     DEF DispatchNext, PoolStart, ConnStart, Read, ReaderOther, ConnOther,
         WorkerTake, HandlerStop, HandlerSend, HandlerReturns, allVars,
         Pool!StartWorkerPool, Pool!WorkerTake, Pool!Receive, Pool!ExecuteEnd,
         Pool!dispatchVars
<1> QED BY <1>2, <1>4

\* The handlers begin with the frames in the order of the queue, and the queue
\* got all of them.
LEMMA InOrder ==
    ASSUME DispatchInv, NEW n \in began[conn], NEW m \in 1..n
    PROVE  m \in began[conn]
<1>1. /\ n \in pooled[conn]
      /\ \A k \in pooled[conn] : k < n => k \in began[conn]
  BY DEF DispatchInv, Pool!IInv, Pool!SentInv, Pool!PerConnOrder
<1> DEFINE last == IF Dispatching THEN sent[conn] - 1 ELSE sent[conn]
<1>2. last \in Int
  <2>1. sent[conn] \in 0..MaxFrames
    BY DEF DispatchInv, Pool!IInv, Pool!TypeOK
  <2> QED BY ONLY <2>1, ConnDispatchAssumption
<1>3. pooled[conn] = 1..last
  BY Zenon DEF DispatchInv, FramesInv
<1> HIDE DEF last
<1>4. m \in 1..last /\ (m = n \/ m < n)
  BY <1>1, <1>2, <1>3, Counted, Zenon
<1> QED BY <1>1, <1>3, <1>4

-----------------------------------------------------------------------------
(* The invariant of the pool, carried over from MsgHandlerProofs           *)

\* The theorems about the pool, for the pool of the composition.
PoolP == INSTANCE MsgHandlerProofs WITH
             Conns <- {ConnID}, Stoppers <- {}, stop <- poolStop,
             MaxRequests <- MaxFrames, MaxStarts <- 1

\* PoolP names the same pool: its definitions are those of Pool.
LEMMA SamePool ==
    /\ Pool!Init => PoolP!Init
    /\ PoolStep => [PoolP!Next]_(PoolP!vars)
    /\ PoolP!IInv => Pool!IInv
<1>1. Pool!Init => PoolP!Init
  BY DEF Pool!Init, PoolP!Init, Pool!Workers, PoolP!Workers
<1>2. PoolStep => [PoolP!Next]_(PoolP!vars)
  BY ZenonT(30) DEF Pool!StartWorkerPool, PoolP!StartWorkerPool, Pool!DispatchSnapshot,
     PoolP!DispatchSnapshot, Pool!DispatchSend, PoolP!DispatchSend,
     Pool!WorkerTake, PoolP!WorkerTake, Pool!Receive, PoolP!Receive,
     Pool!ExecuteEnd, PoolP!ExecuteEnd, Pool!HasRoom, PoolP!HasRoom,
     Pool!WorkerOf, PoolP!WorkerOf, Pool!Workers, PoolP!Workers, Pool!poolVars,
     PoolP!poolVars, Pool!dispatchVars, PoolP!dispatchVars,
     PoolStep, PoolP!Next, PoolP!WorkerNext, PoolP!vars
<1>3. PoolP!IInv => Pool!IInv
  BY Zenon DEF Pool!IInv, PoolP!IInv, Pool!TypeOK, PoolP!TypeOK, Pool!QueueInv,
     PoolP!QueueInv, Pool!SentInv, PoolP!SentInv, Pool!CurrentInv,
     PoolP!CurrentInv, Pool!PerConnOrder, PoolP!PerConnOrder, Pool!ExactlyOnce,
     PoolP!ExactlyOnce, Pool!Waits, PoolP!Waits, Pool!WorkerOf, PoolP!WorkerOf,
     Pool!Workers, PoolP!Workers, Pool!Number, PoolP!Number, Pool!Request,
     PoolP!Request, Pool!WorkerPC, PoolP!WorkerPC, Pool!DispatchPC,
     PoolP!DispatchPC, Pool!StopPC, PoolP!StopPC
<1> QED BY <1>1, <1>2, <1>3

\* The invariant of the pool, carried over from MsgHandlerProofs.
THEOREM PoolInvariant == DispatchSpec => []Pool!IInv
<1>1. DispatchInit => PoolP!Init
  BY SamePool DEF DispatchInit
<1>2. [DispatchNext]_allVars => [PoolP!Next]_(PoolP!vars)
  BY PoolStepOnly, SamePool
<1>3. PoolP!Spec => []PoolP!IInv
  BY ConnDispatchAssumption, PoolP!InductiveInvariant
<1>4. PoolP!IInv => Pool!IInv
  BY SamePool
<1> QED BY <1>1, <1>2, <1>3, <1>4, PTL DEF DispatchSpec, PoolP!Spec

-----------------------------------------------------------------------------
(* The theorems of the composition                                         *)

\* DispatchInv is an invariant of the composition.
THEOREM DispatchInvariant == DispatchSpec => []DispatchInv
<1>1. DispatchInit => IInv
  BY InitIInv DEF DispatchInit
<1>2. DispatchInit => HandOverInv /\ FramesInv
  BY DEF DispatchInit, Pool!Init, HandOverInv, FramesInv, Dispatching
<1>3. IInv /\ Pool!IInv /\ HandOverInv /\ FramesInv /\ [DispatchNext]_allVars
          => IInv' /\ HandOverInv' /\ FramesInv'
  BY ConnStep, HandOverStep, FramesStep, PoolStepOnly
<1> QED BY <1>1, <1>2, <1>3, PoolInvariant, PTL DEF DispatchSpec, DispatchInv

\* Once a Stop has returned, the connection hands no further request to the
\* pool and none is on its way, whoever called Stop: a handler of the same
\* connection, another goroutine, or both.
THEOREM StopQuietens == DispatchSpec => QuietAfterStop
<1>1. DispatchInv /\ [DispatchNext]_allVars
          => [(\E p \in Stoppers : stop[p] = "returned")
                 => ~Dispatching /\ UNCHANGED <<sent, pooled>>]_allVars
  BY StoppedStep, Zenon
<1> QED BY <1>1, DispatchInvariant, PTL DEF DispatchSpec, QuietAfterStop

\* The frames of the connection reach its handlers in the order in which they
\* were read, without a gap.
THEOREM FramesOrdered == DispatchSpec => []FramesInOrder
<1>1. DispatchInv => FramesInOrder
  BY InOrder, Zenon DEF FramesInOrder
<1> QED BY <1>1, DispatchInvariant, PTL
=============================================================================
