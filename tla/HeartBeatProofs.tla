-------------------------- MODULE HeartBeatProofs ---------------------------
(***************************************************************************)
(* Safety of the heartbeat template and of the metrics, for any number of  *)
(* calls that set the heartbeat, with any arguments, and any number of     *)
(* connections.                                                            *)
(***************************************************************************)
EXTENDS HeartBeat, FiniteSetTheorems, TLAPS

(* The registry: one handle per name, the one Prometheus gathers, however   *)
(* the look-ups and creations of any number of goroutines overlap.          *)

\* A goroutine that still has names to fetch takes the first of them.
LEMMA WantHead ==
    ASSUME MetricsTypeOK, NEW f \in Fetchers, ~Fetched(f)
    PROVE  /\ Head(want[f]) \in Names
           /\ Tail(want[f]) \in Seq(Names)
           /\ \A n : (\E i \in DOMAIN want[f] : want[f][i] = n) =>
                 n = Head(want[f]) \/ \E i \in DOMAIN Tail(want[f]) : Tail(want[f])[i] = n
<1>1. want[f] \in Seq(Names) /\ want[f] # <<>>
  BY DEF MetricsTypeOK, Fetched
<1>2. Head(want[f]) \in Names /\ Tail(want[f]) \in Seq(Names)
  BY <1>1
<1>3. ASSUME NEW i \in DOMAIN want[f], want[f][i] # Head(want[f])
      PROVE  i - 1 \in DOMAIN Tail(want[f]) /\ Tail(want[f])[i - 1] = want[f][i]
  BY <1>1, <1>3
<1> QED BY <1>2, <1>3, Zenon

\* One look-up or creation: f has got a registered handle for its first name, or
\* has found out that there is none.  No registration panics.
LEMMA RegistryStep ==
    ASSUME MetricsTypeOK, RegistryInv, NEW f \in Fetchers, Lookup(f) \/ Create(f)
    PROVE  /\ MetricsTypeOK' /\ RegistryInv'
           /\ UNCHANGED <<value, counted>>
           /\ \A g \in Fetchers \cup {Host}, n \in Names :
                 held[g][n] # {} => held'[g][n] # {}
           /\ \A g \in Fetchers : g # f => want'[g] = want[g]
           /\ \A n \in Names :
                 (\E i \in DOMAIN want[f] : want[f][i] = n) =>
                     held'[f][n] # {} \/ \E i \in DOMAIN want'[f] : want'[f][i] = n
           /\ ~Fetched(f)
<1> DEFINE n0 == Head(want[f])
<1>1. ~Fetched(f) /\ n0 \in Names /\ Tail(want[f]) \in Seq(Names)
  BY WantHead DEF Lookup, Create, RegistryInv
<1>2. ASSUME NEW handle \in Handles, handle # {}, handle = promReg'[n0], Take(f, n0, handle),
             known' = promReg', promReg' \in [Names -> Handles],
             \A n \in Names : promReg[n] # {} => promReg'[n] = promReg[n],
             missing' \in {missing, missing \ {f}}, f \notin missing',
             UNCHANGED <<panicked, value, counted>>
      PROVE  /\ MetricsTypeOK' /\ RegistryInv'
             /\ \A g \in Fetchers \cup {Host}, n \in Names :
                   held[g][n] # {} => held'[g][n] # {}
             /\ \A g \in Fetchers : g # f => want'[g] = want[g]
             /\ \A n \in Names :
                   (\E i \in DOMAIN want[f] : want[f][i] = n) =>
                       held'[f][n] # {} \/ \E i \in DOMAIN want'[f] : want'[f][i] = n
  <2>1. /\ held' \in [Fetchers \cup {Host} -> [Names -> Handles]]
        /\ want' \in [Fetchers -> Seq(Names)]
    BY <1>1, <1>2 DEF Take, MetricsTypeOK
  <2>2. MetricsTypeOK'
    BY <1>2, <2>1 DEF MetricsTypeOK
  <2>3. /\ held'[f][n0] = handle
        /\ \A g \in Fetchers \cup {Host}, n \in Names :
              g # f \/ n # n0 => held'[g][n] = held[g][n]
        /\ want'[f] = Tail(want[f])
        /\ \A g \in Fetchers : g # f => want'[g] = want[g]
    BY <1>1, <1>2 DEF Take, MetricsTypeOK
  <2>4. \A g \in Fetchers \cup {Host}, n \in Names :
            /\ held'[g][n] # {} => held'[g][n] = promReg'[n]
            /\ held[g][n] # {} => held'[g][n] # {}
    BY <1>2, <2>3 DEF RegistryInv
  <2>5. \A g \in missing' : ~Fetched(g)'
    BY <1>2, <2>3 DEF RegistryInv, Fetched, MetricsTypeOK
  <2>6. RegistryInv'
    BY <1>2, <2>4, <2>5 DEF RegistryInv
  <2>7. ASSUME NEW n \in Names, \E i \in DOMAIN want[f] : want[f][i] = n
        PROVE  held'[f][n] # {} \/ \E i \in DOMAIN want'[f] : want'[f][i] = n
    <3>1. n = n0 \/ \E i \in DOMAIN Tail(want[f]) : Tail(want[f])[i] = n
      BY <1>1, <2>7, WantHead, Zenon
    <3>2. held'[f][n0] # {} /\ want'[f] = Tail(want[f])
      BY ONLY <1>2, <2>3
    <3> QED BY ONLY <3>1, <3>2
  <2> QED BY <2>2, <2>3, <2>4, <2>6, <2>7
<1>3. CASE Lookup(f) /\ known[n0] # {}
  <2>1. /\ known[n0] \in Handles /\ promReg[n0] = known[n0]
        /\ Take(f, n0, known[n0])
        /\ UNCHANGED <<known, promReg, panicked, missing, value, counted>>
        /\ f \notin missing
    BY <1>1, <1>3 DEF Lookup, MetricsTypeOK, RegistryInv
  <2> QED BY <1>1, <1>2, <1>3, <2>1, Zenon DEF RegistryInv, MetricsTypeOK
<1>4. CASE Lookup(f) /\ known[n0] = {}
  <2>1. missing' = missing \cup {f}
        /\ UNCHANGED <<held, want, known, promReg, panicked, value, counted>>
    BY <1>4 DEF Lookup
  <2> QED BY <1>1, <2>1 DEF RegistryInv, MetricsTypeOK, Fetched
<1>5. CASE Create(f) /\ known[n0] # {}
  <2>1. /\ known[n0] \in Handles /\ promReg[n0] = known[n0]
        /\ Take(f, n0, known[n0])
        /\ UNCHANGED <<known, promReg, panicked, value, counted>>
        /\ missing' = missing \ {f}
    BY <1>1, <1>5 DEF Create, FoundAgain, MetricsTypeOK, RegistryInv
  <2> QED BY <1>1, <1>2, <1>5, <2>1, Zenon DEF RegistryInv, MetricsTypeOK
<1>6. CASE Create(f) /\ known[n0] = {}
  <2>1. promReg[n0] = {}
    BY <1>6 DEF RegistryInv
  <2>2. /\ promReg' = [promReg EXCEPT ![n0] = {f}]
        /\ known' = [known EXCEPT ![n0] = {f}]
        /\ Take(f, n0, {f})
        /\ UNCHANGED <<panicked, value, counted>>
        /\ missing' = missing \ {f}
    BY <1>6, <2>1 DEF Create, FoundAgain, MustRegister
  <2>3. /\ {f} \in Handles /\ promReg'[n0] = {f} /\ known' = promReg'
        /\ promReg' \in [Names -> Handles]
        /\ \A n \in Names : promReg[n] # {} => promReg'[n] = promReg[n]
    BY <1>1, <2>1, <2>2 DEF Handles, MetricsTypeOK, RegistryInv
  <2> HIDE DEF n0
  <2> QED BY <1>1, <1>2, <2>2, <2>3, Zenon
<1> QED BY <1>3, <1>4, <1>5, <1>6

\* Counting through registered handles is what Prometheus gathers.
LEMMA CountStep ==
    ASSUME MetricsTypeOK, RegistryInv, NEW handles, NEW delta,
           DOMAIN delta \subseteq Names,
           \A n \in DOMAIN delta : delta[n] \in Int /\ handles[n] = promReg[n],
           Count(handles, delta)
    PROVE  /\ value' = counted' /\ value' \in [Names -> Int] /\ counted' \in [Names -> Int]
           /\ \A n \in Names :
                 value'[n] = IF n \in DOMAIN delta THEN value[n] + delta[n] ELSE value[n]
<1>1. {n \in DOMAIN delta : handles[n] = promReg[n]} = DOMAIN delta
  OBVIOUS
<1>2. value' = counted'
  BY <1>1 DEF Count, RegistryInv
<1>3. \A n \in Names :
          value'[n] = IF n \in DOMAIN delta THEN value[n] + delta[n] ELSE value[n]
  BY <1>1 DEF Count
<1>4. value' \in [Names -> Int]
  BY <1>1 DEF Count, MetricsTypeOK
<1> QED BY <1>2, <1>3, <1>4

-----------------------------------------------------------------------------
(* The template, its clones and the connections                             *)

USE DEF vars, metricsVars, setVars, connVars, connOther, registry

\* What SetHeartBeatWithOption builds with its setters is configured as its
\* arguments ask for, whichever of the option's fields are set.
LEMMA BuildsWanted ==
    ASSUME NEW a \in Arguments, NEW m,
           NEW h, h = [NewHeartbeatChecker(a.interval) EXCEPT !.metrics = m]
    PROVE  Configuration(IF a.option = {} THEN h
                         ELSE WithOption(h, CHOOSE o \in a.option : TRUE))
               = Wanted(a)
<1> DEFINE i == IF a.interval <= 0 THEN DefaultInterval ELSE a.interval
           plain(mk, dead, t, id, rs, ms) ==
               [interval |-> i, timeout |-> t, makeMsg |-> mk, onRemoteNotAlive |-> dead,
                msgID |-> id, routerSlices |-> rs, metrics |-> ms]
           conf(mk, dead, t, id, rs) ==
               [interval |-> i, timeout |-> t, makeMsg |-> mk, onRemoteNotAlive |-> dead,
                msgID |-> id, routerSlices |-> rs]
<1>1. h = plain("default", "default", 3 * i, HeartBeatDefaultMsgID, {}, m)
  BY DEF NewHeartbeatChecker
<1>2. (IF a.interval > 0 THEN a.interval ELSE DefaultInterval) = i
  BY HeartBeatAssumption DEF DefaultInterval
<1> HIDE DEF i
<1>0. Wanted(a) = conf(Wanted(a).makeMsg, Wanted(a).onRemoteNotAlive, Wanted(a).timeout,
                       Wanted(a).msgID, Wanted(a).routerSlices)
  BY <1>2, ZenonT(30) DEF Wanted
<1>3. CASE a.option = {}
  <2>1. Wanted(a) = conf("default", "default", 3 * i, HeartBeatDefaultMsgID, {})
    <3>1. Wanted(a).interval = i /\ Wanted(a).timeout = 3 * i
      BY <1>2, <1>3 DEF Wanted
    <3>2. Wanted(a).makeMsg = "default" /\ Wanted(a).onRemoteNotAlive = "default"
      BY <1>3 DEF Wanted
    <3>3. Wanted(a).msgID = HeartBeatDefaultMsgID /\ Wanted(a).routerSlices = {}
      BY <1>3 DEF Wanted
    <3> QED BY <1>0, <3>1, <3>2, <3>3
  <2>2. Configuration(h) = conf("default", "default", 3 * i, HeartBeatDefaultMsgID, {})
    BY ONLY <1>1 DEF Configuration
  <2> QED BY <1>3, <2>1, <2>2
<1>4. ASSUME NEW o, a.option = {o}, o.timeout \in Int
      PROVE  Configuration(WithOption(h, o)) = Wanted(a)
  <2> DEFINE mk == IF o.makeMsg # "nil" THEN o.makeMsg ELSE "default"
             dead == IF o.onRemoteNotAlive # "nil" THEN o.onRemoteNotAlive ELSE "default"
             t == IF o.timeout > 0 THEN o.timeout ELSE 3 * i
             id == IF o.msgID # 0 \/ o.routerSlices # {} THEN o.msgID
                   ELSE HeartBeatDefaultMsgID
  <2>1. (CHOOSE q \in a.option : TRUE) = o
    BY <1>4
  <2>2. UNION {q.routerSlices : q \in a.option} = o.routerSlices
    BY <1>4
  <2>3. Wanted(a) = conf(mk, dead, t, id, o.routerSlices)
    <3>1. Wanted(a).timeout = t
      BY <1>2, <1>4, <2>1 DEF Wanted
    <3>2. Wanted(a).makeMsg = mk /\ Wanted(a).onRemoteNotAlive = dead
      BY <1>4, <2>1 DEF Wanted
    <3>3. Wanted(a).msgID = id /\ Wanted(a).routerSlices = o.routerSlices
      BY <1>4, <2>1, <2>2 DEF Wanted
    <3> QED BY <1>0, <3>1, <3>2, <3>3
  <2>4. SetHeartBeatMsgFunc(h, o.makeMsg)
            = plain(mk, "default", 3 * i, HeartBeatDefaultMsgID, {}, m)
    BY ONLY <1>1 DEF SetHeartBeatMsgFunc
  <2> HIDE DEF mk
  <2>5. SetOnRemoteNotAlive(SetHeartBeatMsgFunc(h, o.makeMsg), o.onRemoteNotAlive)
            = plain(mk, dead, 3 * i, HeartBeatDefaultMsgID, {}, m)
    BY <2>4 DEF SetOnRemoteNotAlive
  <2> HIDE DEF dead
  <2>6. SetTimeout(plain(mk, dead, 3 * i, HeartBeatDefaultMsgID, {}, m), o.timeout)
            = plain(mk, dead, t, HeartBeatDefaultMsgID, {}, m)
    BY DEF SetTimeout
  <2> HIDE DEF t
  <2>7. BindRouterSlices(SetMsgID(plain(mk, dead, t, HeartBeatDefaultMsgID, {}, m),
                                  o.msgID), o.msgID, o.routerSlices)
            = plain(mk, dead, t, id, o.routerSlices, m)
    BY ZenonT(30) DEF BindRouterSlices, SetMsgID
  <2>8. WithOption(h, o) = plain(mk, dead, t, id, o.routerSlices, m)
    BY <2>5, <2>6, <2>7 DEF WithOption
  <2> HIDE DEF id
  <2> QED BY <2>3, <2>8 DEF Configuration
<1>5. CASE a.option # {}
  <2>1. PICK o : a.option = {o} /\ o.timeout \in Int
    BY <1>5, HeartBeatAssumption
  <2>2. (CHOOSE q \in a.option : TRUE) = o
    BY <2>1
  <2> QED BY <1>4, <1>5, <2>1, <2>2
<1> QED BY <1>3, <1>5

-----------------------------------------------------------------------------
(* What is counted.                                                        *)

\* handleConn counts through the host's handles.
LEMMA AddCounts ==
    ASSUME HBTypeOK, RegistryInv, FetchInv, NEW c \in Conns, ConnAdd(c)
    PROVE  /\ value' = counted' /\ value' \in [Names -> Int] /\ counted' \in [Names -> Int]
           /\ value'["active"] = IF host = "server" THEN value["active"] + 1
                                 ELSE value["active"]
<1> DEFINE delta == [total |-> 1, active |-> 1]
<1>1. CASE host = "server"
  <2>1. Count(held[Host], delta)
    BY <1>1 DEF ConnAdd
  <2>2. /\ DOMAIN delta \subseteq Names /\ "active" \in DOMAIN delta /\ delta["active"] = 1
        /\ \A n \in DOMAIN delta : delta[n] \in Int
    BY DEF Names
  <2>3. \A n \in DOMAIN delta : held[Host][n] = promReg[n]
    BY <1>1 DEF RegistryInv, FetchInv, Names
  <2> HIDE DEF delta
  <2>4. MetricsTypeOK /\ "active" \in Names
    BY DEF HBTypeOK, Names
  <2> QED BY <1>1, <2>1, <2>2, <2>3, <2>4, CountStep
<1>2. CASE host # "server"
  <2>1. UNCHANGED <<value, counted>>
    BY <1>2 DEF ConnAdd
  <2> QED BY <1>2, <2>1 DEF HBTypeOK, MetricsTypeOK, RegistryInv
<1> QED BY <1>1, <1>2

\* stopOnce counts through the connection's own handles, which it has fetched.
LEMMA StopCounts ==
    ASSUME HBTypeOK, RegistryInv, FetchInv, NEW c \in Conns, ConnStop(c)
    PROVE  /\ value' = counted' /\ value' \in [Names -> Int] /\ counted' \in [Names -> Int]
           /\ value'["active"] = value["active"] - 1
<1> DEFINE delta == [active |-> -1, closed |-> 1]
<1>1. /\ DOMAIN delta = {"active", "closed"} /\ delta["active"] = -1
      /\ \A n \in DOMAIN delta : delta[n] \in Int
  OBVIOUS
<1>2. want[c] = <<>> /\ DOMAIN want[c] = {}
  BY SMTT(30) DEF ConnStop, FetchInv, Fetched
<1>3. \A n \in {"active", "closed"} : held[c][n] # {} /\ n \in Names
  BY <1>2, Zenon DEF ConnStop, FetchInv, Names
<1>4. \A n \in DOMAIN delta : held[c][n] = promReg[n]
  BY <1>1, <1>3, HeartBeatAssumption DEF RegistryInv
<1>5. Count(held[c], delta) /\ MetricsTypeOK /\ DOMAIN delta \subseteq Names
  BY <1>1, <1>3 DEF ConnStop, HBTypeOK
<1> HIDE DEF delta
<1>6. "active" \in Names /\ value["active"] \in Int
  BY <1>5 DEF Names, MetricsTypeOK
<1> QED BY <1>1, <1>4, <1>5, <1>6, CountStep

\* No clone has metrics to count a miss with: Clone leaves them out.
LEMMA MissCounts ==
    ASSUME HBTypeOK, TemplateInv, NEW c \in Conns, Miss(c)
    PROVE  UNCHANGED <<value, counted>>
<1>1. \A h \in clone[c] : \E u \in found[c] : h = Clone(tpl[u])
  BY DEF TemplateInv
<1>2. \A h \in clone[c] : h.metrics = {}
  BY ONLY <1>1 DEF Clone
<1> QED BY <1>2, ZenonT(30) DEF Miss
-----------------------------------------------------------------------------
(* The inductive invariant.                                                *)

\* Types, and the registry.
LEMMA TypeStep ==
    ASSUME IInv, [Next]_vars
    PROVE  HBTypeOK' /\ RegistryInv'
<1> USE DEF IInv, HBTypeOK, SetPC, ConnPC
<1>1. ASSUME NEW f \in Fetchers,
             (Lookup(f) \/ Create(f)) /\ UNCHANGED <<host, setVars, connVars>>
      PROVE  HBTypeOK' /\ RegistryInv'
  BY <1>1, RegistryStep, ZenonT(30)
<1>2. ASSUME NEW u \in Setters, SetNew(u) PROVE HBTypeOK' /\ RegistryInv'
  <2>0. heartbeatMetrics \in Seq(Names) /\ <<>> \in Seq(Names)
    BY DEF heartbeatMetrics, Names
  <2>1. /\ want' \in [Fetchers -> Seq(Names)]
        /\ \A g \in Fetchers : g # u => want'[g] = want[g]
    BY <1>2, <2>0, HeartBeatAssumption, ZenonT(30) DEF SetNew, MetricsTypeOK
  <2>2. u \notin missing
    BY <1>2, ZenonT(30) DEF SetNew, FetchInv, RegistryInv
  <2>3. MetricsTypeOK' /\ RegistryInv'
    BY <1>2, <2>1, <2>2, SMTT(30) DEF SetNew, MetricsTypeOK, RegistryInv, Fetched
  <2> QED BY <1>2, <2>3 DEF SetNew, SetGoto
<1>3. ASSUME NEW u \in Setters, SetBuild(u) \/ SetPublish(u) \/ SetRoute(u)
      PROVE  HBTypeOK' /\ RegistryInv'
  <2>1. MetricsTypeOK' /\ RegistryInv'
    BY <1>3 DEF SetBuild, SetPublish, SetRoute, MetricsTypeOK, RegistryInv, Fetched
  <2> QED BY <1>3, <2>1 DEF SetBuild, SetPublish, SetRoute, SetGoto
<1>4. ASSUME NEW c \in Conns, ConnNew(c) PROVE HBTypeOK' /\ RegistryInv'
  <2>0. connMetrics \in Seq(Names)
    BY DEF connMetrics, Names
  <2>1. /\ want' \in [Fetchers -> Seq(Names)]
        /\ \A g \in Fetchers : g # c => want'[g] = want[g]
    BY <1>4, <2>0, HeartBeatAssumption, ZenonT(30) DEF ConnNew, MetricsTypeOK
  <2>2. c \notin missing
    BY <1>4, ZenonT(30) DEF ConnNew, FetchInv, RegistryInv
  <2>3. MetricsTypeOK' /\ RegistryInv'
    BY <1>4, <2>1, <2>2, SMTT(30) DEF ConnNew, MetricsTypeOK, RegistryInv, Fetched
  <2> QED BY <1>4, <2>3 DEF ConnNew, ConnGoto
<1>5. ASSUME NEW c \in Conns, ConnAdd(c) PROVE HBTypeOK' /\ RegistryInv'
  <2>1. MetricsTypeOK' /\ RegistryInv'
    BY <1>5, AddCounts, ZenonT(30) DEF ConnAdd, MetricsTypeOK, RegistryInv, Fetched
  <2> QED BY <1>5, <2>1, Zenon DEF ConnAdd, ConnGoto
<1>6. ASSUME NEW c \in Conns, GetHeartBeat(c) \/ ConnClone(c)
      PROVE  HBTypeOK' /\ RegistryInv'
  <2>1. MetricsTypeOK' /\ RegistryInv'
    BY <1>6, SMTT(30) DEF GetHeartBeat, ConnClone, MetricsTypeOK, RegistryInv, Fetched
  <2> QED BY <1>6, <2>1, ZenonT(30) DEF GetHeartBeat, ConnClone, ConnGoto
<1>7. ASSUME NEW c \in Conns, Miss(c) PROVE HBTypeOK' /\ RegistryInv'
  <2>1. MetricsTypeOK' /\ RegistryInv'
    BY <1>7, MissCounts, SMTT(30) DEF Miss, MetricsTypeOK, RegistryInv, Fetched
  <2>2. conn' \in [Conns -> ConnPC] /\ misses' \in Nat
    <3>1. conn \in [Conns -> ConnPC] /\ misses \in Nat
      OBVIOUS
    <3>2. misses' = misses + 1 /\ \E l \in {"stopping", "run"} : conn' = [conn EXCEPT ![c] = l]
      BY ONLY <1>7, ZenonT(30) DEF Miss, ConnGoto
    <3> QED BY ONLY <3>1, <3>2 DEF ConnPC
  <2>3. UNCHANGED <<host, setVars, found, clone>>
    BY <1>7, Zenon DEF Miss
  <2> QED BY <2>1, <2>2, <2>3, Zenon
<1>8. ASSUME NEW c \in Conns, ConnStop(c) PROVE HBTypeOK' /\ RegistryInv'
  <2>1. MetricsTypeOK' /\ RegistryInv'
    BY <1>8, StopCounts, ZenonT(30) DEF ConnStop, MetricsTypeOK, RegistryInv, Fetched
  <2> QED BY <1>8, <2>1, ZenonT(30) DEF ConnStop, ConnGoto
<1>9. CASE UNCHANGED vars
  BY <1>9, ZenonT(30) DEF MetricsTypeOK, RegistryInv, Fetched
<1> QED BY <1>1, <1>2, <1>3, <1>4, <1>5, <1>6, <1>7, <1>8, <1>9, ZenonT(30) DEF Next

\* Who fetches what.
LEMMA FetchStep ==
    ASSUME IInv, [Next]_vars
    PROVE  FetchInv'
<1> USE DEF IInv, HBTypeOK
<1>1. ASSUME NEW f \in Fetchers,
             (Lookup(f) \/ Create(f)) /\ UNCHANGED <<host, setVars, connVars>>
      PROVE  FetchInv'
  <2>1. /\ ~Fetched(f)
        /\ \A g \in Fetchers : g # f => want'[g] = want[g]
        /\ \A g \in Fetchers \cup {Host}, n \in Names : held[g][n] # {} => held'[g][n] # {}
        /\ \A n \in Names :
              (\E i \in DOMAIN want[f] : want[f][i] = n) =>
                  held'[f][n] # {} \/ \E i \in DOMAIN want'[f] : want'[f][i] = n
    BY <1>1, RegistryStep, ZenonT(30)
  <2>2. \A g \in Fetchers : Fetched(g) => Fetched(g)'
    BY <2>1, Zenon DEF Fetched
  <2>3. {"active", "closed", "total"} \subseteq Names
    BY DEF Names
  <2>4. \A c \in Conns : \A n \in {"active", "closed"} :
            conn[c] # "away" =>
                held'[c][n] # {} \/ \E i \in DOMAIN want'[c] : want'[c][i] = n
    BY <2>1, <2>3, HeartBeatAssumption, SMTT(30) DEF FetchInv
  <2> QED BY <1>1, <2>1, <2>2, <2>3, <2>4, HeartBeatAssumption, SMTT(30) DEF FetchInv
<1>2. ASSUME NEW u \in Setters, SetNew(u) PROVE FetchInv'
  <2>1. /\ \A g \in Fetchers : g # u => want'[g] = want[g]
        /\ UNCHANGED <<conn, held, host>>
        /\ \A v \in Setters : v # u => setter'[v] = setter[v]
        /\ setter'[u] = "build"
    BY <1>2, HeartBeatAssumption, ZenonT(30) DEF SetNew, SetGoto, MetricsTypeOK
  <2> QED BY <2>1, HeartBeatAssumption, SMTT(30) DEF FetchInv, Fetched
<1>3. ASSUME NEW u \in Setters, SetBuild(u) \/ SetPublish(u) \/ SetRoute(u)
      PROVE  FetchInv'
  <2>1. /\ UNCHANGED <<want, conn, held, host>>
        /\ \A v \in Setters : v # u => setter'[v] = setter[v]
        /\ setter'[u] # "idle"
    BY <1>3 DEF SetBuild, SetPublish, SetRoute, SetGoto
  <2> QED BY <2>1, SMTT(30) DEF FetchInv, Fetched
<1>4. ASSUME NEW c \in Conns, ConnNew(c) PROVE FetchInv'
  <2>1. /\ \A g \in Fetchers : g # c => want'[g] = want[g]
        /\ want'[c] = connMetrics
        /\ UNCHANGED <<setter, held, host>>
        /\ \A d \in Conns : d # c => conn'[d] = conn[d]
        /\ conn'[c] = "fetch"
    BY <1>4, HeartBeatAssumption, ZenonT(30) DEF ConnNew, ConnGoto, MetricsTypeOK
  <2>2. /\ 1 \in DOMAIN connMetrics /\ connMetrics[1] = "active"
        /\ 2 \in DOMAIN connMetrics /\ connMetrics[2] = "closed"
    BY DEF connMetrics
  <2> QED BY <2>1, <2>2, HeartBeatAssumption, SMTT(30) DEF FetchInv, Fetched
<1>5. ASSUME NEW c \in Conns,
             ConnAdd(c) \/ GetHeartBeat(c) \/ ConnClone(c) \/ Miss(c) \/ ConnStop(c)
      PROVE  FetchInv'
  <2>1. /\ UNCHANGED <<want, held, host, setter>>
        /\ \A d \in Conns : d # c => conn'[d] = conn[d]
    BY <1>5, ZenonT(30) DEF ConnAdd, GetHeartBeat, ConnClone, Miss, ConnStop, ConnGoto
  <2>2. Fetched(c) /\ conn[c] # "away" /\ conn'[c] # "away"
    BY <1>5, ZenonT(30) DEF ConnAdd, GetHeartBeat, ConnClone, Miss, ConnStop, ConnGoto,
       FetchInv
  <2> QED BY <2>1, <2>2, SMTT(30) DEF FetchInv, Fetched
<1>6. CASE UNCHANGED vars
  BY <1>6, SMTT(30) DEF FetchInv, Fetched
<1> QED BY <1>1, <1>2, <1>3, <1>4, <1>5, <1>6, ZenonT(30) DEF Next

\* From where to where an operation takes a connection.
LEMMA ConnMoves ==
    ASSUME conn \in [Conns -> ConnPC], NEW c \in Conns,
           \/ ConnNew(c) \/ ConnAdd(c) \/ GetHeartBeat(c) \/ ConnClone(c)
           \/ Miss(c) \/ ConnStop(c)
    PROVE  /\ ConnNew(c) => conn[c] = "away" /\ conn'[c] = "fetch"
           /\ ConnAdd(c) => conn[c] = "fetch" /\ conn'[c] = "start"
           /\ GetHeartBeat(c) => conn[c] = "start" /\ conn'[c] \in {"clone", "run"}
           /\ ConnClone(c) => conn[c] = "clone" /\ conn'[c] = "run"
           /\ Miss(c) => conn[c] = "run" /\ conn'[c] \in {"run", "stopping"}
           /\ ConnStop(c) => conn[c] \in {"run", "stopping"} /\ conn'[c] = "closed"
           /\ \A d \in Conns : d # c => conn'[d] = conn[d]
  BY ZenonT(30) DEF ConnNew, ConnAdd, GetHeartBeat, ConnClone, Miss, ConnStop, ConnGoto

\* A template is published when it is complete, and connections clone it whole.
LEMMA TemplateStep ==
    ASSUME IInv, [Next]_vars
    PROVE  TemplateInv'
<1>0. /\ TemplateInv /\ DOMAIN tpl = Setters /\ setter \in [Setters -> SetPC]
      /\ hbTemplate \subseteq Setters /\ found \in [Conns -> SUBSET Setters]
  BY DEF IInv, HBTypeOK
<1> USE DEF IInv, HBTypeOK
<1>1. ASSUME \/ \E f \in Fetchers :
                   (Lookup(f) \/ Create(f)) /\ UNCHANGED <<host, setVars, connVars>>
             \/ \E c \in Conns : ConnNew(c) \/ ConnAdd(c) \/ Miss(c) \/ ConnStop(c)
             \/ UNCHANGED vars
      PROVE  TemplateInv'
  <2>1. UNCHANGED <<host, setter, args, tpl, hbTemplate, routes, found, clone>>
    BY <1>1, ZenonT(30) DEF ConnNew, ConnAdd, Miss, ConnStop
  <2>2. \A d \in Conns : conn'[d] \in {"away", "fetch", "start"} =>
                            conn[d] \in {"away", "fetch", "start"}
    <3>1. conn \in [Conns -> ConnPC]
      BY Zenon
    <3>2. CASE UNCHANGED conn
      BY ONLY <3>2, Zenon
    <3>3. ASSUME NEW c \in Conns, ConnNew(c) \/ ConnAdd(c)
          PROVE  /\ conn[c] \in {"away", "fetch"}
                 /\ \A d \in Conns : d # c => conn'[d] = conn[d]
      BY ONLY <3>1, <3>3, ConnMoves, Zenon
    <3>4. ASSUME NEW c \in Conns, Miss(c) \/ ConnStop(c)
          PROVE  /\ conn'[c] \in {"run", "stopping", "closed"}
                 /\ \A d \in Conns : d # c => conn'[d] = conn[d]
      BY ONLY <3>1, <3>4, ConnMoves, Zenon
    <3>5. (\E c \in Conns : ConnNew(c) \/ ConnAdd(c) \/ Miss(c) \/ ConnStop(c))
             \/ UNCHANGED conn
      BY ONLY <1>1, Zenon DEF vars, connVars
    <3> QED BY ONLY <3>2, <3>3, <3>4, <3>5
  <2> QED BY ONLY <1>0, <2>1, <2>2, SMTT(30) DEF TemplateInv, SetterInv
<1>2. ASSUME NEW u \in Setters, SetNew(u) PROVE TemplateInv'
  <2>1. /\ UNCHANGED <<host, args, hbTemplate, routes, connVars>>
        /\ setter[u] = "idle" /\ setter'[u] = "build"
        /\ tpl'[u] = NewHeartbeatChecker(args[u].interval)
        /\ \A v \in Setters : v # u => setter'[v] = setter[v] /\ tpl'[v] = tpl[v]
    BY <1>2, Zenon DEF SetNew, SetGoto
  <2>2. ASSUME NEW v \in Setters PROVE SetterInv(v)'
    <3>1. SetterInv(v)
      BY ONLY <1>0, v \in Setters DEF TemplateInv
    <3>2. CASE v = u
      BY ONLY <3>1, <3>2, <2>1, ZenonT(30) DEF SetterInv
    <3>3. CASE v # u
      BY ONLY <3>1, <3>3, v \in Setters, <2>1, ZenonT(30) DEF SetterInv
    <3> QED BY ONLY <3>2, <3>3
  <2>3. /\ \A v \in hbTemplate' : setter'[v] \in {"route", "done"}
        /\ \A c \in Conns : \A v \in found'[c] : setter'[v] \in {"route", "done"}
    BY ONLY <1>0, <2>1, SMTT(30) DEF TemplateInv
  <2>4. /\ \A d \in Conns : conn'[d] \in {"away", "fetch", "start"} => clone'[d] = {}
        /\ \A d \in Conns : \A h \in clone'[d] : \E v \in found'[d] : h = Clone(tpl'[v])
    BY ONLY <1>0, <2>1, SMTT(30) DEF TemplateInv
  <2> QED BY ONLY <2>2, <2>3, <2>4, Zenon DEF TemplateInv
<1>3. ASSUME NEW u \in Setters, SetBuild(u) PROVE TemplateInv'
  <2>1. /\ UNCHANGED <<host, args, hbTemplate, routes, connVars>>
        /\ setter[u] = "build" /\ setter'[u] = "publish"
        /\ \A v \in Setters : v # u => setter'[v] = setter[v] /\ tpl'[v] = tpl[v]
    BY <1>3 DEF SetBuild, SetGoto
  <2>2. Configuration(tpl'[u]) = Wanted(args[u])
    <3> DEFINE h == [NewHeartbeatChecker(args[u].interval) EXCEPT !.metrics = held[u]["missed"]]
    <3>1. tpl'[u] = IF args[u].option = {} THEN h
                    ELSE WithOption(h, CHOOSE o \in args[u].option : TRUE)
      BY <1>3 DEF SetBuild, TemplateInv, SetterInv
    <3>2. h = [NewHeartbeatChecker(args[u].interval) EXCEPT !.metrics = held[u]["missed"]]
      OBVIOUS
    <3> HIDE DEF h
    <3>3. args[u] \in Arguments
      OBVIOUS
    <3> QED BY ONLY <3>1, <3>2, <3>3, BuildsWanted, ZenonT(30)
  <2>3. ASSUME NEW v \in Setters PROVE SetterInv(v)'
    <3>1. SetterInv(v)
      BY ONLY <1>0, v \in Setters DEF TemplateInv
    <3>2. CASE v = u
      BY ONLY <3>1, <3>2, <2>1, <2>2, ZenonT(30) DEF SetterInv
    <3>3. CASE v # u
      BY ONLY <3>1, <3>3, v \in Setters, <2>1, <2>2, ZenonT(30) DEF SetterInv
    <3> QED BY ONLY <3>2, <3>3
  <2>4. /\ \A v \in hbTemplate' : setter'[v] \in {"route", "done"}
        /\ \A c \in Conns : \A v \in found'[c] : setter'[v] \in {"route", "done"}
    BY ONLY <1>0, <2>1, SMTT(30) DEF TemplateInv
  <2>5. /\ \A d \in Conns : conn'[d] \in {"away", "fetch", "start"} => clone'[d] = {}
        /\ \A d \in Conns : \A h \in clone'[d] : \E v \in found'[d] : h = Clone(tpl'[v])
    BY ONLY <1>0, <2>1, SMTT(30) DEF TemplateInv
  <2> QED BY ONLY <2>3, <2>4, <2>5, ZenonT(30) DEF TemplateInv
<1>4. ASSUME NEW u \in Setters, SetPublish(u) PROVE TemplateInv'
  <2>1. /\ UNCHANGED <<host, args, tpl, routes, connVars>>
        /\ setter[u] = "publish" /\ hbTemplate' = {u}
        /\ setter'[u] = IF host = "server" THEN "route" ELSE "done"
        /\ \A v \in Setters : v # u => setter'[v] = setter[v]
    BY <1>4, ZenonT(30) DEF SetPublish, SetGoto
  <2>2. ASSUME NEW v \in Setters PROVE SetterInv(v)'
    <3>1. SetterInv(v)
      BY ONLY <1>0, v \in Setters DEF TemplateInv
    <3>2. CASE v = u
      BY ONLY <3>1, <3>2, <2>1, ZenonT(30) DEF SetterInv
    <3>3. CASE v # u
      BY ONLY <3>1, <3>3, v \in Setters, <2>1, ZenonT(30) DEF SetterInv
    <3> QED BY ONLY <3>2, <3>3
  <2>3. /\ \A v \in hbTemplate' : setter'[v] \in {"route", "done"}
        /\ \A c \in Conns : \A v \in found'[c] : setter'[v] \in {"route", "done"}
    BY ONLY <1>0, <2>1, ZenonT(30) DEF TemplateInv
  <2>4. /\ \A d \in Conns : conn'[d] \in {"away", "fetch", "start"} => clone'[d] = {}
        /\ \A d \in Conns : \A h \in clone'[d] : \E v \in found'[d] : h = Clone(tpl'[v])
    BY ONLY <1>0, <2>1, SMTT(30) DEF TemplateInv
  <2> QED BY ONLY <2>2, <2>3, <2>4, ZenonT(30) DEF TemplateInv
<1>5. ASSUME NEW u \in Setters, SetRoute(u) PROVE TemplateInv'
  <2>1. /\ UNCHANGED <<host, args, tpl, hbTemplate, connVars>>
        /\ setter[u] = "route" /\ setter'[u] = "done"
        /\ routes' = routes \cup {tpl[u].msgID}
        /\ \A v \in Setters : v # u => setter'[v] = setter[v]
    BY <1>5, ZenonT(30) DEF SetRoute, SetGoto, RoutedID
  <2>2. ASSUME NEW v \in Setters PROVE SetterInv(v)'
    <3>1. SetterInv(v)
      BY ONLY <1>0, v \in Setters DEF TemplateInv
    <3>2. CASE v = u
      BY ONLY <3>1, <3>2, <2>1, ZenonT(30) DEF SetterInv
    <3>3. CASE v # u
      BY ONLY <3>1, <3>3, v \in Setters, <2>1, ZenonT(30) DEF SetterInv
    <3> QED BY ONLY <3>2, <3>3
  <2> QED BY ONLY <1>0, <2>1, <2>2, SMTT(30) DEF TemplateInv
<1>6. ASSUME NEW c \in Conns, GetHeartBeat(c) PROVE TemplateInv'
  <2>1. /\ UNCHANGED <<host, setVars, clone>>
        /\ found' = [found EXCEPT ![c] = hbTemplate]
        /\ conn[c] = "start"
        /\ \A d \in Conns : d # c => conn'[d] = conn[d]
    BY <1>6, ZenonT(30) DEF GetHeartBeat, ConnGoto
  <2>2. clone[c] = {}
    BY ONLY <1>0, <2>1, c \in Conns, ZenonT(30) DEF TemplateInv
  <2>3. /\ \A v \in hbTemplate' : setter'[v] \in {"route", "done"}
        /\ \A d \in Conns : \A v \in found'[d] : setter'[v] \in {"route", "done"}
    BY ONLY <1>0, <2>1, ZenonT(30) DEF TemplateInv
  <2>4. /\ \A d \in Conns : conn'[d] \in {"away", "fetch", "start"} => clone'[d] = {}
        /\ \A d \in Conns : \A h \in clone'[d] : \E v \in found'[d] : h = Clone(tpl'[v])
    BY ONLY <1>0, <2>1, <2>2, SMTT(30) DEF TemplateInv
  <2>5. \A u \in Setters : SetterInv(u)'
    BY ONLY <1>0, <2>1, ZenonT(30) DEF TemplateInv, SetterInv
  <2> QED BY ONLY <2>1, <2>3, <2>4, <2>5, <1>0, ZenonT(30) DEF TemplateInv
<1>7. ASSUME NEW c \in Conns, ConnClone(c) PROVE TemplateInv'
  <2>1. /\ UNCHANGED <<host, setVars, found>>
        /\ clone'[c] = {Clone(tpl[u]) : u \in found[c]}
        /\ conn'[c] = "run"
        /\ \A d \in Conns : d # c => clone'[d] = clone[d] /\ conn'[d] = conn[d]
    BY <1>7, ZenonT(30) DEF ConnClone, ConnGoto
  <2>2. \A u \in Setters : SetterInv(u)'
    BY ONLY <1>0, <2>1, ZenonT(30) DEF TemplateInv, SetterInv
  <2>3. ASSUME NEW d \in Conns, NEW h \in clone'[d]
        PROVE  \E u \in found'[d] : h = Clone(tpl'[u])
    <3>1. CASE d = c
      BY ONLY <2>1, <2>3, <3>1, ZenonT(30)
    <3>2. CASE d # c
      BY ONLY <1>0, <2>1, <2>3, <3>2, d \in Conns, SMTT(30) DEF TemplateInv
    <3> QED BY ONLY <3>1, <3>2, ZenonT(30)
  <2> QED BY ONLY <1>0, <2>1, <2>2, <2>3, ZenonT(30) DEF TemplateInv
<1> QED BY <1>1, <1>2, <1>3, <1>4, <1>5, <1>6, <1>7, Zenon DEF Next

\* On a server the gauge goes up with handleConn and down with stopOnce.
LEMMA GaugeStep ==
    ASSUME IInv, [Next]_vars
    PROVE  GaugeInv'
<1> USE DEF IInv, HBTypeOK
<1>1. value["active"] \in Int
  BY ZenonT(30) DEF MetricsTypeOK, Names
<1>2. ASSUME UNCHANGED <<host, value, OpenConns>> PROVE GaugeInv'
  BY <1>2, ZenonT(30) DEF GaugeInv, ActiveConnections
<1>3. ASSUME NEW f \in Fetchers,
             (Lookup(f) \/ Create(f)) /\ UNCHANGED <<host, setVars, connVars>>
      PROVE  GaugeInv'
  <2>1. UNCHANGED <<host, value, conn>>
    BY <1>3, RegistryStep, ZenonT(30)
  <2> QED BY <1>2, <2>1, ZenonT(30) DEF OpenConns
<1>4. ASSUME NEW u \in Setters, SetNew(u) \/ SetBuild(u) \/ SetPublish(u) \/ SetRoute(u)
      PROVE  GaugeInv'
  <2>1. UNCHANGED <<host, value, conn>>
    BY <1>4, ZenonT(30) DEF SetNew, SetBuild, SetPublish, SetRoute
  <2> QED BY <1>2, <2>1, ZenonT(30) DEF OpenConns
<1>5. ASSUME NEW c \in Conns, ConnNew(c) \/ GetHeartBeat(c) \/ ConnClone(c) \/ Miss(c)
      PROVE  GaugeInv'
  <2>1. UNCHANGED <<host, value>>
    BY <1>5, MissCounts, ZenonT(30) DEF ConnNew, GetHeartBeat, ConnClone, Miss
  <2>2. UNCHANGED OpenConns
    <3>1. /\ \/ conn[c] = "away" /\ conn'[c] = "fetch"
             \/ /\ conn[c] \in {"start", "clone", "run"}
                /\ conn'[c] \in {"clone", "run", "stopping"}
          /\ \A d \in Conns : d # c => conn'[d] = conn[d]
      <4>1. conn \in [Conns -> ConnPC]
        BY Zenon
      <4> QED BY ONLY <1>5, <4>1, ConnMoves, Zenon
    <3> QED BY ONLY <3>1 DEF OpenConns
  <2> QED BY <1>2, <2>1, <2>2, ZenonT(30)
<1>6. ASSUME NEW c \in Conns, ConnAdd(c) PROVE GaugeInv'
  <2>1. OpenConns' = OpenConns \cup {c} /\ c \notin OpenConns
    BY <1>6, ZenonT(30) DEF ConnAdd, ConnGoto, OpenConns
  <2>2. /\ IsFiniteSet(OpenConns')
        /\ Cardinality(OpenConns') = Cardinality(OpenConns) + 1
    BY ONLY <2>1, FS_AddElement, GaugeInv DEF GaugeInv
  <2>3. /\ value'["active"] = IF host = "server" THEN value["active"] + 1
                              ELSE value["active"]
        /\ host' = host
    BY <1>6, AddCounts, ZenonT(30) DEF ConnAdd
  <2> QED BY <2>1, <2>2, <2>3, Zenon DEF GaugeInv, ActiveConnections
<1>7. ASSUME NEW c \in Conns, ConnStop(c) PROVE GaugeInv'
  <2>1. OpenConns' = OpenConns \ {c} /\ c \in OpenConns
    BY <1>7, ZenonT(30) DEF ConnStop, ConnGoto, OpenConns
  <2>2. /\ IsFiniteSet(OpenConns')
        /\ Cardinality(OpenConns') = Cardinality(OpenConns) - 1
    BY ONLY <2>1, FS_RemoveElement, GaugeInv, ZenonT(30) DEF GaugeInv
  <2>3. Cardinality(OpenConns) \in Nat
    BY FS_CardinalityType, ZenonT(30) DEF GaugeInv
  <2>4. value'["active"] = value["active"] - 1 /\ host' = host
    BY <1>7, StopCounts, ZenonT(30) DEF ConnStop
  <2> QED BY <1>1, <2>2, <2>3, <2>4, SMTT(30) DEF GaugeInv, ActiveConnections
<1>8. CASE UNCHANGED vars
  <2>1. UNCHANGED <<host, value, conn>>
    BY <1>8, ZenonT(30)
  <2> QED BY <1>2, <2>1, ZenonT(30) DEF OpenConns
<1> QED BY <1>3, <1>4, <1>5, <1>6, <1>7, <1>8, ZenonT(30) DEF Next

\* The names of a bundle come first in a longer one.
LEMMA Prefix ==
    ASSUME NEW S, NEW s \in Seq(S), NEW t \in Seq(S)
    PROVE  /\ s \o t \in Seq(S) /\ Len(s \o t) = Len(s) + Len(t) /\ Len(t) \in Nat
           /\ \A i \in 1..Len(s) : (s \o t)[i] = s[i]
OBVIOUS

\* NewServer and NewClient establish the invariant.
LEMMA InitIInv == Init => IInv
<1> SUFFICES ASSUME Init PROVE IInv
  OBVIOUS
<1> USE HeartBeatAssumption DEF Init
<1> DEFINE bundle == IF host = "server" THEN serverMetrics \o handlerMetrics
                     ELSE handlerMetrics
           made == {bundle[i] : i \in DOMAIN bundle}
           first == [n \in Names |-> IF n \in made THEN {Host} ELSE {}]
<1>1. MetricsInit(bundle)
  OBVIOUS
<1>2. host = "server" => "total" \in made /\ "active" \in made
  <2>1. /\ serverMetrics \in Seq(Names) /\ handlerMetrics \in Seq(Names)
        /\ Len(serverMetrics) = 4
        /\ serverMetrics[1] = "total" /\ serverMetrics[2] = "active"
    BY SMTT(30) DEF serverMetrics, handlerMetrics, Names
  <2> DEFINE b == serverMetrics \o handlerMetrics
  <2>2. /\ b \in Seq(Names) /\ Len(b) = 4 + Len(handlerMetrics)
        /\ Len(handlerMetrics) \in Nat
        /\ b[1] = serverMetrics[1] /\ b[2] = serverMetrics[2]
    <3>1. 1 \in 1..Len(serverMetrics) /\ 2 \in 1..Len(serverMetrics)
      BY ONLY <2>1
    <3>2. /\ b \in Seq(Names) /\ Len(b) = Len(serverMetrics) + Len(handlerMetrics)
          /\ Len(handlerMetrics) \in Nat
          /\ \A i \in 1..Len(serverMetrics) : b[i] = serverMetrics[i]
      BY ONLY <2>1, Prefix, ZenonT(30)
    <3> HIDE DEF b
    <3> QED BY ONLY <2>1, <3>1, <3>2
  <2>3. 1 \in DOMAIN b /\ b[1] = "total" /\ 2 \in DOMAIN b /\ b[2] = "active"
    <3> HIDE DEF b
    <3> QED BY <2>1, <2>2, SMTT(30)
  <2> QED BY <2>3, ZenonT(30)
<1> HIDE DEF made
<1>3. first \in [Names -> Handles]
  BY ZenonT(30) DEF Handles
<1>4. /\ known = first /\ promReg = first
      /\ want = [f \in Fetchers |-> <<>>] /\ missing = {} /\ panicked = {}
      /\ held = [f \in Fetchers \cup {Host} |->
                    IF f = Host THEN first ELSE [n \in Names |-> {}]]
      /\ value = [n \in Names |-> 0] /\ counted = [n \in Names |-> 0]
  BY <1>1, ZenonT(30) DEF MetricsInit, made
<1>5. MetricsTypeOK
  <2>1. {} \in Handles
    BY Zenon DEF Handles
  <2>2. held \in [Fetchers \cup {Host} -> [Names -> Handles]]
    BY ONLY <1>3, <1>4, <2>1, ZenonT(30)
  <2>3. want \in [Fetchers -> Seq(Names)]
    BY ONLY <1>4
  <2>4. value \in [Names -> Int] /\ counted \in [Names -> Int]
    BY ONLY <1>4
  <2> QED BY ONLY <1>3, <1>4, <2>2, <2>3, <2>4, ZenonT(30) DEF MetricsTypeOK
<1>6. HBTypeOK
  BY <1>5, ZenonT(30) DEF HBTypeOK, SetPC, ConnPC
<1>7. RegistryInv
  BY <1>4, ZenonT(30) DEF RegistryInv
<1>8. FetchInv
  <2>1. host = "server" => held[Host]["total"] # {} /\ held[Host]["active"] # {}
    BY <1>2, <1>4, ZenonT(30) DEF Names
  <2> QED BY <1>4, <2>1, ZenonT(30) DEF FetchInv, Fetched
<1>9. TemplateInv
  BY ZenonT(30) DEF TemplateInv, SetterInv
<1>10. GaugeInv
  <2>1. OpenConns = {} /\ IsFiniteSet({}) /\ Cardinality({}) = 0
    BY FS_EmptySet, ZenonT(30) DEF OpenConns
  <2>2. value["active"] = 0
    BY <1>4, Zenon DEF Names
  <2> QED BY <2>1, <2>2, SMTT(30) DEF GaugeInv, ActiveConnections
<1> QED BY <1>6, <1>7, <1>8, <1>9, <1>10, ZenonT(30) DEF IInv

\* The invariant holds in every reachable state.
THEOREM InductiveInvariant == Spec => []IInv
<1>1. IInv /\ [Next]_vars => IInv'
  BY TypeStep, FetchStep, TemplateStep, GaugeStep, ZenonT(30) DEF IInv
<1> QED BY InitIInv, <1>1, PTL DEF Spec

\* However many goroutines ask the registry for a name at once, no registration
\* panics and Snapshot reports everything that was counted.
THEOREM NoCountLost == Spec => []NothingLost
<1>1. IInv => NothingLost
  BY Zenon DEF IInv, RegistryInv, NothingLost, Snapshot
<1> QED BY InductiveInvariant, <1>1, PTL

\* Every checker of a connection has the configuration of one call of
\* SetHeartBeatWithOption, whole.
THEOREM WholeClones == Spec => []ClonesWhole
<1>1. IInv => ClonesWhole
  <2> SUFFICES ASSUME IInv, NEW c \in Conns, NEW h \in clone[c]
               PROVE  \E u \in found[c] : Configuration(h) = Wanted(args[u])
    BY ZenonT(30) DEF ClonesWhole
  <2>1. PICK u \in found[c] : h = Clone(tpl[u])
    BY DEF IInv, TemplateInv
  <2>2. u \in Setters /\ setter[u] \in {"route", "done"}
    BY ZenonT(30) DEF IInv, TemplateInv, HBTypeOK
  <2>3. Configuration(h) = Configuration(tpl[u])
    BY ONLY <2>1 DEF Clone, Configuration
  <2> QED BY <2>2, <2>3, ZenonT(30) DEF IInv, TemplateInv, SetterInv
<1> QED BY InductiveInvariant, <1>1, PTL

\* When the calls that set the heartbeat have returned, the message ids of all
\* the heartbeats that connections send are routed.
THEOREM HeartbeatsRouted == Spec => []BeatsRouted
<1>1. IInv => BeatsRouted
  <2> SUFFICES ASSUME IInv, host = "server",
                      \A u \in Setters : setter[u] \in {"idle", "done"},
                      NEW c \in Conns, NEW h \in clone[c]
               PROVE  h.msgID \in routes
    BY ZenonT(30) DEF BeatsRouted
  <2>1. PICK u \in found[c] : h = Clone(tpl[u])
    BY ZenonT(30) DEF IInv, TemplateInv
  <2>2. u \in Setters /\ setter[u] = "done" /\ tpl[u].msgID \in routes
    BY Zenon DEF IInv, TemplateInv, SetterInv, HBTypeOK
  <2>3. h.msgID = tpl[u].msgID
    BY <2>1 DEF Clone
  <2> QED BY <2>2, <2>3
<1> QED BY InductiveInvariant, <1>1, PTL

\* On a server the gauge of active connections is the number of open ones, for
\* any number of connections; on a client it is not.
THEOREM ServerGauge == Spec => [](host = "server" => ActiveConnections)
<1>1. IInv => (host = "server" => ActiveConnections)
  BY DEF IInv, GaugeInv
<1> QED BY InductiveInvariant, <1>1, PTL
=============================================================================
