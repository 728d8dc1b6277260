---------------------------- MODULE RouterProofs ----------------------------
(***************************************************************************)
(* What a request runs, for any number of ids, handlers, groups and        *)
(* requests: RouterInv is inductive and implies the properties of Router.  *)
(***************************************************************************)
EXTENDS Router, TLAPS, WellFoundedInduction

-----------------------------------------------------------------------------
(* Registration                                                            *)

\* A registration, and the groups and handlers as the invariant reads them.
Entry(h, kind, lo, hi) == [h |-> h, kind |-> kind, lo |-> lo, hi |-> hi]
Entries == [h : Nat, kind : Kind, lo : MsgID, hi : MsgID]
GroupRange == [start : MsgID, end : MsgID, handlers : Slice]
Shown(i, k) == arrays[groupRanges[i].handlers.arr][k]

\* Registrations are only added, so slices that are unshared were so before.
LEMMA UnsharedBefore ==
    ASSUME scope \subseteq scope', Unshared'
    PROVE  Unshared
  BY DEF Unshared

\* A registration does not touch the request that is running.
LEMMA RequestKept ==
    ASSUME RouterInv, scope \subseteq scope', UNCHANGED reqVars
    PROVE  RanInv' /\ ChainInv'
<1>1. UNCHANGED <<chain, index, ran, due>>
  BY DEF reqVars
<1>2. RanInv'
  BY <1>1 DEF RouterInv, RanInv
<1>3. ChainInv'
  BY <1>1, UnsharedBefore DEF RouterInv, ChainInv
<1> QED BY <1>2, <1>3

\* The next handler is registered under a number of its own.
LEMMA RegisterStep ==
    ASSUME RouterInv, NEW kind \in Kind, NEW lo \in MsgID, NEW hi \in MsgID,
           Register(kind, lo, hi)
    PROVE  LET e == Entry(count + 1, kind, lo, hi)
           IN  /\ e \in Entries /\ e.h = count + 1 /\ e.kind = kind /\ e.lo = lo /\ e.hi = hi
               /\ scope' = scope \cup {e} /\ scope' \subseteq Entries
               /\ count' = count + 1 /\ count \in Nat /\ count >= 1 /\ e.h # 1
               /\ \A s \in scope : s.h <= count' /\ s.h # e.h
               /\ \A s, t \in scope' : s.h = t.h => s.h = 1 \/ s = t
<1> DEFINE e == Entry(count + 1, kind, lo, hi)
<1>1. count \in Nat /\ count >= 1 /\ scope \subseteq Entries
  BY DEF RouterInv, RouterTypeOK, Entries
<1>2. e \in Entries /\ e.h = count + 1 /\ e.kind = kind /\ e.lo = lo /\ e.hi = hi
  BY <1>1 DEF Entry, Entries
<1>3. scope' = scope \cup {e} /\ count' = count + 1
  BY DEF Register, Entry
<1>4. \A s \in scope : s.h \in Nat /\ s.h <= count
  BY <1>1, Zenon DEF RouterInv, ScopeInv, Entries
<1>5. \A s, t \in scope : s.h = t.h => s.h = 1 \/ s = t
  BY Zenon DEF RouterInv, ScopeInv
<1> HIDE DEF e
<1>6. \A s \in scope : s.h <= count' /\ s.h # e.h
  BY <1>1, <1>2, <1>3, <1>4
<1>7. \A s, t \in scope' : s.h = t.h => s.h = 1 \/ s = t
  BY <1>3, <1>5, <1>6
<1>8. e.h # 1
  BY <1>1, <1>2
<1> QED BY <1>1, <1>2, <1>3, <1>6, <1>7, <1>8 DEF e

\* Routes and global middleware do not concern the groups.
LEMMA GroupsKept ==
    ASSUME RouterInv, UNCHANGED <<groupRanges, arrays>>, NEW e, e.kind # "group",
           scope' = scope \cup {e}
    PROVE  SliceInv' /\ GroupInv'
<1>1. scope \subseteq scope'
  OBVIOUS
<1>2. SliceInv'
  <2>1. SliceInv
    BY DEF RouterInv
  <2> QED BY <1>1, <2>1 DEF SliceInv
<1>3. GroupInv'
  <2>1. Unshared' => Unshared
    BY <1>1, UnsharedBefore
  <2>2. \A s \in scope' : s.kind = "group" => s \in scope
    OBVIOUS
  <2>3. GroupInv
    BY DEF RouterInv
  <2> QED BY <1>1, <2>1, <2>2, <2>3 DEF GroupInv
<1> QED BY <1>2, <1>3

\* AddRouterSlices: the id had no route, so no other registration loses its own.
LEMMA AddSlicesStep ==
    ASSUME RouterInv, NEW id \in MsgID, AddSlices(id)
    PROVE  RouterInv'
<1> DEFINE c == count + 1
           e == Entry(c, "route", id, id)
<1>1. /\ apis[id] = <<>> /\ Register("route", id, id)
      /\ apis' = [apis EXCEPT ![id] = <<c>>]
      /\ UNCHANGED <<groupRanges, globalHandlers, arrays>> /\ UNCHANGED reqVars
  BY DEF AddSlices
<1>2. "route" \in Kind
  BY DEF Kind
<1>3. /\ e \in Entries /\ e.h = c /\ e.kind = "route" /\ e.lo = id /\ e.hi = id
      /\ scope' = scope \cup {e} /\ scope' \subseteq Entries
      /\ count' = c /\ count \in Nat /\ count >= 1 /\ e.h # 1
      /\ \A s \in scope : s.h <= count' /\ s.h # e.h
      /\ \A s, t \in scope' : s.h = t.h => s.h = 1 \/ s = t
  BY <1>1, <1>2, RegisterStep
<1>4. RouterTypeOK /\ ScopeInv
  BY DEF RouterInv
<1>5. c \in Nat /\ c >= 1 /\ <<c>> \in Seq(Nat) /\ Len(<<c>>) = 1 /\ <<c>>[1] = c /\ <<c>> # <<>>
  BY <1>3
<1>6. apis \in [MsgID -> Seq(Nat)] /\ apis'[id] = <<c>> /\ \A j \in MsgID : j # id => apis'[j] = apis[j]
  BY <1>1, <1>4 DEF RouterTypeOK
<1>7. e = [h |-> apis'[id][1], kind |-> "route", lo |-> id, hi |-> id]
  BY <1>5, <1>6 DEF Entry
<1> HIDE DEF c, e
<1>8. RouterTypeOK'
  <2>1. apis' \in [MsgID -> Seq(Nat)]
    BY <1>1, <1>5, <1>6
  <2>2. UNCHANGED <<chain, index, ran, due>>
    BY <1>1 DEF reqVars
  <2> QED BY <1>1, <1>3, <1>4, <1>5, <2>1, <2>2 DEF RouterTypeOK, Entries
<1>9. ScopeInv'
  <2>1. ASSUME NEW s \in scope'
        PROVE  /\ s.h <= count'
               /\ s.kind = "route" => s.h # 1 /\ s.lo = s.hi /\ apis'[s.lo] = <<s.h>>
               /\ s.kind = "global" => /\ s.h # 1 /\ s.lo = 1 /\ s.hi = MaxMsgID
                                       /\ \E p \in DOMAIN globalHandlers : globalHandlers[p] = s.h
    <3>1. CASE s = e
      BY <1>3, <1>5, <1>6, <3>1
    <3>2. CASE s \in scope
      <4>1. s.lo \in MsgID /\ s.h \in Nat
        BY <1>4, <3>2 DEF RouterTypeOK
      <4>2. s.kind = "route" => apis[s.lo] = <<s.h>> /\ <<s.h>> # <<>>
        BY <1>4, <3>2, <4>1 DEF ScopeInv
      <4>3. s.kind = "route" => s.lo # id
        BY <1>1, <4>2, Zenon
      <4> QED BY <1>3, <1>4, <1>6, <3>2, <4>1, <4>3 DEF ScopeInv
    <3> QED BY <1>3, <3>1, <3>2
  <2>2. ASSUME NEW j \in MsgID, apis'[j] # <<>>
        PROVE  /\ Len(apis'[j]) = 1
               /\ [h |-> apis'[j][1], kind |-> "route", lo |-> j, hi |-> j] \in scope'
    <3>1. CASE j = id
      BY <1>3, <1>5, <1>6, <1>7, <3>1, Zenon
    <3>2. CASE j # id
      BY <1>3, <1>4, <1>6, <2>2, <3>2 DEF ScopeInv
    <3> QED BY <3>1, <3>2
  <2>3. \A p \in DOMAIN globalHandlers :
           [h |-> globalHandlers[p], kind |-> "global", lo |-> 1, hi |-> MaxMsgID] \in scope'
    BY <1>3, <1>4 DEF ScopeInv
  <2> QED BY <1>1, <1>3, <2>1, <2>2, <2>3 DEF ScopeInv
<1>10. SliceInv' /\ GroupInv'
  BY <1>1, <1>3, GroupsKept
<1>11. RanInv' /\ ChainInv'
  BY <1>1, <1>3, RequestKept
<1> QED BY <1>8, <1>9, <1>10, <1>11 DEF RouterInv

\* Use: one more middleware, for every id.
LEMMA UseStep ==
    ASSUME RouterInv, Use
    PROVE  RouterInv'
<1> DEFINE c == count + 1
           e == Entry(c, "global", 1, MaxMsgID)
           gs == Append(globalHandlers, c)
<1>1. /\ Register("global", 1, MaxMsgID)
      /\ globalHandlers' = gs
      /\ UNCHANGED <<apis, groupRanges, arrays>> /\ UNCHANGED reqVars
  BY DEF Use
<1>2. "global" \in Kind /\ 1 \in MsgID /\ MaxMsgID \in MsgID
  BY RouterAssumption DEF Kind, MsgID
<1>3. /\ e \in Entries /\ e.h = c /\ e.kind = "global" /\ e.lo = 1 /\ e.hi = MaxMsgID
      /\ scope' = scope \cup {e} /\ scope' \subseteq Entries
      /\ count' = c /\ count \in Nat /\ count >= 1 /\ e.h # 1
      /\ \A s \in scope : s.h <= count' /\ s.h # e.h
      /\ \A s, t \in scope' : s.h = t.h => s.h = 1 \/ s = t
  BY <1>1, <1>2, RegisterStep
<1>4. RouterTypeOK /\ ScopeInv
  BY DEF RouterInv
<1>5. c \in Nat /\ c >= 1
  BY <1>3
<1> HIDE DEF c
<1>6. /\ gs \in Seq(Nat) /\ Len(gs) = Len(globalHandlers) + 1 /\ Len(globalHandlers) \in Nat
      /\ gs[Len(globalHandlers) + 1] = c
      /\ DOMAIN gs = 1..(Len(globalHandlers) + 1)
      /\ DOMAIN globalHandlers = 1..Len(globalHandlers)
      /\ \A p \in DOMAIN globalHandlers : gs[p] = globalHandlers[p]
  BY <1>4, <1>5 DEF RouterTypeOK
<1> HIDE DEF gs
<1>7. /\ Len(globalHandlers) + 1 \in DOMAIN gs
      /\ \A p \in DOMAIN globalHandlers : p \in DOMAIN gs
      /\ \A p \in DOMAIN gs : p \in DOMAIN globalHandlers \/ p = Len(globalHandlers) + 1
  BY <1>6
<1>8. RouterTypeOK'
  <2>1. UNCHANGED <<chain, index, ran, due>>
    BY <1>1 DEF reqVars
  <2> QED BY <1>1, <1>3, <1>4, <1>5, <1>6, <2>1 DEF RouterTypeOK, Entries
<1>9. ScopeInv'
  <2>1. ASSUME NEW s \in scope'
        PROVE  /\ s.h <= count'
               /\ s.kind = "route" => s.h # 1 /\ s.lo = s.hi /\ apis[s.lo] = <<s.h>>
               /\ s.kind = "global" => /\ s.h # 1 /\ s.lo = 1 /\ s.hi = MaxMsgID
                                       /\ \E p \in DOMAIN gs : gs[p] = s.h
    <3>1. CASE s = e
      BY <1>3, <1>5, <1>6, <1>7, <3>1
    <3>2. CASE s \in scope
      <4>1. s.kind = "global" => \E p \in DOMAIN gs : gs[p] = s.h
        BY <1>4, <1>6, <1>7, <3>2 DEF ScopeInv
      <4> QED BY <1>3, <1>4, <3>2, <4>1 DEF ScopeInv
    <3> QED BY <1>3, <3>1, <3>2
  <2>2. ASSUME NEW p \in DOMAIN gs
        PROVE  [h |-> gs[p], kind |-> "global", lo |-> 1, hi |-> MaxMsgID] \in scope'
    <3>1. CASE p = Len(globalHandlers) + 1
      BY <1>3, <1>6, <3>1 DEF Entry
    <3>2. CASE p \in DOMAIN globalHandlers
      BY <1>3, <1>4, <1>6, <3>2 DEF ScopeInv
    <3> QED BY <1>7, <3>1, <3>2
  <2>3. \A j \in MsgID : apis[j] # <<>> =>
           /\ Len(apis[j]) = 1
           /\ [h |-> apis[j][1], kind |-> "route", lo |-> j, hi |-> j] \in scope'
    BY <1>3, <1>4 DEF ScopeInv
  <2> HIDE DEF e
  <2> QED BY <1>1, <1>3, <2>1, <2>2, <2>3 DEF ScopeInv
<1> HIDE DEF e
<1>10. SliceInv' /\ GroupInv'
  BY <1>1, <1>3, GroupsKept
<1>11. RanInv' /\ ChainInv'
  BY <1>1, <1>3, RequestKept
<1> QED BY <1>8, <1>9, <1>10, <1>11 DEF RouterInv

\* The groups before the last one of a list, and the last one.
LEMMA OneGroupMore ==
    ASSUME RouterTypeOK, NEW g \in GroupRange, groupRanges' = Append(groupRanges, g)
    PROVE  LET n == Len(groupRanges) + 1
           IN  /\ groupRanges' \in Seq(GroupRange) /\ n \in DOMAIN groupRanges'
               /\ groupRanges'[n] = g
               /\ \A i \in DOMAIN groupRanges : /\ i \in DOMAIN groupRanges' /\ i < n
                                                /\ groupRanges'[i] = groupRanges[i]
               /\ \A i \in DOMAIN groupRanges' : i \in DOMAIN groupRanges \/ i = n
               /\ DOMAIN groupRanges' \subseteq Nat
<1> DEFINE gs == groupRanges
           l == Len(gs)
           t == Append(gs, g)
<1>1. gs \in Seq(GroupRange)
  BY DEF RouterTypeOK, GroupRange
<1>2. /\ l \in Nat /\ DOMAIN gs = 1..l /\ t \in Seq(GroupRange) /\ DOMAIN t = 1..(l + 1)
      /\ t[l + 1] = g /\ \A i \in 1..l : t[i] = gs[i]
  BY ONLY <1>1, g \in GroupRange
<1>3. groupRanges' = t
  OBVIOUS
<1> HIDE DEF l, t, gs
<1>4. /\ l + 1 \in 1..(l + 1) /\ 1..(l + 1) \subseteq Nat
      /\ \A i \in 1..l : i \in 1..(l + 1) /\ i < l + 1
      /\ \A i \in 1..(l + 1) : i \in 1..l \/ i = l + 1
  BY ONLY <1>2
<1> QED BY <1>2, <1>3, <1>4 DEF l, gs

\* The routes and the global middleware, when only groups change.
LEMMA RoutesKept ==
    ASSUME RouterInv, UNCHANGED <<apis, globalHandlers>>, NEW e, scope' = scope \cup {e},
           e.kind = "group", e.h <= count', \A s \in scope : s.h <= count',
           \A s, t \in scope' : s.h = t.h => s.h = 1 \/ s = t
    PROVE  ScopeInv'
<1>1. ScopeInv
  BY DEF RouterInv
<1>2. \A s \in scope' : s.kind # "group" => s \in scope
  OBVIOUS
<1>3. \A s \in scope' : s.h <= count'
  OBVIOUS
<1> QED BY <1>1, <1>2, <1>3 DEF ScopeInv

\* Group with the slice of the application.
LEMMA GroupSharedStep ==
    ASSUME RouterInv, NEW lo \in MsgID, NEW hi \in MsgID,
           groupRanges' = Append(groupRanges, [start |-> lo, end |-> hi,
                                               handlers |-> Mws]),
           scope' = scope \cup {Entry(1, "group", lo, hi)},
           UNCHANGED <<arrays, apis, globalHandlers, count, reqVars>>
    PROVE  RouterInv'
<1> DEFINE g == [start |-> lo, end |-> hi, handlers |-> Mws]
           n == Len(groupRanges) + 1
           e == Entry(1, "group", lo, hi)
<1>0. RouterTypeOK /\ SliceInv /\ ScopeInv /\ GroupInv
  BY DEF RouterInv
<1>1. /\ g \in GroupRange /\ g.start = lo /\ g.end = hi /\ g.handlers.arr = 1
      /\ g.handlers.len = 1
  BY DEF GroupRange, Slice, Mws
<1>2. e \in Entries /\ e.h = 1 /\ e.kind = "group" /\ e.lo = lo /\ e.hi = hi
  BY DEF Entry, Entries, Kind
<1>3. [h |-> 1, kind |-> "group", lo |-> lo, hi |-> hi] \in scope' /\ scope \subseteq scope'
  BY DEF Entry
<1>4. /\ groupRanges' \in Seq(GroupRange) /\ n \in DOMAIN groupRanges' /\ groupRanges'[n] = g
      /\ \A i \in DOMAIN groupRanges : /\ i \in DOMAIN groupRanges' /\ i < n
                                       /\ groupRanges'[i] = groupRanges[i]
      /\ \A i \in DOMAIN groupRanges' : i \in DOMAIN groupRanges \/ i = n
      /\ DOMAIN groupRanges' \subseteq Nat
  <2> HIDE DEF g
  <2> QED BY <1>0, <1>1, OneGroupMore DEF g
<1> HIDE DEF g, n, e
<1>5. RouterTypeOK'
  BY <1>0, <1>2, <1>4, Zenon DEF RouterTypeOK, Entries, GroupRange, reqVars, e
<1>6. ScopeInv'
  <2>1. e.h <= count' /\ \A s \in scope : s.h <= count'
    BY <1>0, <1>2 DEF RouterTypeOK, ScopeInv
  <2>2. \A s, t \in scope' : s.h = t.h => s.h = 1 \/ s = t
    BY <1>0, <1>2 DEF ScopeInv, e
  <2> QED BY <1>2, <2>1, <2>2, RoutesKept DEF e
<1>7. 1 \in 1..Len(arrays) /\ Len(arrays[1]) \in Nat /\ Len(arrays[1]) >= 1 /\ arrays[1][1] = 1
  BY <1>0, RouterAssumption DEF RouterTypeOK, SliceInv
<1>8. SliceInv'
  <2>1. ASSUME NEW i \in DOMAIN groupRanges'
        PROVE  LET k == groupRanges'[i]
                   s == k.handlers
               IN  /\ s.arr \in 1..Len(arrays) /\ s.len <= Len(arrays[s.arr])
                   /\ s.arr # 1 => s.len = Len(arrays[s.arr])
                   /\ s.arr = 1 => /\ s.len >= 1
                                   /\ [h |-> 1, kind |-> "group", lo |-> k.start, hi |-> k.end]
                                         \in scope'
    <3>1. CASE i = n
      BY <1>1, <1>3, <1>4, <1>7, <3>1, SMTT(30)
    <3>2. CASE i \in DOMAIN groupRanges
      BY <1>0, <1>3, <1>4, <3>2 DEF SliceInv
    <3> QED BY <1>4, <3>1, <3>2, ZenonT(30)
  <2>2. ASSUME NEW i \in DOMAIN groupRanges', NEW j \in DOMAIN groupRanges', i < j
        PROVE  LET x == groupRanges'[i]
                   k == groupRanges'[j]
               IN  /\ x.handlers.arr = k.handlers.arr => k.handlers.arr = 1
                   /\ x.start = k.start /\ x.end = k.end /\ k.handlers.arr = 1
                         => k.handlers.len = 1
    <3>1. CASE j = n
      BY <1>1, <1>4, <3>1
    <3>2. CASE j \in DOMAIN groupRanges
      <4>1. i \in DOMAIN groupRanges
        BY <1>4, <2>2, <3>2
      <4> QED BY <1>0, <1>4, <2>2, <3>2, <4>1 DEF SliceInv
    <3> QED BY <1>4, <3>1, <3>2
  <2> QED BY <1>0, <2>1, <2>2, ZenonT(30) DEF SliceInv
<1>9. GroupInv'
  <2> SUFFICES ASSUME Unshared' PROVE GroupInv'
    BY Zenon DEF GroupInv
  <2>0. Unshared
    BY <1>3, UnsharedBefore
  <2>1. ASSUME NEW i \in DOMAIN groupRanges', NEW k \in 1..groupRanges'[i].handlers.len
        PROVE  [h |-> arrays[groupRanges'[i].handlers.arr][k], kind |-> "group",
                lo |-> groupRanges'[i].start, hi |-> groupRanges'[i].end] \in scope'
    <3>1. CASE i = n
      <4>1. k = 1
        BY <1>1, <1>4, <3>1
      <4> QED BY <1>1, <1>3, <1>4, <1>7, <3>1, <4>1
    <3>2. CASE i \in DOMAIN groupRanges
      BY <1>0, <1>3, <1>4, <2>0, <3>2, ZenonT(30) DEF GroupInv
    <3> QED BY <1>4, <3>1, <3>2, Zenon
  <2>2. ASSUME NEW s \in scope', s.kind = "group"
        PROVE  \E i \in DOMAIN groupRanges' :
                  /\ groupRanges'[i].start = s.lo /\ groupRanges'[i].end = s.hi
                  /\ \E k \in 1..groupRanges'[i].handlers.len :
                         arrays[groupRanges'[i].handlers.arr][k] = s.h
    <3>1. CASE s = e
      <4>1. 1 \in 1..groupRanges'[n].handlers.len
        BY <1>1, <1>4
      <4> QED BY <1>1, <1>2, <1>4, <1>7, <3>1, <4>1
    <3>2. CASE s \in scope
      BY <1>0, <1>4, <2>0, <2>2, <3>2, SMTT(30) DEF GroupInv
    <3> QED BY <3>1, <3>2 DEF e
  <2>3. arrays' = arrays
    OBVIOUS
  <2> QED BY ONLY <2>1, <2>2, <2>3, ZenonT(30) DEF GroupInv
<1>10. RanInv' /\ ChainInv'
  BY <1>3, RequestKept
<1> QED BY <1>5, <1>6, <1>8, <1>9, <1>10 DEF RouterInv

\* One more array leaves the others where they are.
LEMMA OneArrayMore ==
    ASSUME RouterTypeOK, NEW a \in Seq(Nat), arrays' = Append(arrays, a)
    PROVE  LET n == Len(arrays) + 1
           IN  /\ arrays' \in Seq(Seq(Nat)) /\ Len(arrays') = n /\ n \in Nat /\ n > 1
               /\ arrays'[n] = a
               /\ \A x \in 1..Len(arrays) : x \in 1..n /\ x # n /\ arrays'[x] = arrays[x]
               /\ 1 \in 1..Len(arrays)
<1> DEFINE as == arrays
           l == Len(as)
           t == Append(as, a)
<1>1. as \in Seq(Seq(Nat)) /\ l >= 1
  BY DEF RouterTypeOK
<1>2. /\ l \in Nat /\ t \in Seq(Seq(Nat)) /\ Len(t) = l + 1
      /\ t[l + 1] = a /\ \A x \in 1..l : t[x] = as[x]
  BY ONLY <1>1, a \in Seq(Nat)
<1>3. arrays' = t
  OBVIOUS
<1> HIDE DEF l, t, as
<1>4. /\ l + 1 \in Nat /\ l + 1 > 1 /\ 1 \in 1..l
      /\ \A x \in 1..l : x \in 1..(l + 1) /\ x # l + 1
  BY ONLY <1>1, <1>2
<1> QED BY <1>2, <1>3, <1>4 DEF l, as

\* Group without handlers.
LEMMA GroupEmptyStep ==
    ASSUME RouterInv, NEW lo \in MsgID, NEW hi \in MsgID,
           arrays' = Append(arrays, <<>>),
           groupRanges' = Append(groupRanges, [start |-> lo, end |-> hi,
                                  handlers |-> [arr |-> Len(arrays) + 1, len |-> 0]]),
           UNCHANGED <<scope, apis, globalHandlers, count, reqVars>>
    PROVE  RouterInv'
<1> DEFINE m == Len(arrays) + 1
           g == [start |-> lo, end |-> hi, handlers |-> [arr |-> m, len |-> 0]]
           n == Len(groupRanges) + 1
<1>0. RouterTypeOK /\ SliceInv /\ ScopeInv /\ GroupInv
  BY DEF RouterInv
<1>1. <<>> \in Seq(Nat) /\ Len(<<>>) = 0
  OBVIOUS
<1>2. /\ arrays' \in Seq(Seq(Nat)) /\ Len(arrays') = m /\ m \in Nat /\ m > 1 /\ arrays'[m] = <<>>
      /\ \A x \in 1..Len(arrays) : x \in 1..m /\ x # m /\ arrays'[x] = arrays[x]
      /\ 1 \in 1..Len(arrays)
  BY <1>0, <1>1, OneArrayMore, Zenon
<1> HIDE DEF m
<1>3. /\ g \in GroupRange /\ g.start = lo /\ g.end = hi /\ g.handlers.arr = m
      /\ g.handlers.len = 0
  BY <1>2 DEF GroupRange, Slice
<1>4. groupRanges' = Append(groupRanges, g)
  BY DEF m
<1> HIDE DEF g
<1>5. /\ groupRanges' \in Seq(GroupRange) /\ n \in DOMAIN groupRanges' /\ groupRanges'[n] = g
      /\ \A i \in DOMAIN groupRanges : /\ i \in DOMAIN groupRanges' /\ i < n
                                       /\ groupRanges'[i] = groupRanges[i]
      /\ \A i \in DOMAIN groupRanges' : i \in DOMAIN groupRanges \/ i = n
      /\ DOMAIN groupRanges' \subseteq Nat
  BY <1>0, <1>3, <1>4, OneGroupMore
<1> HIDE DEF n
<1>6. RouterTypeOK'
  BY <1>0, <1>2, <1>5, SMTT(30) DEF RouterTypeOK, GroupRange, reqVars
<1>7. ScopeInv'
  BY <1>0 DEF ScopeInv
<1>8. SliceInv'
  <2>1. ASSUME NEW i \in DOMAIN groupRanges'
        PROVE  LET k == groupRanges'[i]
                   s == k.handlers
               IN  /\ s.arr \in 1..Len(arrays') /\ s.len <= Len(arrays'[s.arr])
                   /\ s.arr # 1 => s.len = Len(arrays'[s.arr])
                   /\ s.arr = 1 => /\ s.len >= 1
                                   /\ [h |-> 1, kind |-> "group", lo |-> k.start, hi |-> k.end]
                                         \in scope
    <3>1. CASE i = n
      <4>1. m \in 1..m /\ m # 1
        BY ONLY <1>2
      <4>2. groupRanges'[i].handlers.arr = m /\ groupRanges'[i].handlers.len = 0
        BY ONLY <1>3, <1>5, <3>1, Zenon
      <4>3. 0 <= Len(arrays'[m]) /\ 0 = Len(arrays'[m])
        BY ONLY <1>1, <1>2
      <4> QED BY ONLY <1>2, <4>1, <4>2, <4>3, Zenon
    <3>2. CASE i \in DOMAIN groupRanges
      <4> DEFINE s == groupRanges[i].handlers
      <4>1. /\ s.arr \in 1..Len(arrays) /\ s.len <= Len(arrays[s.arr])
            /\ s.arr # 1 => s.len = Len(arrays[s.arr])
            /\ s.arr = 1 => /\ s.len >= 1
                            /\ [h |-> 1, kind |-> "group", lo |-> groupRanges[i].start,
                                hi |-> groupRanges[i].end] \in scope
        BY <1>0, <3>2 DEF SliceInv
      <4>2. groupRanges'[i] = groupRanges[i]
        BY <1>5, <3>2
      <4> QED BY ONLY <1>2, <4>1, <4>2
    <3> QED BY <1>5, <3>1, <3>2, ZenonT(30)
  <2>2. ASSUME NEW i \in DOMAIN groupRanges', NEW j \in DOMAIN groupRanges', i < j
        PROVE  LET x == groupRanges'[i]
                   k == groupRanges'[j]
               IN  /\ x.handlers.arr = k.handlers.arr => k.handlers.arr = 1
                   /\ x.start = k.start /\ x.end = k.end /\ k.handlers.arr = 1
                         => k.handlers.len = 1
    <3>0. i \in DOMAIN groupRanges
      BY <1>5, <2>2
    <3>1. CASE j = n
      <4>1. groupRanges[i].handlers.arr \in 1..Len(arrays)
        BY <1>0, <3>0, ZenonT(30) DEF SliceInv
      <4>2. groupRanges'[i] = groupRanges[i] /\ groupRanges'[j] = g
        BY <1>5, <3>0, <3>1
      <4>3. m # 1 /\ groupRanges[i].handlers.arr # m
        BY ONLY <1>2, <4>1
      <4> QED BY ONLY <1>3, <4>2, <4>3
    <3>2. CASE j \in DOMAIN groupRanges
      <4>1. LET x == groupRanges[i]
                k == groupRanges[j]
            IN  /\ x.handlers.arr = k.handlers.arr => k.handlers.arr = 1
                /\ x.start = k.start /\ x.end = k.end /\ k.handlers.arr = 1
                      => k.handlers.len = 1
        BY <1>0, <2>2, <3>0, <3>2, Zenon DEF SliceInv
      <4>2. groupRanges'[i] = groupRanges[i] /\ groupRanges'[j] = groupRanges[j]
        BY <1>5, <3>0, <3>2
      <4> QED BY ONLY <4>1, <4>2
    <3> QED BY <1>5, <3>1, <3>2
  <2> QED BY <1>0, <1>2, <2>1, <2>2, ZenonT(30) DEF SliceInv
<1>9. GroupInv'
  <2> SUFFICES ASSUME Unshared PROVE GroupInv'
    BY Zenon DEF GroupInv, Unshared
  <2>1. \A i \in DOMAIN groupRanges : groupRanges[i].handlers.arr \in 1..Len(arrays)
    BY <1>0, Zenon DEF SliceInv
  <2>2. ASSUME NEW i \in DOMAIN groupRanges', NEW k \in 1..groupRanges'[i].handlers.len
        PROVE  [h |-> arrays'[groupRanges'[i].handlers.arr][k], kind |-> "group",
                lo |-> groupRanges'[i].start, hi |-> groupRanges'[i].end] \in scope
    <3>1. i # n
      BY <1>3, <1>5, <2>2
    <3>2. i \in DOMAIN groupRanges
      BY <1>5, <3>1
    <3>3. groupRanges'[i] = groupRanges[i]
      BY ONLY <1>5, <3>2, Zenon
    <3>4. arrays'[groupRanges[i].handlers.arr] = arrays[groupRanges[i].handlers.arr]
      BY ONLY <1>2, <2>1, <3>2, Zenon
    <3>5. k \in 1..groupRanges[i].handlers.len
      BY ONLY <3>3, k \in 1..groupRanges'[i].handlers.len, Zenon
    <3>6. [h |-> arrays[groupRanges[i].handlers.arr][k], kind |-> "group",
           lo |-> groupRanges[i].start, hi |-> groupRanges[i].end] \in scope
      BY ONLY <1>0, <3>2, <3>5, Unshared, Zenon DEF GroupInv
    <3> QED BY ONLY <3>3, <3>4, <3>6, Zenon
  <2>3. ASSUME NEW s \in scope, s.kind = "group"
        PROVE  \E i \in DOMAIN groupRanges' :
                  /\ groupRanges'[i].start = s.lo /\ groupRanges'[i].end = s.hi
                  /\ \E k \in 1..groupRanges'[i].handlers.len :
                         arrays'[groupRanges'[i].handlers.arr][k] = s.h
    <3>1. PICK i \in DOMAIN groupRanges :
             /\ groupRanges[i].start = s.lo /\ groupRanges[i].end = s.hi
             /\ \E k \in 1..groupRanges[i].handlers.len :
                    arrays[groupRanges[i].handlers.arr][k] = s.h
      BY <1>0, <2>3, Zenon DEF GroupInv
    <3>2. groupRanges'[i] = groupRanges[i] /\ i \in DOMAIN groupRanges'
      BY <1>5, Zenon
    <3>3. arrays'[groupRanges[i].handlers.arr] = arrays[groupRanges[i].handlers.arr]
      BY <1>2, <2>1
    <3> QED BY ONLY <3>1, <3>2, <3>3
  <2> QED BY <2>2, <2>3, ZenonT(30) DEF GroupInv
<1>10. RanInv' /\ ChainInv'
  BY RequestKept
<1> QED BY <1>6, <1>7, <1>8, <1>9, <1>10 DEF RouterInv

\* Group, either way.
LEMMA GroupStep ==
    ASSUME RouterInv, NEW lo \in MsgID, NEW hi \in MsgID, Group(lo, hi)
    PROVE  RouterInv'
  BY GroupSharedStep, GroupEmptyStep DEF Group, Entry

-----------------------------------------------------------------------------
(* groupRouterSlices.Use                                                   *)

\* A handle that was returned by Group stands for a group: the first one with
\* its range.
LEMMA FirstOfRange ==
    ASSUME RouterTypeOK, NEW lo, NEW hi, WithRange(lo, hi) # {}
    PROVE  LET i == FirstGroup(lo, hi)
           IN  /\ i \in DOMAIN groupRanges /\ groupRanges[i].start = lo /\ groupRanges[i].end = hi
               /\ \A j \in WithRange(lo, hi) : i <= j
<1> DEFINE W == WithRange(lo, hi)
<1>1. W \subseteq Nat
  <2>1. groupRanges \in Seq([start : MsgID, end : MsgID, handlers : Slice])
    BY Zenon DEF RouterTypeOK
  <2>2. DOMAIN groupRanges \subseteq Nat
    BY ONLY <2>1
  <2> QED BY ONLY <2>2, Zenon DEF WithRange
<1>2. PICK x \in W : \A y \in W : ~ (<<y, x>> \in OpToRel(<, Nat))
  <2> HIDE DEF W
  <2> QED BY <1>1, W # {}, WFMin, NatLessThanWellFounded, Zenon DEF W
<1>3. \A y \in W : ~(y < x)
  BY <1>1, <1>2, Zenon DEF OpToRel
<1>4. x \in W /\ \A y \in W : x <= y
  BY <1>1, <1>3
<1>5. FirstGroup(lo, hi) \in W /\ \A y \in W : FirstGroup(lo, hi) <= y
  BY <1>4 DEF FirstGroup
<1> QED BY <1>5 DEF WithRange

\* What the type invariant says of one group.
LEMMA GroupType ==
    ASSUME RouterTypeOK, NEW i \in DOMAIN groupRanges
    PROVE  /\ i \in Nat /\ groupRanges[i] \in GroupRange
           /\ groupRanges[i].handlers.arr \in Nat /\ groupRanges[i].handlers.len \in Nat
<1>1. groupRanges \in Seq(GroupRange)
  BY DEF RouterTypeOK, GroupRange
<1>2. i \in Nat /\ groupRanges[i] \in GroupRange
  BY ONLY <1>1, i \in DOMAIN groupRanges
<1> QED BY <1>2 DEF GroupRange, Slice

\* Group n has c as one handler more, after the l that it has, and all the groups
\* show what they showed.
GroupGrows(n, l, c) ==
    /\ DOMAIN groupRanges' = DOMAIN groupRanges
    /\ \A i \in DOMAIN groupRanges :
           /\ groupRanges'[i].start = groupRanges[i].start
           /\ groupRanges'[i].end = groupRanges[i].end
           /\ groupRanges'[i].handlers.len =
                 IF i = n THEN l + 1 ELSE groupRanges[i].handlers.len
    /\ Shown(n, l + 1)' = c
    /\ Unshared' => \A i \in DOMAIN groupRanges : \A k \in 1..groupRanges[i].handlers.len :
                        Shown(i, k)' = Shown(i, k)

\* Then GroupInv goes on to hold.
LEMMA OneHandlerMore ==
    ASSUME RouterInv, NEW lo \in MsgID, NEW hi \in MsgID, NEW c \in Nat,
           NEW e, e = Entry(c, "group", lo, hi), scope' = scope \cup {e},
           NEW n \in DOMAIN groupRanges, groupRanges[n].start = lo,
           groupRanges[n].end = hi,
           NEW l, l = groupRanges[n].handlers.len, GroupGrows(n, l, c)
    PROVE  GroupInv'
<1> USE DEF GroupGrows
<1> SUFFICES ASSUME Unshared' PROVE GroupInv'
  BY Zenon DEF GroupInv
<1>0. Unshared /\ GroupInv
  BY UnsharedBefore DEF RouterInv
<1>1. e.h = c /\ e.kind = "group" /\ e.lo = lo /\ e.hi = hi
  BY DEF Entry
<1>2. \A i \in DOMAIN groupRanges : groupRanges[i].handlers.len \in Nat
  BY GroupType DEF RouterInv
<1>3. l \in Nat /\ groupRanges'[n].handlers.len = l + 1 /\ l + 1 \in 1..(l + 1)
  BY <1>2
<1>4. \A i \in DOMAIN groupRanges : \A k \in 1..groupRanges[i].handlers.len :
         /\ k \in 1..groupRanges'[i].handlers.len
         /\ arrays'[groupRanges'[i].handlers.arr][k] = arrays[groupRanges[i].handlers.arr][k]
  BY <1>2 DEF Shown
<1>5. arrays'[groupRanges'[n].handlers.arr][l + 1] = c
  BY DEF Shown
<1>6. \A i \in DOMAIN groupRanges : \A k \in 1..groupRanges'[i].handlers.len :
         k \in 1..groupRanges[i].handlers.len \/ (i = n /\ k = l + 1)
  BY <1>2
<1>7. ASSUME NEW i \in DOMAIN groupRanges', NEW k \in 1..groupRanges'[i].handlers.len
      PROVE  [h |-> arrays'[groupRanges'[i].handlers.arr][k], kind |-> "group",
              lo |-> groupRanges'[i].start, hi |-> groupRanges'[i].end] \in scope'
  <2>1. CASE i = n /\ k = l + 1
    <3>1. groupRanges'[i].start = lo /\ groupRanges'[i].end = hi
      BY <2>1
    <3> QED BY <1>5, <2>1, <3>1, Zenon DEF Entry
  <2>2. CASE k \in 1..groupRanges[i].handlers.len
    <3>1. [h |-> arrays[groupRanges[i].handlers.arr][k], kind |-> "group",
           lo |-> groupRanges[i].start, hi |-> groupRanges[i].end] \in scope
      BY <1>0, <2>2, Zenon DEF GroupInv
    <3>2. /\ i \in DOMAIN groupRanges /\ scope \subseteq scope'
          /\ groupRanges'[i].start = groupRanges[i].start
          /\ groupRanges'[i].end = groupRanges[i].end
      BY Zenon
    <3>3. arrays'[groupRanges'[i].handlers.arr][k] = arrays[groupRanges[i].handlers.arr][k]
      BY ONLY <1>4, <2>2, <3>2, Zenon
    <3> QED BY ONLY <3>1, <3>2, <3>3, Zenon
  <2> QED BY <1>6, <2>1, <2>2, ZenonT(30)
<1>8. ASSUME NEW s \in scope', s.kind = "group"
      PROVE  \E i \in DOMAIN groupRanges' :
                /\ groupRanges'[i].start = s.lo /\ groupRanges'[i].end = s.hi
                /\ \E k \in 1..groupRanges'[i].handlers.len :
                       arrays'[groupRanges'[i].handlers.arr][k] = s.h
  <2>1. CASE s = e
    <3>1. groupRanges'[n].start = s.lo /\ groupRanges'[n].end = s.hi
      BY <1>1, <2>1
    <3> QED BY ONLY <1>1, <1>3, <1>5, <2>1, <3>1, n \in DOMAIN groupRanges',
                    ZenonT(30)
  <2>2. CASE s \in scope
    <3>1. PICK i \in DOMAIN groupRanges :
             /\ groupRanges[i].start = s.lo /\ groupRanges[i].end = s.hi
             /\ \E k \in 1..groupRanges[i].handlers.len :
                    arrays[groupRanges[i].handlers.arr][k] = s.h
      BY <1>0, <1>8, <2>2, Zenon DEF GroupInv
    <3>2. /\ i \in DOMAIN groupRanges'
          /\ groupRanges'[i].start = groupRanges[i].start
          /\ groupRanges'[i].end = groupRanges[i].end
      BY Zenon
    <3> QED BY ONLY <1>4, <3>1, <3>2, ZenonT(30)
  <2> QED BY <2>1, <2>2, ZenonT(30)
<1> QED BY <1>7, <1>8, ZenonT(30) DEF GroupInv

\* append in place: only the slice of the application has room, and under
\* Unshared the other groups that hold it show its first handler alone.
LEMMA UseInPlace ==
    ASSUME RouterInv, NEW lo \in MsgID, NEW hi \in MsgID, NEW c \in Nat,
           NEW e, e = Entry(c, "group", lo, hi), scope' = scope \cup {e},
           NEW n \in DOMAIN groupRanges, groupRanges[n].start = lo,
           groupRanges[n].end = hi,
           \A j \in WithRange(lo, hi) : n <= j,
           NEW l, l = groupRanges[n].handlers.len, NEW a, a = groupRanges[n].handlers.arr,
           l < Len(arrays[a]),
           arrays' = [arrays EXCEPT ![a][l + 1] = c],
           groupRanges' = [groupRanges EXCEPT ![n].handlers.len = @ + 1]
    PROVE  /\ arrays' \in Seq(Seq(Nat)) /\ Len(arrays') >= 1 /\ groupRanges' \in Seq(GroupRange)
           /\ SliceInv' /\ GroupInv'
<1> DEFINE first == [arrays[1] EXCEPT ![l + 1] = c]
           g == [groupRanges[n] EXCEPT !.handlers = [groupRanges[n].handlers EXCEPT !.len = l + 1]]
<1>0. /\ RouterTypeOK /\ SliceInv /\ groupRanges \in Seq(GroupRange)
      /\ arrays \in Seq(Seq(Nat)) /\ Len(arrays) >= 1
  BY Zenon DEF RouterInv, RouterTypeOK, GroupRange
<1>1. /\ n \in Nat /\ groupRanges[n] \in GroupRange /\ a \in Nat /\ l \in Nat
      /\ \A i \in DOMAIN groupRanges : i \in Nat /\ groupRanges[i].handlers.len \in Nat
  BY <1>0, GroupType
<1>2. a \in 1..Len(arrays) /\ (a # 1 => l = Len(arrays[a])) /\ (a = 1 => l >= 1)
  BY <1>0, Zenon DEF SliceInv
<1>3. a = 1 /\ l >= 1 /\ Len(arrays) \in Nat /\ 1 \in 1..Len(arrays)
  BY <1>0, <1>1, <1>2
<1>4. /\ arrays[1] \in Seq(Nat) /\ Len(arrays[1]) \in Nat /\ l < Len(arrays[1])
      /\ l + 1 \in 1..Len(arrays[1]) /\ 1 # l + 1 /\ 1 \in 1..Len(arrays[1])
  <2>1. arrays[1] \in Seq(Nat)
    BY ONLY <1>0, <1>3
  <2>2. Len(arrays[1]) \in Nat
    BY ONLY <2>1
  <2>3. l < Len(arrays[1])
    BY <1>3
  <2> HIDE DEF first, g
  <2>4. l + 1 \in 1..Len(arrays[1]) /\ 1 # l + 1 /\ 1 \in 1..Len(arrays[1])
    BY ONLY <1>1, <1>3, <2>2, <2>3
  <2> QED BY <2>1, <2>2, <2>3, <2>4
<1>5. /\ first \in Seq(Nat) /\ Len(first) = Len(arrays[1]) /\ first[l + 1] = c
      /\ \A k \in 1..Len(arrays[1]) : k # l + 1 => first[k] = arrays[1][k]
  BY ONLY <1>4, c \in Nat
<1>6. arrays' = [arrays EXCEPT ![1] = first]
  BY <1>3
<1> HIDE DEF first
<1>7. /\ arrays' \in Seq(Seq(Nat)) /\ Len(arrays') = Len(arrays) /\ arrays'[1] = first
      /\ \A x \in 1..Len(arrays) : x # 1 => arrays'[x] = arrays[x]
  BY ONLY <1>0, <1>3, <1>5, <1>6
<1>8. /\ g \in GroupRange /\ g.start = lo /\ g.end = hi /\ g.handlers.arr = 1
      /\ g.handlers.len = l + 1
  <2> DEFINE s == [groupRanges[n].handlers EXCEPT !.len = l + 1]
  <2>1. groupRanges[n].handlers \in Slice
    BY ONLY <1>1 DEF GroupRange
  <2>2. s \in Slice /\ s.arr = 1 /\ s.len = l + 1
    BY ONLY <1>1, <1>3, <2>1, a = groupRanges[n].handlers.arr DEF Slice
  <2> HIDE DEF s
  <2>3. g = [groupRanges[n] EXCEPT !.handlers = s]
    BY DEF s
  <2> HIDE DEF g
  <2> QED BY ONLY <1>1, <2>2, <2>3, groupRanges[n].start = lo, groupRanges[n].end = hi
             DEF GroupRange
<1>9. groupRanges' = [groupRanges EXCEPT ![n] = g]
  OBVIOUS
<1> HIDE DEF g
<1>10. /\ groupRanges' \in Seq(GroupRange) /\ DOMAIN groupRanges' = DOMAIN groupRanges
       /\ groupRanges'[n] = g
       /\ \A i \in DOMAIN groupRanges : i # n => groupRanges'[i] = groupRanges[i]
  BY ONLY <1>0, <1>8, <1>9, n \in DOMAIN groupRanges
<1>11. SliceInv'
  <2>1. ASSUME NEW i \in DOMAIN groupRanges'
        PROVE  LET k == groupRanges'[i]
                   s == k.handlers
               IN  /\ s.arr \in 1..Len(arrays') /\ s.len <= Len(arrays'[s.arr])
                   /\ s.arr # 1 => s.len = Len(arrays'[s.arr])
                   /\ s.arr = 1 => /\ s.len >= 1
                                   /\ [h |-> 1, kind |-> "group", lo |-> k.start, hi |-> k.end]
                                         \in scope'
    <3> DEFINE s == groupRanges[i].handlers
    <3>1. /\ s.arr \in 1..Len(arrays) /\ s.len <= Len(arrays[s.arr])
          /\ s.arr # 1 => s.len = Len(arrays[s.arr])
          /\ s.arr = 1 => /\ s.len >= 1
                          /\ [h |-> 1, kind |-> "group", lo |-> groupRanges[i].start,
                              hi |-> groupRanges[i].end] \in scope'
      BY <1>0, <1>10, Zenon DEF SliceInv
    <3>2. CASE i = n
      <4>1. [h |-> 1, kind |-> "group", lo |-> lo, hi |-> hi] \in scope'
        BY <1>3, <3>1, <3>2, Zenon
      <4>2. l + 1 <= Len(arrays'[1]) /\ l + 1 >= 1
        <5>1. Len(arrays'[1]) = Len(arrays[1])
          BY ONLY <1>5, <1>7
        <5> QED BY ONLY <1>1, <1>4, <5>1
      <4>3. groupRanges'[i] = g
        BY <1>10, <3>2
      <4> QED BY ONLY <1>3, <1>7, <1>8, <4>1, <4>2, <4>3
    <3>3. CASE i # n
      <4>1. groupRanges'[i] = groupRanges[i]
        BY <1>10, <3>3
      <4> QED BY ONLY <1>5, <1>7, <3>1, <4>1, Zenon
    <3> QED BY <3>2, <3>3
  <2>2. ASSUME NEW i \in DOMAIN groupRanges', NEW j \in DOMAIN groupRanges', i < j
        PROVE  LET x == groupRanges'[i]
                   k == groupRanges'[j]
               IN  /\ x.handlers.arr = k.handlers.arr => k.handlers.arr = 1
                   /\ x.start = k.start /\ x.end = k.end /\ k.handlers.arr = 1
                         => k.handlers.len = 1
    <3>1. LET x == groupRanges[i]
              k == groupRanges[j]
          IN  /\ x.handlers.arr = k.handlers.arr => k.handlers.arr = 1
              /\ x.start = k.start /\ x.end = k.end /\ k.handlers.arr = 1
                    => k.handlers.len = 1
      BY <1>0, <1>10, <2>2 DEF SliceInv
    <3>2. /\ groupRanges'[i].handlers.arr = groupRanges[i].handlers.arr
          /\ groupRanges'[j].handlers.arr = groupRanges[j].handlers.arr
          /\ groupRanges'[i].start = groupRanges[i].start /\ groupRanges'[i].end = groupRanges[i].end
          /\ groupRanges'[j].start = groupRanges[j].start /\ groupRanges'[j].end = groupRanges[j].end
      BY <1>3, <1>8, <1>10
    <3>3. CASE j = n
      <4>1. groupRanges[i].start = lo /\ groupRanges[i].end = hi => n <= i
        BY <1>10 DEF WithRange
      <4>2. ~(groupRanges[i].start = lo /\ groupRanges[i].end = hi)
        BY <1>1, <1>10, <2>2, <3>3, <4>1
      <4> QED BY <3>1, <3>2, <3>3, <4>2
    <3>4. CASE j # n
      <4>1. groupRanges'[j] = groupRanges[j]
        BY <1>10, <3>4
      <4> QED BY ONLY <3>1, <3>2, <4>1
    <3> QED BY <3>3, <3>4
  <2>3. Len(arrays'[1]) = 1 + Spare /\ arrays'[1][1] = 1
    BY <1>0, <1>4, <1>5, <1>7, ZenonT(30) DEF SliceInv
  <2> QED BY <2>1, <2>2, <2>3, Zenon DEF SliceInv
<1>12. Shown(n, l + 1)' = c
  BY <1>5, <1>7, <1>8, <1>10, Zenon DEF Shown
<1>13. ASSUME Unshared', NEW i \in DOMAIN groupRanges, NEW k \in 1..groupRanges[i].handlers.len
       PROVE  Shown(i, k)' = Shown(i, k)
  <2> DEFINE b == groupRanges[i].handlers.arr
  <2>1. groupRanges'[i].handlers.arr = b
    BY <1>3, <1>8, <1>10
  <2>2. b \in 1..Len(arrays) /\ groupRanges[i].handlers.len <= Len(arrays[b])
    BY <1>0, Zenon DEF SliceInv
  <2>3. CASE b # 1
    BY <1>7, <2>1, <2>2, <2>3, Zenon DEF Shown
  <2>4. CASE b = 1
    <3>1. k # l + 1
      <4>1. CASE i = n
        BY <1>1, <4>1
      <4>2. CASE i # n
        <5>1. Spare # 0
          <6>1. Len(arrays[1]) = 1 + Spare
            BY <1>0 DEF SliceInv
          <6> QED BY ONLY <1>1, <1>3, <1>4, <6>1, RouterAssumption
        <5>2. Unshared
          BY <1>13, UnsharedBefore
        <5> DEFINE s == [h |-> 1, kind |-> "group", lo |-> groupRanges[i].start, hi |-> groupRanges[i].end]
                   t == [h |-> 1, kind |-> "group", lo |-> lo, hi |-> hi]
        <5>3. s \in scope /\ t \in scope
          BY <1>0, <1>3, <2>4, Zenon DEF SliceInv
        <5>4. s.h = 1 /\ t.h = 1
          OBVIOUS
        <5>5. s = t
          BY <5>1, <5>2, <5>3, <5>4 DEF Unshared
        <5>6. groupRanges[i].start = lo /\ groupRanges[i].end = hi
          BY <5>5
        <5>7. n <= i
          BY <5>6 DEF WithRange
        <5>8. n < i
          BY <1>1, <4>2, <5>7
        <5>9. groupRanges[i].handlers.len = 1
          BY <1>0, <2>4, <5>6, <5>8, Zenon DEF SliceInv
        <5> QED BY <1>3, <1>4, <5>9
      <4> QED BY <4>1, <4>2
    <3>2. k \in 1..Len(arrays[1])
      BY ONLY <1>1, <1>4, <2>2, <2>4, i \in DOMAIN groupRanges,
         k \in 1..groupRanges[i].handlers.len
    <3>3. arrays'[1][k] = arrays[1][k]
      BY ONLY <1>5, <1>7, <3>1, <3>2
    <3> QED BY <2>1, <2>4, <3>3, Zenon DEF Shown
  <2> QED BY <2>3, <2>4
<1>14. \A i \in DOMAIN groupRanges :
          /\ groupRanges'[i].start = groupRanges[i].start
          /\ groupRanges'[i].end = groupRanges[i].end
          /\ groupRanges'[i].handlers.len = IF i = n THEN l + 1 ELSE groupRanges[i].handlers.len
  BY <1>8, <1>10
<1>15. GroupInv'
  <2>1. Unshared' => \A i \in DOMAIN groupRanges : \A k \in 1..groupRanges[i].handlers.len :
                         Shown(i, k)' = Shown(i, k)
    BY <1>13
  <2>2. DOMAIN groupRanges' = DOMAIN groupRanges
    BY <1>10
  <2>3. GroupGrows(n, l, c)
    BY ONLY <1>12, <1>14, <2>1, <2>2, Zenon DEF GroupGrows
  <2> QED BY ONLY <2>3, OneHandlerMore, RouterInv, lo \in MsgID, hi \in MsgID,
                  c \in Nat, e = Entry(c, "group", lo, hi), scope' = scope \cup {e},
                  n \in DOMAIN groupRanges, groupRanges[n].start = lo,
                  groupRanges[n].end = hi,
                  l = groupRanges[n].handlers.len, ZenonT(30)
<1> QED BY <1>0, <1>7, <1>10, <1>11, <1>15

\* append into a new array, which no other group has.
LEMMA UseCopies ==
    ASSUME RouterInv, NEW lo \in MsgID, NEW hi \in MsgID, NEW c \in Nat,
           NEW e, e = Entry(c, "group", lo, hi), scope' = scope \cup {e},
           NEW n \in DOMAIN groupRanges, groupRanges[n].start = lo,
           groupRanges[n].end = hi,
           NEW l, l = groupRanges[n].handlers.len, NEW a, a = groupRanges[n].handlers.arr,
           l = Len(arrays[a]),
           arrays' = Append(arrays, Append(SubSeq(arrays[a], 1, l), c)),
           groupRanges' = [groupRanges EXCEPT
                   ![n].handlers = [arr |-> Len(arrays) + 1, len |-> l + 1]]
    PROVE  /\ arrays' \in Seq(Seq(Nat)) /\ Len(arrays') >= 1 /\ groupRanges' \in Seq(GroupRange)
           /\ SliceInv' /\ GroupInv'
<1> DEFINE m == Len(arrays) + 1
           new == Append(SubSeq(arrays[a], 1, l), c)
           g == [groupRanges[n] EXCEPT !.handlers = [arr |-> m, len |-> l + 1]]
<1>0. /\ RouterTypeOK /\ SliceInv /\ groupRanges \in Seq(GroupRange)
      /\ arrays \in Seq(Seq(Nat)) /\ Len(arrays) >= 1
  BY Zenon DEF RouterInv, RouterTypeOK, GroupRange
<1>1. /\ n \in Nat /\ groupRanges[n] \in GroupRange /\ a \in Nat /\ l \in Nat
      /\ \A i \in DOMAIN groupRanges : i \in Nat /\ groupRanges[i].handlers.len \in Nat
  BY <1>0, GroupType, Zenon
<1>2. a \in 1..Len(arrays)
  BY <1>0, Zenon DEF SliceInv
<1>3. arrays[a] \in Seq(Nat)
  BY ONLY <1>0, <1>2
<1>4. /\ new \in Seq(Nat) /\ Len(new) = l + 1 /\ new[l + 1] = c
      /\ \A k \in 1..l : new[k] = arrays[a][k]
  BY ONLY <1>1, <1>3, c \in Nat, l = Len(arrays[a])
<1>5. arrays' = Append(arrays, new)
  OBVIOUS
<1> HIDE DEF new
<1>6. /\ arrays' \in Seq(Seq(Nat)) /\ Len(arrays') = m /\ m \in Nat /\ m > 1 /\ arrays'[m] = new
      /\ \A x \in 1..Len(arrays) : x \in 1..m /\ x # m /\ arrays'[x] = arrays[x]
      /\ 1 \in 1..Len(arrays)
  BY <1>0, <1>4, <1>5, OneArrayMore, Zenon
<1>7. groupRanges' = [groupRanges EXCEPT ![n] = g]
  OBVIOUS
<1> HIDE DEF m
<1>8. /\ g \in GroupRange /\ g.start = lo /\ g.end = hi /\ g.handlers.arr = m
      /\ g.handlers.len = l + 1
  <2>1. [arr |-> m, len |-> l + 1] \in Slice
    BY ONLY <1>1, <1>6 DEF Slice
  <2> QED BY ONLY <1>1, <2>1, groupRanges[n].start = lo, groupRanges[n].end = hi
             DEF GroupRange
<1> HIDE DEF g
<1>9. /\ groupRanges' \in Seq(GroupRange) /\ DOMAIN groupRanges' = DOMAIN groupRanges
      /\ groupRanges'[n] = g
      /\ \A i \in DOMAIN groupRanges : i # n => groupRanges'[i] = groupRanges[i]
  BY ONLY <1>0, <1>7, <1>8, n \in DOMAIN groupRanges
<1>10. \A i \in DOMAIN groupRanges : groupRanges[i].handlers.arr \in 1..Len(arrays)
  BY <1>0, ZenonT(30) DEF SliceInv
<1>11. m \in 1..m /\ m # 1
  BY ONLY <1>6
<1>12. SliceInv'
  <2>1. ASSUME NEW i \in DOMAIN groupRanges'
        PROVE  LET k == groupRanges'[i]
                   s == k.handlers
               IN  /\ s.arr \in 1..Len(arrays') /\ s.len <= Len(arrays'[s.arr])
                   /\ s.arr # 1 => s.len = Len(arrays'[s.arr])
                   /\ s.arr = 1 => /\ s.len >= 1
                                   /\ [h |-> 1, kind |-> "group", lo |-> k.start, hi |-> k.end]
                                         \in scope'
    <3>1. CASE i = n
      <4>1. groupRanges'[i] = g
        BY <1>9, <3>1
      <4>2. l + 1 <= Len(arrays'[m]) /\ l + 1 = Len(arrays'[m])
        BY ONLY <1>1, <1>4, <1>6
      <4> QED BY ONLY <1>6, <1>8, <1>11, <4>1, <4>2
    <3>2. CASE i # n
      <4> DEFINE s == groupRanges[i].handlers
      <4>1. /\ s.arr \in 1..Len(arrays) /\ s.len <= Len(arrays[s.arr])
            /\ s.arr # 1 => s.len = Len(arrays[s.arr])
            /\ s.arr = 1 => /\ s.len >= 1
                            /\ [h |-> 1, kind |-> "group", lo |-> groupRanges[i].start,
                                hi |-> groupRanges[i].end] \in scope'
        BY <1>0, <1>9, Zenon DEF SliceInv
      <4>2. groupRanges'[i] = groupRanges[i]
        BY <1>9, <3>2
      <4> QED BY ONLY <1>6, <4>1, <4>2, ZenonT(30)
    <3> QED BY <3>1, <3>2, Zenon
  <2>2. ASSUME NEW i \in DOMAIN groupRanges', NEW j \in DOMAIN groupRanges', i < j
        PROVE  LET x == groupRanges'[i]
                   k == groupRanges'[j]
               IN  /\ x.handlers.arr = k.handlers.arr => k.handlers.arr = 1
                   /\ x.start = k.start /\ x.end = k.end /\ k.handlers.arr = 1
                         => k.handlers.len = 1
    <3>0. i \in DOMAIN groupRanges /\ j \in DOMAIN groupRanges /\ i # j
      BY <1>1, <1>9, <2>2
    <3>1. CASE j = n
      <4>1. groupRanges'[i] = groupRanges[i] /\ groupRanges'[j] = g
        BY <1>9, <3>0, <3>1
      <4>2. groupRanges[i].handlers.arr # m
        BY ONLY <1>6, <1>10, <3>0
      <4> QED BY ONLY <1>8, <1>11, <4>1, <4>2
    <3>2. CASE j # n
      <4>1. LET x == groupRanges[i]
                k == groupRanges[j]
            IN  /\ x.handlers.arr = k.handlers.arr => k.handlers.arr = 1
                /\ x.start = k.start /\ x.end = k.end /\ k.handlers.arr = 1
                      => k.handlers.len = 1
        BY <1>0, <2>2, <3>0 DEF SliceInv
      <4>2. groupRanges'[j] = groupRanges[j]
        BY <1>9, <3>0, <3>2
      <4>3. /\ groupRanges'[i].start = groupRanges[i].start
            /\ groupRanges'[i].end = groupRanges[i].end
            /\ groupRanges'[i].handlers.arr \in {m, groupRanges[i].handlers.arr}
        BY <1>8, <1>9, <3>0, ZenonT(30)
      <4>4. groupRanges[j].handlers.arr # m
        BY ONLY <1>6, <1>10, <3>0
      <4> QED BY ONLY <4>1, <4>2, <4>3, <4>4
    <3> QED BY <3>1, <3>2
  <2>3. Len(arrays'[1]) = 1 + Spare /\ arrays'[1][1] = 1
    BY <1>0, <1>6, Zenon DEF SliceInv
  <2> QED BY <2>1, <2>2, <2>3, Zenon DEF SliceInv
<1>13. Shown(n, l + 1)' = c
  BY <1>4, <1>6, <1>8, <1>9, Zenon DEF Shown
<1>14. ASSUME NEW i \in DOMAIN groupRanges, NEW k \in 1..groupRanges[i].handlers.len
       PROVE  Shown(i, k)' = Shown(i, k)
  <2>1. CASE i = n
    <3>1. groupRanges'[i].handlers.arr = m /\ groupRanges[i].handlers.arr = a /\ k \in 1..l
      BY <1>8, <1>9, <2>1, Zenon
    <3>2. arrays'[m][k] = arrays[a][k]
      BY ONLY <1>4, <1>6, <3>1
    <3> QED BY <3>1, <3>2, Zenon DEF Shown
  <2>2. CASE i # n
    BY <1>6, <1>9, <1>10, <2>2, Zenon DEF Shown
  <2> QED BY <2>1, <2>2
<1>15. \A i \in DOMAIN groupRanges :
          /\ groupRanges'[i].start = groupRanges[i].start
          /\ groupRanges'[i].end = groupRanges[i].end
          /\ groupRanges'[i].handlers.len = IF i = n THEN l + 1 ELSE groupRanges[i].handlers.len
  BY <1>8, <1>9
<1>16. GroupInv'
  <2>1. DOMAIN groupRanges' = DOMAIN groupRanges
    BY <1>9
  <2>2. Unshared' => \A i \in DOMAIN groupRanges : \A k \in 1..groupRanges[i].handlers.len :
                         Shown(i, k)' = Shown(i, k)
    BY <1>14
  <2>3. GroupGrows(n, l, c)
    BY ONLY <1>13, <1>15, <2>1, <2>2, Zenon DEF GroupGrows
  <2> QED BY ONLY <2>3, OneHandlerMore, RouterInv, lo \in MsgID, hi \in MsgID,
                  c \in Nat, e = Entry(c, "group", lo, hi), scope' = scope \cup {e},
                  n \in DOMAIN groupRanges, groupRanges[n].start = lo,
                  groupRanges[n].end = hi,
                  l = groupRanges[n].handlers.len, ZenonT(30)
<1>17. Len(arrays') >= 1
  BY ONLY <1>6
<1> QED BY <1>6, <1>9, <1>12, <1>16, <1>17, Zenon

\* groupRouterSlices.Use keeps the invariant.
LEMMA GroupUseStep ==
    ASSUME RouterInv, NEW lo \in MsgID, NEW hi \in MsgID, GroupUse(lo, hi)
    PROVE  RouterInv'
<1> DEFINE n == FirstGroup(lo, hi)
           c == count + 1
           e == Entry(c, "group", lo, hi)
           l == groupRanges[n].handlers.len
           a == groupRanges[n].handlers.arr
<1>0. RouterTypeOK
  BY DEF RouterInv
<1>1. Register("group", lo, hi) /\ "group" \in Kind
  BY ZenonT(30) DEF GroupUse, Kind
<1>2. /\ e \in Entries /\ e.h = c /\ e.kind = "group"
      /\ scope' = scope \cup {e} /\ scope' \subseteq Entries
      /\ count' = c /\ count \in Nat
      /\ \A s \in scope : s.h <= count' /\ s.h # e.h
      /\ \A s, t \in scope' : s.h = t.h => s.h = 1 \/ s = t
  <2>1. LET f == Entry(count + 1, "group", lo, hi)
        IN  /\ f \in Entries /\ f.h = count + 1 /\ f.kind = "group"
            /\ scope' = scope \cup {f} /\ scope' \subseteq Entries
            /\ count' = count + 1 /\ count \in Nat
            /\ \A s \in scope : s.h <= count' /\ s.h # f.h
            /\ \A s, t \in scope' : s.h = t.h => s.h = 1 \/ s = t
    BY ONLY RouterInv, <1>1, lo \in MsgID, hi \in MsgID, RegisterStep, SMT
  <2> QED BY ONLY <2>1, Zenon
<1>3. /\ n \in DOMAIN groupRanges /\ groupRanges[n].start = lo /\ groupRanges[n].end = hi
      /\ \A j \in WithRange(lo, hi) : n <= j
  BY <1>0, FirstOfRange, Zenon DEF GroupUse
<1>4. UNCHANGED <<apis, globalHandlers, reqVars>>
  BY Zenon DEF GroupUse
<1>5. c \in Nat /\ e.h <= count' /\ count' \in Nat /\ count' >= 1
  BY <1>2
<1>6. /\ arrays' \in Seq(Seq(Nat)) /\ Len(arrays') >= 1 /\ groupRanges' \in Seq(GroupRange)
      /\ SliceInv' /\ GroupInv'
  <2>1. CASE /\ l < Len(arrays[a])
             /\ arrays' = [arrays EXCEPT ![a][l + 1] = c]
             /\ groupRanges' = [groupRanges EXCEPT ![n].handlers.len = @ + 1]
    <3> HIDE DEF n, c, e, l, a
    <3> QED BY <1>2, <1>3, <1>5, <2>1, UseInPlace, ZenonT(30) DEF e, l, a
  <2>2. CASE /\ l = Len(arrays[a])
             /\ arrays' = Append(arrays, Append(SubSeq(arrays[a], 1, l), c))
             /\ groupRanges' = [groupRanges EXCEPT
                     ![n].handlers = [arr |-> Len(arrays) + 1, len |-> l + 1]]
    <3> HIDE DEF n, c, e, l, a
    <3> QED BY <1>2, <1>3, <1>5, <2>2, UseCopies, Zenon DEF e, l, a
  <2> QED BY <2>1, <2>2, ZenonT(30) DEF GroupUse, Elems
<1> HIDE DEF n, c, e, l, a
<1>7. RouterTypeOK'
  BY <1>0, <1>2, <1>4, <1>5, <1>6 DEF RouterTypeOK, GroupRange, Entries, reqVars
<1>8. ScopeInv'
  BY <1>2, <1>4, <1>5, RoutesKept
<1>9. RanInv' /\ ChainInv'
  BY <1>2, <1>4, RequestKept
<1> QED BY <1>6, <1>7, <1>8, <1>9 DEF RouterInv

-----------------------------------------------------------------------------
(* The chain of a request                                                  *)

\* Induction up to n, on a set: what holds of 0 and goes on from each number to
\* the next holds up to n.
LEMMA UpTo ==
    ASSUME NEW n \in Nat, NEW S, 0 \in S,
           \A i \in 0..n : i < n /\ i \in S => i + 1 \in S
    PROVE  \A i \in 0..n : i \in S
<1> DEFINE T == (0..n) \ S
<1>1. ASSUME T # {} PROVE FALSE
  <2>1. T \subseteq Nat
    OBVIOUS
  <2>2. PICK x \in T : \A y \in T : ~ (<<y, x>> \in OpToRel(<, Nat))
    BY <1>1, <2>1, WFMin, NatLessThanWellFounded, Zenon
  <2>3. \A y \in T : ~(y < x)
    BY <2>1, <2>2, Zenon DEF OpToRel
  <2>4. x # 0 /\ x \in 0..n /\ x - 1 \in 0..n /\ x - 1 < n
    OBVIOUS
  <2>5. x - 1 \in S
    BY <2>3, <2>4
  <2> QED BY <2>4, <2>5
<1> QED BY <1>1

\* The turn of Execute's loop for group i, the loop up to group n, and what the
\* groups up to n show to a request with the id.
Turn(id, i, s) ==
    IF InRange(groupRanges[i], id) THEN s \o Elems(groupRanges[i].handlers) ELSE s
Loop(id, n, f) == f = [i \in 0..n |-> IF i = 0 THEN <<>> ELSE Turn(id, i, f[i - 1])]
ShownTo(id, n) ==
    {h \in Nat : \E i \in 1..n : /\ InRange(groupRanges[i], id)
                               /\ \E k \in 1..groupRanges[i].handlers.len : h = Shown(i, k)}
Members(s) == {s[p] : p \in DOMAIN s}

\* The loop takes one more turn.
LEMMA LoopNext ==
    ASSUME NEW id, NEW n \in Nat, NEW f, Loop(id, n, f)
    PROVE  \E g : Loop(id, n + 1, g)
<1> DEFINE last == Turn(id, n + 1, f[n])
           g == [i \in 0..(n + 1) |-> IF i = n + 1 THEN last ELSE f[i]]
           Body(h, i) == IF i = 0 THEN <<>> ELSE Turn(id, i, h[i - 1])
<1>1. \A i \in 0..n : f[i] = Body(f, i)
  <2>1. f = [i \in 0..n |-> Body(f, i)]
    BY DEF Loop
  <2> HIDE DEF Body
  <2> QED BY ONLY <2>1
<1> HIDE DEF last
<1>2. ASSUME NEW i \in 0..(n + 1) PROVE g[i] = Body(g, i)
  <2>1. CASE i = n + 1
    <3>1. i # 0 /\ i - 1 = n /\ n \in 0..(n + 1) /\ n # n + 1
      BY <2>1
    <3>2. g[i] = last /\ g[n] = f[n]
      BY <2>1, <3>1
    <3> HIDE DEF g
    <3> QED BY <2>1, <3>1, <3>2 DEF last
  <2>2. CASE i # n + 1 /\ i # 0
    <3>1. i \in 0..n /\ i - 1 \in 0..(n + 1) /\ i - 1 # n + 1
      BY <2>2
    <3>2. g[i] = f[i] /\ g[i - 1] = f[i - 1]
      BY <2>2, <3>1
    <3> HIDE DEF g
    <3> QED BY <1>1, <2>2, <3>1, <3>2
  <2>3. CASE i = 0
    <3>1. 0 \in 0..n /\ 0 # n + 1
      OBVIOUS
    <3> QED BY <1>1, <2>3, <3>1
  <2> QED BY <2>1, <2>2, <2>3
<1>3. g = [i \in 0..(n + 1) |-> g[i]]
  OBVIOUS
<1>4. Loop(id, n + 1, g)
  <2> HIDE DEF g
  <2>1. g = [i \in 0..(n + 1) |-> Body(g, i)]
    <3> HIDE DEF Body
    <3> QED BY <1>2, <1>3
  <2> QED BY <2>1 DEF Loop
<1> QED BY <1>4

\* GroupMws is what the loop has after its last turn.
LEMMA MwsLoop ==
    ASSUME NEW id, Len(groupRanges) \in Nat
    PROVE  \E f : Loop(id, Len(groupRanges), f) /\ GroupMws(id) = f[Len(groupRanges)]
<1> DEFINE l == Len(groupRanges)
           Done(n) == \E f : Loop(id, n, f)
           S == {n \in 0..l : Done(n)}
           mws == CHOOSE f : Loop(id, l, f)
<1>1. Done(0)
  <2>1. Loop(id, 0, [i \in 0..0 |-> <<>>])
    <3>1. \A i \in 0..0 : i = 0
      OBVIOUS
    <3> QED BY <3>1 DEF Loop
  <2> QED BY <2>1
<1>2. ASSUME NEW n \in 0..l, n < l, Done(n) PROVE Done(n + 1)
  <2>1. n \in Nat
    OBVIOUS
  <2> QED BY <1>2, <2>1, LoopNext
<1> HIDE DEF Done, l
<1>3. l \in Nat
  BY DEF l
<1>4. 0 \in S /\ \A n \in 0..l : n < l /\ n \in S => n + 1 \in S
  BY <1>1, <1>2, <1>3
<1>5. \A n \in 0..l : n \in S
  BY <1>3, <1>4, UpTo, Zenon
<1>6. Done(l)
  BY <1>3, <1>5
<1>7. Loop(id, l, mws)
  BY <1>6 DEF Done
<1>8. GroupMws(id) = mws[l]
  BY DEF GroupMws, Loop, Turn, l
<1> QED BY <1>7, <1>8, Zenon DEF l

\* What a slice appended to another holds.
LEMMA JoinMembers ==
    ASSUME NEW s \in Seq(Nat), NEW t \in Seq(Nat)
    PROVE  s \o t \in Seq(Nat) /\ Members(s \o t) = Members(s) \cup Members(t)
<1>1. /\ s \o t \in Seq(Nat) /\ Len(s) \in Nat /\ Len(t) \in Nat
      /\ DOMAIN s = 1..Len(s) /\ DOMAIN t = 1..Len(t) /\ DOMAIN (s \o t) = 1..(Len(s) + Len(t))
      /\ \A p \in 1..(Len(s) + Len(t)) :
             (s \o t)[p] = IF p <= Len(s) THEN s[p] ELSE t[p - Len(s)]
  OBVIOUS
<1>2. ASSUME NEW p \in DOMAIN (s \o t) PROVE (s \o t)[p] \in Members(s) \cup Members(t)
  <2>1. CASE p <= Len(s)
    BY <1>1, <2>1 DEF Members
  <2>2. CASE ~(p <= Len(s))
    <3>1. p - Len(s) \in DOMAIN t
      BY <1>1, <2>2
    <3> QED BY <1>1, <2>2, <3>1 DEF Members
  <2> QED BY <2>1, <2>2
<1>3. ASSUME NEW p \in DOMAIN s PROVE s[p] \in Members(s \o t)
  <2>1. p \in DOMAIN (s \o t) /\ (s \o t)[p] = s[p]
    BY <1>1
  <2> QED BY <2>1, Zenon DEF Members
<1>4. ASSUME NEW p \in DOMAIN t PROVE t[p] \in Members(s \o t)
  <2>1. Len(s) + p \in DOMAIN (s \o t) /\ ~(Len(s) + p <= Len(s)) /\ (Len(s) + p) - Len(s) = p
    BY <1>1
  <2>2. (s \o t)[Len(s) + p] = t[p]
    BY <1>1, <2>1
  <2> QED BY <2>1, <2>2, Zenon DEF Members
<1> QED BY <1>1, <1>2, <1>3, <1>4, Zenon DEF Members

\* What the slice of a group holds.
LEMMA ElemsMembers ==
    ASSUME RouterTypeOK, SliceInv, NEW i \in DOMAIN groupRanges
    PROVE  LET s == groupRanges[i].handlers
           IN  /\ Elems(s) \in Seq(Nat)
               /\ Members(Elems(s)) = {h \in Nat : \E k \in 1..s.len : h = Shown(i, k)}
<1> DEFINE s == groupRanges[i].handlers
           a == arrays[s.arr]
           l == s.len
           t == SubSeq(a, 1, l)
<1>1. l \in Nat
  BY GroupType
<1>2. s.arr \in 1..Len(arrays) /\ l <= Len(a)
  BY Zenon DEF SliceInv
<1>3. a \in Seq(Nat)
  <2>1. arrays \in Seq(Seq(Nat))
    BY DEF RouterTypeOK
  <2> HIDE DEF s
  <2> QED BY ONLY <1>2, <2>1
<1>4. Elems(s) = t /\ \A k \in 1..l : Shown(i, k) = a[k]
  BY DEF Elems, Shown
<1> HIDE DEF a, l, s
<1>5. /\ t \in Seq(Nat) /\ DOMAIN t = 1..l
      /\ \A k \in 1..l : t[k] = a[k] /\ a[k] \in Nat
  BY ONLY <1>1, <1>2, <1>3
<1> HIDE DEF t
<1>6. Members(t) = {h \in Nat : \E k \in 1..l : h = Shown(i, k)}
  BY <1>4, <1>5, Zenon DEF Members
<1> QED BY <1>4, <1>5, <1>6, Zenon DEF l, s

\* The middleware of a request is what the groups with its id show.
LEMMA MwsMembers ==
    ASSUME RouterTypeOK, SliceInv, NEW id
    PROVE  /\ GroupMws(id) \in Seq(Nat)
           /\ Members(GroupMws(id)) = ShownTo(id, Len(groupRanges))
<1> DEFINE l == Len(groupRanges)
<1>1. l \in Nat /\ DOMAIN groupRanges = 1..l
  BY DEF RouterTypeOK
<1>2. PICK f : Loop(id, l, f) /\ GroupMws(id) = f[l]
  BY <1>1, MwsLoop
<1> HIDE DEF l
<1> DEFINE Good(n) == f[n] \in Seq(Nat) /\ Members(f[n]) = ShownTo(id, n)
           S == {n \in 0..l : Good(n)}
<1>3. f[0] = <<>> /\ \A i \in 1..l : f[i] = Turn(id, i, f[i - 1])
  <2> DEFINE Body(i) == IF i = 0 THEN <<>> ELSE Turn(id, i, f[i - 1])
  <2>1. f = [i \in 0..l |-> Body(i)]
    BY <1>2, Zenon DEF Loop
  <2>2. \A i \in 0..l : f[i] = Body(i)
    <3> HIDE DEF Body
    <3> QED BY ONLY <2>1
  <2>3. 0 \in 0..l /\ \A i \in 1..l : i \in 0..l /\ i # 0
    BY <1>1
  <2> QED BY <2>2, <2>3
<1>4. Good(0)
  <2>1. <<>> \in Seq(Nat) /\ Members(<<>>) = {}
    BY DEF Members
  <2>2. ShownTo(id, 0) = {}
    BY DEF ShownTo
  <2> QED BY <1>3, <2>1, <2>2, Zenon
<1>5. ASSUME NEW n \in 0..l, n < l, Good(n) PROVE Good(n + 1)
  <2> DEFINE m == n + 1
             e == Elems(groupRanges[m].handlers)
             new == {h \in Nat : \E k \in 1..groupRanges[m].handlers.len : h = Shown(m, k)}
  <2>1. m \in 1..l /\ m - 1 = n /\ \A i \in 1..m : i \in 1..n \/ i = m
    BY <1>1, <1>5
  <2>2. \A i \in 1..n : i \in 1..m
    BY <1>1
  <2>3. e \in Seq(Nat) /\ Members(e) = new
    BY <1>1, <2>1, ElemsMembers, Zenon
  <2>4. f[m] = Turn(id, m, f[n])
    BY <1>3, <2>1
  <2> HIDE DEF m
  <2>5. m \in 1..m
    BY <2>1, <1>1
  <2>6. CASE InRange(groupRanges[m], id)
    <3>1. f[m] = f[n] \o e
      BY <2>4, <2>6, Zenon DEF Turn
    <3>2. ShownTo(id, m) = ShownTo(id, n) \cup new
      BY <2>1, <2>2, <2>5, <2>6, Zenon DEF ShownTo
    <3> HIDE DEF e, new
    <3>3. f[n] \o e \in Seq(Nat) /\ Members(f[n] \o e) = Members(f[n]) \cup Members(e)
      BY <1>5, <2>3, JoinMembers
    <3> QED BY <1>5, <2>3, <3>1, <3>2, <3>3, Zenon DEF m
  <2>7. CASE ~InRange(groupRanges[m], id)
    <3>1. f[m] = f[n]
      BY <2>4, <2>7 DEF Turn
    <3>2. ShownTo(id, m) = ShownTo(id, n)
      BY <2>1, <2>2, <2>7, Zenon DEF ShownTo
    <3> QED BY <1>5, <3>1, <3>2, Zenon DEF m
  <2> QED BY <2>6, <2>7
<1> HIDE DEF Good
<1>6. 0 \in S /\ \A n \in 0..l : n < l /\ n \in S => n + 1 \in S
  BY <1>1, <1>4, <1>5
<1>7. \A n \in 0..l : n \in S
  BY <1>1, <1>6, UpTo, Zenon
<1>8. Good(l)
  BY <1>1, <1>7
<1> QED BY <1>2, <1>8, Zenon DEF Good, l

\* What only the appended slice of one handler holds is in the last place.
LEMMA LastPlace ==
    ASSUME NEW s \in Seq(Nat), NEW t \in Seq(Nat), Len(t) <= 1,
           NEW p \in DOMAIN (s \o t), (s \o t)[p] \notin Members(s)
    PROVE  p = Len(s \o t)
<1>1. /\ Len(s) \in Nat /\ Len(t) \in Nat /\ Len(s \o t) = Len(s) + Len(t)
      /\ p \in 1..(Len(s) + Len(t)) /\ DOMAIN s = 1..Len(s)
  OBVIOUS
<1>2. ASSUME p <= Len(s) PROVE FALSE
  <2>1. p \in DOMAIN s /\ (s \o t)[p] = s[p]
    BY <1>1, <1>2
  <2> QED BY <2>1, Zenon DEF Members
<1> QED BY <1>1, <1>2

\* A request leaves the registrations alone.
LEMMA RegistrationsKept ==
    ASSUME RouterInv, UNCHANGED regVars
    PROVE  SliceInv' /\ ScopeInv' /\ GroupInv'
<1>1. UNCHANGED <<apis, groupRanges, globalHandlers, arrays, count, scope>>
  BY DEF regVars
<1>2. Unshared' = Unshared
  BY <1>1 DEF Unshared
<1>3. SliceInv'
  BY <1>1, ZenonT(30) DEF RouterInv, SliceInv
<1>4. ScopeInv'
  BY <1>1, ZenonT(30) DEF RouterInv, ScopeInv
<1>5. GroupInv'
  BY <1>1, <1>2, Zenon DEF RouterInv, GroupInv
<1> QED BY <1>3, <1>4, <1>5

\* The chain that Execute builds: its middleware and its route.
LEMMA ChainMembers ==
    ASSUME RouterInv, NEW id \in MsgID
    PROVE  LET front == globalHandlers \o GroupMws(id)
           IN  /\ front \in Seq(Nat) /\ apis[id] \in Seq(Nat) /\ Len(apis[id]) <= 1
               /\ Chain(id) = front \o apis[id] /\ Chain(id) \in Seq(Nat)
               /\ Members(front) = Members(globalHandlers) \cup ShownTo(id, Len(groupRanges))
               /\ Members(Chain(id)) = Members(front) \cup Members(apis[id])
<1> DEFINE g == globalHandlers
           m == GroupMws(id)
           a == apis[id]
<1>1. RouterTypeOK /\ SliceInv
  BY DEF RouterInv
<1>2. g \in Seq(Nat) /\ a \in Seq(Nat)
  BY <1>1 DEF RouterTypeOK
<1>3. m \in Seq(Nat) /\ Members(m) = ShownTo(id, Len(groupRanges))
  BY <1>1, MwsMembers
<1>4. Chain(id) = g \o m \o a
  BY DEF Chain
<1>5. Len(a) <= 1
  <2>1. a # <<>> => Len(a) = 1
    BY Zenon DEF RouterInv, ScopeInv
  <2>2. a = <<>> => Len(a) = 0
    OBVIOUS
  <2> QED BY <2>1, <2>2
<1> HIDE DEF g, m, a
<1>6. g \o m \in Seq(Nat) /\ Members(g \o m) = Members(g) \cup Members(m)
  BY <1>2, <1>3, JoinMembers
<1>7. /\ g \o m \o a \in Seq(Nat)
      /\ Members(g \o m \o a) = Members(g \o m) \cup Members(a)
  BY <1>2, <1>6, JoinMembers, ZenonT(30)
<1> QED BY <1>2, <1>3, <1>4, <1>5, <1>6, <1>7, Zenon DEF g, m, a

\* What a group shows to a request is registered for a range with its id.
LEMMA ShownRegistered ==
    ASSUME RouterInv, Unshared, NEW id \in MsgID, NEW h \in ShownTo(id, Len(groupRanges))
    PROVE  \E s \in scope : s.h = h /\ s.kind = "group" /\ id \in s.lo..s.hi
<1>1. RouterTypeOK
  BY DEF RouterInv
<1>2. PICK i \in 1..Len(groupRanges) :
         InRange(groupRanges[i], id) /\ \E k \in 1..groupRanges[i].handlers.len : h = Shown(i, k)
  BY DEF ShownTo
<1>3. i \in DOMAIN groupRanges
  BY <1>1 DEF RouterTypeOK
<1>4. groupRanges[i] \in GroupRange
  BY <1>1, <1>3, GroupType
<1> DEFINE s == [h |-> h, kind |-> "group", lo |-> groupRanges[i].start, hi |-> groupRanges[i].end]
<1>5. s \in scope
  BY <1>2, <1>3, ZenonT(30) DEF RouterInv, GroupInv, Shown
<1>6. id \in s.lo..s.hi
  BY <1>2, <1>4 DEF InRange, GroupRange, MsgID
<1>7. s.h = h /\ s.kind = "group"
  OBVIOUS
<1> HIDE DEF s
<1> QED BY <1>5, <1>6, <1>7

\* Every registration of middleware for the id is in the chain, in front of the
\* route.
LEMMA MiddlewareInFront ==
    ASSUME RouterInv, Unshared, NEW id \in MsgID, NEW s \in scope, s.kind # "route",
           id \in s.lo..s.hi
    PROVE  s.h \in Members(globalHandlers) \cup ShownTo(id, Len(groupRanges))
<1>1. RouterTypeOK /\ s \in Entries
  BY DEF RouterInv, RouterTypeOK, Entries
<1>2. CASE s.kind = "global"
  <2>1. \E p \in DOMAIN globalHandlers : globalHandlers[p] = s.h
    BY <1>2, Zenon DEF RouterInv, ScopeInv
  <2> QED BY <2>1, Zenon DEF Members
<1>3. CASE s.kind = "group"
  <2>1. PICK i \in DOMAIN groupRanges :
           /\ groupRanges[i].start = s.lo /\ groupRanges[i].end = s.hi
           /\ \E k \in 1..groupRanges[i].handlers.len : Shown(i, k) = s.h
    BY <1>3, Zenon DEF RouterInv, GroupInv, Shown
  <2>2. i \in 1..Len(groupRanges)
    BY <1>1 DEF RouterTypeOK
  <2>3. InRange(groupRanges[i], id)
    BY <1>1, <2>1 DEF InRange, Entries, MsgID
  <2>4. s.h \in Nat
    BY <1>1 DEF Entries
  <2> QED BY <2>1, <2>2, <2>3, <2>4, Zenon DEF ShownTo
<1> QED BY <1>1, <1>2, <1>3 DEF Entries, Kind

\* A route is registered under a number that no middleware has.
LEMMA RouteApart ==
    ASSUME RouterInv, Unshared, NEW id \in MsgID, NEW s \in scope, s.kind = "route"
    PROVE  s.h \notin Members(globalHandlers) \cup ShownTo(id, Len(groupRanges))
<1>1. s.h # 1 /\ \A t \in scope : t.h = s.h => t = s
  BY Zenon DEF RouterInv, ScopeInv
<1>2. ASSUME s.h \in Members(globalHandlers) PROVE FALSE
  <2>1. PICK p \in DOMAIN globalHandlers : globalHandlers[p] = s.h
    BY <1>2 DEF Members
  <2> DEFINE t == [h |-> globalHandlers[p], kind |-> "global", lo |-> 1, hi |-> MaxMsgID]
  <2>2. t \in scope
    BY ZenonT(30) DEF RouterInv, ScopeInv
  <2>3. t.h = s.h /\ t.kind # s.kind
    BY <2>1, Zenon
  <2> HIDE DEF t
  <2> QED BY <1>1, <2>2, <2>3
<1>3. ASSUME s.h \in ShownTo(id, Len(groupRanges)) PROVE FALSE
  <2>1. PICK t \in scope : t.h = s.h /\ t.kind = "group"
    BY <1>3, ShownRegistered
  <2> QED BY <1>1, <2>1
<1> QED BY <1>2, <1>3

\* Every handler of the chain is registered for the id.
LEMMA ChainRegistered ==
    ASSUME RouterInv, Unshared, NEW id \in MsgID, NEW h \in Members(Chain(id))
    PROVE  \E s \in scope : s.h = h /\ id \in s.lo..s.hi
<1>0. h \in Members(globalHandlers) \cup ShownTo(id, Len(groupRanges)) \cup Members(apis[id])
  BY ChainMembers, Zenon
<1>1. CASE h \in Members(globalHandlers)
  <2>1. PICK p \in DOMAIN globalHandlers : globalHandlers[p] = h
    BY <1>1 DEF Members
  <2> DEFINE t == [h |-> globalHandlers[p], kind |-> "global", lo |-> 1, hi |-> MaxMsgID]
  <2>2. t \in scope
    BY Zenon DEF RouterInv, ScopeInv
  <2>3. t.h = h /\ id \in t.lo..t.hi
    BY <2>1, RouterAssumption DEF MsgID
  <2> HIDE DEF t
  <2> QED BY <2>2, <2>3
<1>2. CASE h \in ShownTo(id, Len(groupRanges))
  BY <1>2, ShownRegistered
<1>3. CASE h \in Members(apis[id])
  <2> DEFINE a == apis[id]
             t == [h |-> a[1], kind |-> "route", lo |-> id, hi |-> id]
  <2>0. a \in Seq(Nat) /\ id \in Nat
    BY DEF RouterInv, RouterTypeOK, MsgID
  <2>1. PICK p \in DOMAIN a : a[p] = h
    BY <1>3 DEF Members
  <2>2. a # <<>>
    BY <2>0, <2>1
  <2>3. Len(a) = 1 /\ t \in scope
    BY <2>2, ZenonT(30) DEF RouterInv, ScopeInv
  <2>4. p = 1
    BY <2>0, <2>1, <2>3
  <2>5. t.h = h /\ id \in t.lo..t.hi
    BY <2>0, <2>1, <2>4
  <2> HIDE DEF t
  <2> QED BY <2>3, <2>5
<1> QED BY <1>0, <1>1, <1>2, <1>3

\* Execute binds the chain and keeps the invariant.
LEMMA ExecuteStep ==
    ASSUME RouterInv, NEW id \in MsgID, Execute(id)
    PROVE  RouterInv'
<1> DEFINE front == globalHandlers \o GroupMws(id)
           c == Chain(id)
<1>0. RouterTypeOK /\ scope \subseteq Entries
  BY DEF RouterInv, RouterTypeOK, Entries
<1>1. /\ chain' = c /\ c # <<>> /\ index' = 1 /\ ran' = <<1>>
      /\ due' = {s \in scope : id \in s.lo..s.hi} /\ UNCHANGED regVars
  BY DEF Execute
<1>2. UNCHANGED <<apis, groupRanges, globalHandlers, arrays, count, scope>>
  BY <1>1 DEF regVars
<1>3. /\ front \in Seq(Nat) /\ apis[id] \in Seq(Nat) /\ Len(apis[id]) <= 1
      /\ c = front \o apis[id] /\ c \in Seq(Nat)
      /\ Members(front) = Members(globalHandlers) \cup ShownTo(id, Len(groupRanges))
      /\ Members(c) = Members(front) \cup Members(apis[id])
  BY ChainMembers, Zenon
<1> HIDE DEF front, c
<1>4. RouterTypeOK'
  <2>1. due' \subseteq Entries /\ <<1>> \in Seq(Nat) /\ 1 \in Nat
    BY <1>0, <1>1
  <2> QED BY <1>0, <1>1, <1>2, <1>3, <2>1 DEF RouterTypeOK, Entries
<1>5. RanInv'
  <2>1. 1 <= Len(c)
    BY ONLY <1>1, <1>3
  <2>2. Len(<<1>>) = 1 /\ \A i \in DOMAIN <<1>> : <<1>>[i] = i
    OBVIOUS
  <2> QED BY <1>1, <2>1, <2>2 DEF RanInv
<1>6. SliceInv' /\ ScopeInv' /\ GroupInv'
  BY <1>1, RegistrationsKept
<1>7. ASSUME Unshared
      PROVE  /\ \A p \in DOMAIN c : \E s \in due' : s.h = c[p]
             /\ \A s \in due' : s.kind # "route" => \E p \in DOMAIN c : c[p] = s.h
             /\ \A s \in due' : s.kind = "route" =>
                    \A p \in DOMAIN c : c[p] = s.h => p = Len(c)
  <2>1. ASSUME NEW p \in DOMAIN c PROVE \E s \in due' : s.h = c[p]
    <3>1. c[p] \in Members(c)
      BY DEF Members
    <3>2. \E s \in scope : s.h = c[p] /\ id \in s.lo..s.hi
      BY <1>7, <3>1, ChainRegistered DEF c
    <3> QED BY <1>1, <3>2
  <2>2. ASSUME NEW s \in due', s.kind # "route" PROVE \E p \in DOMAIN c : c[p] = s.h
    <3>1. s \in scope /\ id \in s.lo..s.hi
      BY <1>1
    <3>2. s.h \in Members(c)
      BY <1>3, <1>7, <2>2, <3>1, MiddlewareInFront
    <3> QED BY <3>2 DEF Members
  <2>3. ASSUME NEW s \in due', s.kind = "route", NEW p \in DOMAIN c, c[p] = s.h
        PROVE  p = Len(c)
    <3>1. s \in scope
      BY <1>1
    <3>2. c[p] \notin Members(front)
      BY <1>3, <1>7, <2>3, <3>1, RouteApart
    <3> QED BY <1>3, <3>2, LastPlace
  <2> QED BY <2>1, <2>2, <2>3
<1>8. ChainInv'
  <2>1. Unshared' => Unshared
    BY <1>2 DEF Unshared
  <2> QED BY <1>1, <1>7, <2>1 DEF ChainInv
<1> QED BY <1>4, <1>5, <1>6, <1>8 DEF RouterInv

\* RouterSlicesNext runs the position after the last one.
LEMMA NextStep ==
    ASSUME RouterInv, RouterSlicesNext
    PROVE  RouterInv'
<1>1. /\ index < Len(chain) /\ index' = index + 1 /\ ran' = Append(ran, index + 1)
      /\ UNCHANGED regVars /\ UNCHANGED <<chain, due>>
  BY DEF RouterSlicesNext, NextIndex
<1>2. UNCHANGED <<apis, groupRanges, globalHandlers, arrays, count, scope>>
  BY <1>1 DEF regVars
<1>3. /\ RouterTypeOK /\ ran \in Seq(Nat) /\ chain \in Seq(Nat) /\ index \in Nat
      /\ Len(ran) = index /\ \A i \in DOMAIN ran : ran[i] = i
  BY DEF RouterInv, RouterTypeOK, RanInv
<1>4. /\ Append(ran, index + 1) \in Seq(Nat) /\ Len(Append(ran, index + 1)) = index + 1
      /\ \A i \in DOMAIN Append(ran, index + 1) : Append(ran, index + 1)[i] = i
      /\ index + 1 \in Nat
  BY ONLY <1>3
<1>5. index + 1 <= Len(chain)
  BY ONLY <1>1, <1>3
<1>6. RouterTypeOK'
  BY <1>1, <1>2, <1>3, <1>4 DEF RouterTypeOK
<1>7. RanInv'
  BY <1>1, <1>4, <1>5 DEF RanInv
<1>8. ChainInv'
  BY <1>1, <1>2 DEF RouterInv, ChainInv, Unshared
<1>9. SliceInv' /\ ScopeInv' /\ GroupInv'
  BY <1>1, RegistrationsKept
<1> QED BY <1>6, <1>7, <1>8, <1>9 DEF RouterInv

\* Abort, a return and a panic run no handler.
LEMMA OtherStep ==
    ASSUME RouterInv, UNCHANGED <<regVars, chain, index, ran, due>>
    PROVE  RouterInv'
<1>1. UNCHANGED <<apis, groupRanges, globalHandlers, arrays, count, scope>>
  BY DEF regVars
<1>2. RouterTypeOK'
  BY <1>1 DEF RouterInv, RouterTypeOK
<1>3. RanInv'
  BY DEF RouterInv, RanInv
<1>4. ChainInv'
  BY <1>1 DEF RouterInv, ChainInv, Unshared
<1>5. SliceInv' /\ ScopeInv' /\ GroupInv'
  BY RegistrationsKept
<1> QED BY <1>2, <1>3, <1>4, <1>5 DEF RouterInv

-----------------------------------------------------------------------------
(* The theorems                                                            *)

\* A router without routes, and the slice of the application.
LEMMA InitRouter == RouterInit => RouterInv
<1> SUFFICES ASSUME RouterInit PROVE RouterInv
  OBVIOUS
<1> DEFINE spare == [i \in 1..Spare |-> 0]
           a == <<1>> \o spare
<1>1. /\ apis = [i \in MsgID |-> <<>>] /\ groupRanges = <<>> /\ globalHandlers = <<>>
      /\ arrays = <<a>> /\ count = 1 /\ chain = <<>> /\ index = 0 /\ ran = <<>>
      /\ scope = {} /\ due = {}
  BY DEF RouterInit
<1>2. spare \in Seq(Nat) /\ Len(spare) = Spare
  BY RouterAssumption
<1> HIDE DEF spare
<1>3. a \in Seq(Nat) /\ Len(a) = 1 + Spare /\ a[1] = 1
  BY <1>2
<1> HIDE DEF a
<1>4. <<a>> \in Seq(Seq(Nat)) /\ Len(<<a>>) = 1 /\ <<a>>[1] = a
  BY <1>3
<1>5. \A S : <<>> \in Seq(S)
  OBVIOUS
<1>6. Len(<<>>) = 0 /\ DOMAIN <<>> = {}
  OBVIOUS
<1>7. RouterTypeOK
  BY <1>1, <1>4, <1>5 DEF RouterTypeOK
<1>8. RanInv /\ ChainInv
  BY <1>1, <1>6 DEF RanInv, ChainInv
<1>9. SliceInv
  BY <1>1, <1>3, <1>4, <1>6, ZenonT(30) DEF SliceInv
<1>10. ScopeInv
  BY <1>1, <1>6, ZenonT(30) DEF ScopeInv
<1>11. GroupInv
  BY <1>1, <1>6 DEF GroupInv
<1> QED BY <1>7, <1>8, <1>9, <1>10, <1>11 DEF RouterInv

\* The registrations and the chain bound to the running request agree, whatever
\* the router is used for: the invariant the properties of Router follow from.
THEOREM RouterInvariant == RouterSpec => []RouterInv
<1>1. RouterInit => RouterInv
  BY InitRouter
<1>2. RouterInv /\ [RouterNext]_routerVars => RouterInv'
  <2> SUFFICES ASSUME RouterInv, [RouterNext]_routerVars PROVE RouterInv'
    OBVIOUS
  <2>1. ASSUME NEW id \in MsgID, AddSlices(id) PROVE RouterInv'
    BY <2>1, AddSlicesStep
  <2>2. ASSUME NEW id \in MsgID, Execute(id) PROVE RouterInv'
    BY <2>2, ExecuteStep
  <2>3. CASE Use
    BY <2>3, UseStep
  <2>4. ASSUME NEW lo \in MsgID, NEW hi \in MsgID, Group(lo, hi) PROVE RouterInv'
    BY <2>4, GroupStep
  <2>5. ASSUME NEW lo \in MsgID, NEW hi \in MsgID, GroupUse(lo, hi) PROVE RouterInv'
    BY <2>5, GroupUseStep
  <2>6. ASSUME NEW lo \in MsgID, NEW hi \in MsgID, NEW id \in MsgID,
               GroupAddHandler(lo, hi, id)
        PROVE  RouterInv'
    BY <2>6, AddSlicesStep DEF GroupAddHandler
  <2>7. CASE RouterSlicesNext
    BY <2>7, NextStep
  <2>8. CASE Abort \/ Return \/ Panic
    BY <2>8, OtherStep DEF Abort, Return, Panic
  <2>9. CASE UNCHANGED routerVars
    BY <2>9, OtherStep DEF routerVars, reqVars
  <2> QED BY <2>1, <2>2, <2>3, <2>4, <2>5, <2>6, <2>7, <2>8, <2>9 DEF RouterNext
<1> QED BY <1>1, <1>2, PTL DEF RouterSpec

\* RouterSlicesNext: no position of a chain runs twice for one request.
THEOREM RunsOnce == RouterSpec => []EachOnce
<1>1. RouterInv => EachOnce
  BY DEF RouterInv, RanInv, EachOnce
<1> QED BY <1>1, RouterInvariant, PTL

\* Execute and Group: a request runs no handler that was registered for other
\* ids, as long as no slice with spare capacity is given to two groups.
THEOREM RunsOnlyScoped == RouterSpec => []OnlyScoped
<1>1. ASSUME RouterInv, Unshared PROVE Begun \subseteq {s.h : s \in due}
  <2>1. ASSUME NEW i \in DOMAIN ran PROVE \E s \in due : s.h = chain[ran[i]]
    <3>1. ran[i] \in DOMAIN chain
      BY <1>1 DEF RouterInv, RouterTypeOK, RanInv
    <3> QED BY <1>1, <3>1 DEF RouterInv, ChainInv
  <2> QED BY <2>1 DEF Begun
<1>2. RouterInv => OnlyScoped
  BY <1>1 DEF OnlyScoped
<1> QED BY <1>2, RouterInvariant, PTL

\* Execute and RouterSlicesNext: when a route begins, every middleware that was
\* registered for its id when the request was bound has begun.
THEOREM RoutesAreGuarded == RouterSpec => []RouteGuarded
<1>1. ASSUME RouterInv, Unshared, NEW r \in due, r.kind = "route", r.h \in Begun,
             NEW s \in due, s.kind # "route"
      PROVE  s.h \in Begun
  <2>1. /\ Len(ran) = index /\ index <= Len(chain) /\ \A i \in DOMAIN ran : ran[i] = i
        /\ ran \in Seq(Nat) /\ chain \in Seq(Nat)
    BY <1>1 DEF RouterInv, RouterTypeOK, RanInv
  <2>2. DOMAIN ran = 1..Len(ran) /\ DOMAIN chain = 1..Len(chain) /\ Len(ran) \in Nat /\ Len(chain) \in Nat
    BY ONLY <2>1
  <2>3. PICK i \in DOMAIN ran : chain[ran[i]] = r.h
    BY <1>1 DEF Begun
  <2>4. ran[i] = i /\ i \in DOMAIN chain
    BY ONLY <2>1, <2>2, <2>3
  <2>5. i = Len(chain)
    BY <1>1, <2>3, <2>4 DEF RouterInv, ChainInv
  <2>6. DOMAIN chain = DOMAIN ran
    BY ONLY <2>1, <2>2, <2>3, <2>5
  <2>7. PICK p \in DOMAIN chain : chain[p] = s.h
    BY <1>1 DEF RouterInv, ChainInv
  <2>8. p \in DOMAIN ran /\ chain[ran[p]] = s.h
    BY ONLY <2>1, <2>6, <2>7
  <2> QED BY <2>8 DEF Begun
<1>2. RouterInv => RouteGuarded
  BY <1>1 DEF RouteGuarded
<1> QED BY <1>2, RouterInvariant, PTL
=============================================================================
