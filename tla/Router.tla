------------------------------- MODULE Router -------------------------------
(***************************************************************************)
(* Routing: registration of handlers and middleware (knet/msgHandler.go,   *)
(* knet/routerSlices.go) and the chain a request runs through (Execute,    *)
(* knet/request.go), while the application goes on registering.            *)
(*                                                                         *)
(* Handlers are numbered in the order of their registration.  A group      *)
(* keeps the slice that the caller of Group passed, so slices are modelled *)
(* with their backing arrays: append writes in place while there is room.  *)
(***************************************************************************)
EXTENDS Naturals, Sequences

CONSTANTS
    MaxMsgID,      \* message ids are 1..MaxMsgID
    Spare,         \* unused capacity of the slice the application passes to Group
    MaxHandlers,   \* bound: handlers registered
    MaxGroups,     \* bound: calls of Group
    MaxRequests    \* bound: requests executed

ASSUME RouterAssumption ==
    /\ MaxMsgID \in Nat \ {0} /\ Spare \in Nat /\ MaxHandlers \in Nat \ {0}
    /\ MaxGroups \in Nat /\ MaxRequests \in Nat

MsgID   == 1..MaxMsgID
Handler == 1..MaxHandlers

VARIABLES
    apis,            \* mh.apis: the handlers of each id, empty if none
    groupRanges,     \* mh.groupRanges
    globalHandlers,  \* mh.globalHandlers
    arrays,          \* backing arrays of the group slices; 0 is an unused cell
    count,           \* handlers registered so far
    chain,           \* r.handlers
    index,           \* r.index, the handlers that have begun
    aborted,         \* r.aborted: no, yes
    stack,           \* positions of the handlers that are running, innermost last
    ran,             \* history: positions of the handlers that began
    requests,        \* requests executed so far
    scope,           \* history: every registration, with the ids it is for
    due              \* history: registrations the current request falls under

regVars == <<apis, groupRanges, globalHandlers, arrays, count, scope>>
reqVars == <<chain, index, aborted, stack, ran, requests, due>>
routerVars == <<regVars, reqVars>>

\* The application has one handler in a slice that it may pass to Group.
Mws == [arr |-> 1, len |-> 1]

RouterInit ==
    /\ apis = [i \in MsgID |-> <<>>]
    /\ groupRanges = <<>> /\ globalHandlers = <<>>
    /\ arrays = <<<<1>> \o [i \in 1..Spare |-> 0]>>
    /\ count = 1
    /\ chain = <<>> /\ index = 0 /\ aborted = "no"
    /\ stack = <<>> /\ ran = <<>> /\ requests = 0
    /\ scope = {} /\ due = {}

\* The elements of a slice.
Elems(s) == SubSeq(arrays[s.arr], 1, s.len)

-----------------------------------------------------------------------------
(* Registration                                                            *)

\* The next handler, for the ids from lo to hi.
Register(kind, lo, hi) ==
    /\ count < MaxHandlers
    /\ count' = count + 1
    /\ scope' = scope \cup {[h |-> count + 1, kind |-> kind, lo |-> lo, hi |-> hi]}

\* AddRouterSlices and routerSlices.AddHandler, with at least one handler.  An
\* id is registered once.
AddSlices(id) ==
    /\ apis[id] = <<>>
    /\ Register("route", id, id)
    /\ apis' = [apis EXCEPT ![id] = <<count + 1>>]
    /\ UNCHANGED <<groupRanges, globalHandlers, arrays, reqVars>>

Use ==
    /\ Register("global", 1, MaxMsgID)
    /\ globalHandlers' = Append(globalHandlers, count + 1)
    /\ UNCHANGED <<apis, groupRanges, arrays, reqVars>>

\* Group with the application's slice, or without handlers.
Group(lo, hi) ==
    /\ lo <= hi
    /\ Len(groupRanges) < MaxGroups
    /\ \/ /\ groupRanges' = Append(groupRanges, [start |-> lo, end |-> hi, handlers |-> Mws])
          /\ scope' = scope \cup {[h |-> 1, kind |-> "group", lo |-> lo, hi |-> hi]}
          /\ UNCHANGED arrays
       \/ /\ arrays' = Append(arrays, <<>>)
          /\ groupRanges' = Append(groupRanges, [start |-> lo, end |-> hi,
                                    handlers |-> [arr |-> Len(arrays) + 1, len |-> 0]])
          /\ UNCHANGED scope
    /\ UNCHANGED <<apis, globalHandlers, count, reqVars>>

\* The groups with the range of a handle, and the one it stands for: the first.
WithRange(lo, hi) ==
    {i \in DOMAIN groupRanges : groupRanges[i].start = lo /\ groupRanges[i].end = hi}

FirstGroup(lo, hi) ==
    CHOOSE i \in WithRange(lo, hi) : \A j \in WithRange(lo, hi) : i <= j

\* groupRouterSlices.AddHandler refuses an id outside the range of the group.
GroupAddHandler(lo, hi, id) ==
    /\ WithRange(lo, hi) # {}
    /\ id \in lo..hi
    /\ AddSlices(id)

\* groupRouterSlices.Use: append, in place or into a new array.
GroupUse(lo, hi) ==
    /\ WithRange(lo, hi) # {}
    /\ Register("group", lo, hi)
    /\ LET i == FirstGroup(lo, hi)
           s == groupRanges[i].handlers
       IN  \/ /\ s.len < Len(arrays[s.arr])
              /\ arrays' = [arrays EXCEPT ![s.arr][s.len + 1] = count + 1]
              /\ groupRanges' = [groupRanges EXCEPT ![i].handlers.len = @ + 1]
           \/ /\ s.len = Len(arrays[s.arr])
              /\ arrays' = Append(arrays, Append(Elems(s), count + 1))
              /\ groupRanges' = [groupRanges EXCEPT
                      ![i].handlers = [arr |-> Len(arrays) + 1, len |-> s.len + 1]]
    /\ UNCHANGED <<apis, globalHandlers, reqVars>>

-----------------------------------------------------------------------------
(* Execute and RouterSlicesNext                                            *)

\* Mutant: the end of a range is taken to be exclusive.
InRangeHalfOpen(g, id) == id >= g.start /\ id < g.end

\* Mutant: the end of a range is not looked at.
InRangeFrom(g, id) == id >= g.start

InRange(g, id) == id >= g.start /\ id <= g.end

\* The middleware of every range with the id, in the order of the groups.
GroupMws(id) ==
    LET mws[i \in 0..Len(groupRanges)] ==
            IF i = 0 THEN <<>>
            ELSE IF InRange(groupRanges[i], id)
            THEN mws[i - 1] \o Elems(groupRanges[i].handlers)
            ELSE mws[i - 1]
    IN  mws[Len(groupRanges)]

\* Global middleware, the middleware of the ranges, the route.
Chain(id) == globalHandlers \o GroupMws(id) \o apis[id]

\* One critical section of mh.mu reads the routes; the chain is bound to the
\* request and its first handler is called.
Execute(id) ==
    /\ stack = <<>>
    /\ requests < MaxRequests
    /\ requests' = requests + 1
    /\ chain' = Chain(id)
    /\ chain' # <<>>
    /\ index' = 1
    /\ aborted' = "no"
    /\ stack' = <<1>>
    /\ ran' = <<1>>
    /\ due' = {s \in scope : id \in s.lo..s.hi}
    /\ UNCHANGED regVars

\* Mutant: the index is advanced after the handler has returned.
NextIndexLate == index

\* RouterSlicesNext advances the index before it calls the handler.
NextIndex == index + 1

\* The running handler calls RouterSlicesNext: without an effect after Abort
\* or at the end of the chain, otherwise the next handler runs inside it.
RouterSlicesNext ==
    /\ stack # <<>>
    /\ aborted = "no"
    /\ index < Len(chain)
    /\ index' = index + 1
    /\ stack' = Append(stack, NextIndex)
    /\ ran' = Append(ran, NextIndex)
    /\ UNCHANGED <<regVars, chain, aborted, requests, due>>

Abort ==
    /\ stack # <<>>
    /\ aborted = "no"
    /\ aborted' = "yes"
    /\ UNCHANGED <<regVars, chain, index, stack, ran, requests, due>>

\* The running handler returns into the one that called it.
Return ==
    /\ stack # <<>>
    /\ stack' = SubSeq(stack, 1, Len(stack) - 1)
    /\ UNCHANGED <<regVars, chain, index, aborted, ran, requests, due>>

\* The running handler panics: Execute recovers, the whole chain is left.
Panic ==
    /\ stack # <<>>
    /\ stack' = <<>>
    /\ UNCHANGED <<regVars, chain, index, aborted, ran, requests, due>>

-----------------------------------------------------------------------------
(* The specification                                                       *)

RouterNext ==
    \/ \E id \in MsgID : AddSlices(id) \/ Execute(id)
    \/ Use
    \/ \E lo, hi \in MsgID :
           \/ Group(lo, hi) \/ GroupUse(lo, hi)
           \/ \E id \in MsgID : GroupAddHandler(lo, hi, id)
    \/ RouterSlicesNext \/ Abort \/ Return \/ Panic

RouterSpec == RouterInit /\ [][RouterNext]_routerVars

-----------------------------------------------------------------------------
(* Properties                                                              *)

\* The handlers of the current request that have begun.
Begun == {chain[ran[i]] : i \in DOMAIN ran}

\* No position of the chain runs twice for one request, however often and from
\* however deep in the chain RouterSlicesNext is called.
EachOnce == \A i, j \in DOMAIN ran : ran[i] = ran[j] => i = j

\* The application has not passed one slice with spare capacity to groups of
\* different ranges: these would append to the same array, over each other.
Unshared == Spare = 0 \/ \A s, t \in scope : s.h = 1 /\ t.h = 1 => s = t

\* A route is guarded by all the middleware of its scope: when a route handler
\* begins, every global and group middleware registered for its id before the
\* request was bound has begun, whatever is registered meanwhile.
RouteGuarded ==
    Unshared => \A r \in due : r.kind = "route" /\ r.h \in Begun
                    => \A s \in due : s.kind # "route" => s.h \in Begun

\* Group's documentation: it "scopes handlers to every msgID in [start, end]",
\* so no request runs a handler that was registered for other ids.
OnlyScoped == Unshared => Begun \subseteq {s.h : s \in due}

-----------------------------------------------------------------------------
(* The inductive invariant behind them                                     *)

Kind == {"route", "global", "group"}
Slice == [arr : Nat, len : Nat]

RouterTypeOK ==
    /\ apis \in [MsgID -> Seq(Nat)]
    /\ groupRanges \in Seq([start : MsgID, end : MsgID, handlers : Slice])
    /\ globalHandlers \in Seq(Nat)
    /\ arrays \in Seq(Seq(Nat)) /\ Len(arrays) >= 1
    /\ count \in Nat /\ count >= 1
    /\ scope \subseteq [h : Nat, kind : Kind, lo : MsgID, hi : MsgID]
    /\ due \subseteq [h : Nat, kind : Kind, lo : MsgID, hi : MsgID]
    /\ chain \in Seq(Nat) /\ index \in Nat /\ ran \in Seq(Nat)

\* The positions run from the first one on, and the chain is long enough.
RanInv == Len(ran) = index /\ index <= Len(chain) /\ \A i \in DOMAIN ran : ran[i] = i

\* Groups share no array but the application's, and only there is spare room;
\* of the groups with one range, only the first gets further handlers.
SliceInv ==
    /\ Len(arrays[1]) = 1 + Spare /\ arrays[1][1] = 1
    /\ \A i \in DOMAIN groupRanges :
           LET g == groupRanges[i]
               s == g.handlers
           IN  /\ s.arr \in 1..Len(arrays) /\ s.len <= Len(arrays[s.arr])
               /\ s.arr # 1 => s.len = Len(arrays[s.arr])
               /\ s.arr = 1 => /\ s.len >= 1
                               /\ [h |-> 1, kind |-> "group", lo |-> g.start, hi |-> g.end] \in scope
    /\ \A i, j \in DOMAIN groupRanges : i < j =>
           LET g == groupRanges[i]
               k == groupRanges[j]
           IN  /\ g.handlers.arr = k.handlers.arr => k.handlers.arr = 1
               /\ g.start = k.start /\ g.end = k.end /\ k.handlers.arr = 1
                     => k.handlers.len = 1

\* A registration is found where its kind is kept, and a handler has one
\* registration, except the one in the slice of the application.
ScopeInv ==
    /\ \A s \in scope :
           /\ s.h <= count
           /\ s.kind = "route" => s.h # 1 /\ s.lo = s.hi /\ apis[s.lo] = <<s.h>>
           /\ s.kind = "global" => /\ s.h # 1 /\ s.lo = 1 /\ s.hi = MaxMsgID
                                   /\ \E p \in DOMAIN globalHandlers : globalHandlers[p] = s.h
    /\ \A s, t \in scope : s.h = t.h => s.h = 1 \/ s = t
    /\ \A id \in MsgID : apis[id] # <<>> =>
           /\ Len(apis[id]) = 1
           /\ [h |-> apis[id][1], kind |-> "route", lo |-> id, hi |-> id] \in scope
    /\ \A p \in DOMAIN globalHandlers :
           [h |-> globalHandlers[p], kind |-> "global", lo |-> 1, hi |-> MaxMsgID] \in scope

\* What a group shows is registered for its range, and the other way round.
GroupInv ==
    Unshared =>
       /\ \A i \in DOMAIN groupRanges :
              LET g == groupRanges[i]
              IN  \A k \in 1..g.handlers.len :
                      [h |-> arrays[g.handlers.arr][k], kind |-> "group",
                       lo |-> g.start, hi |-> g.end] \in scope
       /\ \A s \in scope : s.kind = "group" =>
              \E i \in DOMAIN groupRanges :
                  LET g == groupRanges[i]
                  IN  /\ g.start = s.lo /\ g.end = s.hi
                      /\ \E k \in 1..g.handlers.len : arrays[g.handlers.arr][k] = s.h

\* The chain of the request is made of the registrations it falls under: all
\* the middleware, and the route in the last place.
ChainInv ==
    Unshared =>
       /\ \A p \in DOMAIN chain : \E s \in due : s.h = chain[p]
       /\ \A s \in due : s.kind # "route" => \E p \in DOMAIN chain : chain[p] = s.h
       /\ \A s \in due : s.kind = "route" =>
              \A p \in DOMAIN chain : chain[p] = s.h => p = Len(chain)

RouterInv == RouterTypeOK /\ RanInv /\ SliceInv /\ ScopeInv /\ GroupInv /\ ChainInv
=============================================================================
