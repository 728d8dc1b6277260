-------------------------------- MODULE Mcp ---------------------------------
(***************************************************************************)
(* The management tools of kmcp/tools.go at work on a running server: each *)
(* call looks connections up in the ConnManager (Get, or the snapshot of   *)
(* Range) and acts on them later, while peers come and go, connections end *)
(* and Run or another call shuts the server down.                          *)
(*                                                                         *)
(* The texts of arguments and results are left out: an argument is there   *)
(* or not, a result is ok, error or denied.  A call that may shut the      *)
(* server down is one of the Shutters of module Server.  The configuration *)
(* that get_config returns is what Load of module Config made of defaults, *)
(* file and environment; nothing changes it later.                         *)
(***************************************************************************)
EXTENDS Server, Config

CONSTANT Calls   \* tool calls, each made once

ASSUME McpAssumption == Calls \subseteq Shutters

VARIABLES
    call,      \* program counter of each call
    tool,      \* the tool it calls,
    connArg,   \*   with its connID, as a set: empty if it is missing
    conns,     \* the connections it has looked up and not yet dealt with
    sent,      \* toolBroadcast's count
    failed,    \* connections whose SendMsg returned an error
    queued,    \* history: connections that accepted the call's message
    witness    \* history: connections that were open when a broadcast began

mcpVars == <<call, tool, connArg, conns, sent, failed, queued, witness>>
mvars == <<vars, mcpVars>>

\* server_info, get_metrics and get_logs only read, and are one here.
ReadTools  == {"read", "get_config"}
RangeTools == {"list_connections", "broadcast"}
ConnTools  == {"get_connection", "send_to_connection", "close_connection"}
Tools == ReadTools \cup RangeTools \cup ConnTools \cup {"shutdown_server"}

Results == {"ok", "error", "denied"}

McpInit ==
    /\ Init
    /\ call = [t \in Calls |-> "idle"]
    /\ tool = [t \in Calls |-> "none"] /\ connArg = [t \in Calls |-> {}]
    /\ conns = [t \in Calls |-> {}] /\ sent = [t \in Calls |-> 0]
    /\ failed = [t \in Calls |-> {}] /\ queued = [t \in Calls |-> {}]
    /\ witness = [t \in Calls |-> {}]

-----------------------------------------------------------------------------
CallGoto(t, l) == call' = [call EXCEPT ![t] = l]

\* wrapTool: the application's AuthFunc, if there is one, may deny the call.
Authorize(t) ==
    /\ call[t] = "idle"
    /\ \/ \E n \in Tools, arg \in {{}} \cup {{c} : c \in Clients} :
             /\ arg # {} => n \in ConnTools
             /\ tool' = [tool EXCEPT ![t] = n]
             /\ connArg' = [connArg EXCEPT ![t] = arg]
             /\ witness' = [witness EXCEPT ![t] = IF n = "broadcast" THEN Live ELSE {}]
             /\ CallGoto(t, "args")
       \/ CallGoto(t, "denied") /\ UNCHANGED <<tool, connArg, witness>>
    /\ UNCHANGED <<vars, conns, sent, failed, queued>>

\* argMap, argUint and argString: an argument is missing or of the wrong type,
\* connID or, for the tools that send, msgID or data.
argMissing(t) ==
    \/ tool[t] \in ConnTools /\ connArg[t] = {}
    \/ tool[t] \in {"send_to_connection", "broadcast"}

argsPresent(t) == tool[t] \in ConnTools => connArg[t] # {}

FirstStep(n) ==
    CASE n \in ReadTools -> "ok"
      [] n \in RangeTools -> "range"
      [] n \in ConnTools -> "get"
      [] n = "shutdown_server" -> "shutdown"

Arguments(t) ==
    /\ call[t] = "args"
    /\ \/ argMissing(t) /\ CallGoto(t, "error")
       \/ argsPresent(t) /\ CallGoto(t, FirstStep(tool[t]))
    /\ UNCHANGED <<vars, tool, connArg, conns, sent, failed, queued, witness>>

\* What a tool does with the connection it has looked up; get_connection only
\* reads its addresses.
AfterGet(n) ==
    CASE n = "get_connection" -> "ok"
      [] n = "send_to_connection" -> "send"
      [] n = "close_connection" -> "stop"

\* ConnManager.Get.
Get(t) ==
    /\ call[t] = "get"
    /\ LET found == connArg[t] \cap connMgr
       IN  /\ conns' = [conns EXCEPT ![t] = found]
           /\ CallGoto(t, IF found = {} THEN "error" ELSE AfterGet(tool[t]))
    /\ UNCHANGED <<vars, tool, connArg, sent, failed, queued, witness>>

\* list_connections only reads the addresses.
AfterRange(n) == IF n = "list_connections" THEN "ok" ELSE "send"

\* ConnManager.Range: the snapshot under the lock.
RangeSnapshot(t) ==
    /\ call[t] = "range"
    /\ conns' = [conns EXCEPT ![t] = connMgr]
    /\ CallGoto(t, AfterRange(tool[t]))
    /\ UNCHANGED <<vars, tool, connArg, sent, failed, queued, witness>>

\* SendMsg, on one connection looked up.  A connection that is not yet started
\* or no longer open refuses; an open one may still time out.
SendMsg(t, c) ==
    /\ call[t] = "send" /\ c \in conns[t]
    /\ \/ /\ conn[c] = "live"
          /\ queued' = [queued EXCEPT ![t] = @ \cup {c}]
          /\ sent' = [sent EXCEPT ![t] = @ + 1]
          /\ UNCHANGED failed
       \/ failed' = [failed EXCEPT ![t] = @ \cup {c}] /\ UNCHANGED <<queued, sent>>
    /\ conns' = [conns EXCEPT ![t] = @ \ {c}]
    /\ UNCHANGED <<vars, call, tool, connArg, witness>>

\* Mutant: the callback of Range gives up at the first error.
SentAllOrFailed(t) == conns[t] = {} \/ failed[t] # {}

\* The callback of Range always returns true.
SentAll(t) == conns[t] = {}

SendReturn(t) ==
    /\ call[t] = "send" /\ SentAll(t)
    /\ CallGoto(t, IF tool[t] = "send_to_connection" /\ failed[t] # {} THEN "error" ELSE "ok")
    /\ UNCHANGED <<vars, tool, connArg, conns, sent, failed, queued, witness>>

\* Stop of the connection looked up, whoever else stops it, and its return.
CloseConnection(t) ==
    /\ call[t] = "stop"
    /\ \A c \in conns[t] : StopReturned(c)
    /\ CallGoto(t, "ok")
    /\ UNCHANGED <<vars, tool, connArg, conns, sent, failed, queued, witness>>

\* Shutdown with a ctx of five seconds returns to toolShutdown.
ShutdownServer(t) ==
    /\ call[t] = "shutdown"
    /\ shut[t] \in {"drained", "expired", "noop"}
    /\ CallGoto(t, IF shut[t] = "expired" THEN "error" ELSE "ok")
    /\ UNCHANGED <<vars, tool, connArg, conns, sent, failed, queued, witness>>

-----------------------------------------------------------------------------
ToolNext(t) ==
    \/ Arguments(t) \/ Get(t) \/ RangeSnapshot(t) \/ SendReturn(t)
    \/ CloseConnection(t) \/ ShutdownServer(t)
    \/ \E c \in Clients : SendMsg(t, c)

Serve(A) == A /\ UNCHANGED mcpVars

\* The server goes on; a call enters Shutdown only if that is its tool.
ServerNext ==
    /\ Serve(Next)
    /\ \A t \in Calls : call[t] # "shutdown" => shut'[t] = shut[t]

McpNext == ServerNext \/ \E t \in Calls : Authorize(t) \/ ToolNext(t)

\* A step of a call that always comes.  SendMsg returns, as SendReturns shows of
\* Connection, but for one case: its queue is full, it has no timer, and a stuck
\* hook keeps done open.  The ctx of toolShutdown expires after five seconds.
CallStep(t) ==
    \/ ToolNext(t) /\ \A c \in conns[t] : conn[c] = "stuck" => c \in conns'[t]
    \/ call[t] = "shutdown" /\ Serve(ShutEnter(t) \/ ShutStep(t) \/ ShutExpired(t))

CloseCalled(c) == \E t \in Calls : call[t] = "stop" /\ c \in conns[t]

\* The fairness of Server; besides, a call that has begun goes on, and Stop stops
\* the connection it is called on, or is stuck or blocked.
McpFairness ==
    /\ \A r \in Runners : WF_mvars(Serve(RunStep(r)))
    /\ \A x \in Shutters \ Calls : WF_mvars(Serve(ShutStep(x)))
    /\ WF_mvars(Serve(ClearNext)) /\ WF_mvars(Serve(AcceptNext))
    /\ \A c \in Clients : WF_mvars((Stopping(c) \/ CloseCalled(c)) /\ Serve(ConnStep(c)))
    /\ \A t \in Calls : WF_mvars(CallStep(t))

McpSpec == McpInit /\ [][McpNext]_mvars /\ McpFairness

-----------------------------------------------------------------------------
(* Properties                                                              *)

\* docs/mcp.md: broadcast sends to all connections and returns their number.
\* When it returns, every connection that has been open and in the manager all
\* the while got the message, unless its SendMsg failed, and "sent" is the
\* number that got it, whatever was accepted or closed in the meantime.
BroadcastReaches ==
    \A t \in Calls : tool[t] = "broadcast" /\ call[t] = "ok" =>
        /\ witness[t] \cap Live \cap connMgr \subseteq queued[t] \cup failed[t]
        /\ sent[t] = Cardinality(queued[t])

\* The inductive invariant behind BroadcastReaches: a call runs the steps of its
\* tool; before a look-up it has sent nothing; and no connection that was open
\* when a broadcast began can enter the manager again, so one that is still
\* there was in the snapshot of Range.
CallPC == {"idle", "args", "get", "range", "send", "stop", "shutdown"} \cup Results

McpTypeOK ==
    /\ call \in [Calls -> CallPC]
    /\ tool \in [Calls -> Tools \cup {"none"}]
    /\ connArg \in [Calls -> SUBSET Clients] /\ conns \in [Calls -> SUBSET Clients]
    /\ sent \in [Calls -> Nat]
    /\ failed \in [Calls -> SUBSET Clients] /\ queued \in [Calls -> SUBSET Clients]
    /\ witness \in [Calls -> SUBSET Clients]

ToolInv(t) ==
    /\ call[t] = "args" => tool[t] \in Tools
    /\ call[t] = "get" => tool[t] \in ConnTools
    /\ call[t] \in {"stop", "shutdown"} => tool[t] # "broadcast"
    /\ call[t] \in {"idle", "args", "get", "range"} => queued[t] = {} /\ sent[t] = 0

ReachInv(t) ==
    /\ \A c \in witness[t] : conn[c] \in {"live", "stuck", "closing", "closed", "blocked"}
    /\ tool[t] = "broadcast" /\ call[t] \in {"send", "ok"} =>
          witness[t] \cap Live \cap connMgr \subseteq conns[t] \cup queued[t] \cup failed[t]
    /\ tool[t] = "broadcast" /\ call[t] = "ok" => conns[t] = {}
    /\ IsFiniteSet(queued[t]) /\ sent[t] = Cardinality(queued[t])
    /\ call[t] = "send" => conns[t] \cap queued[t] = {}

McpInv == IInv /\ McpTypeOK /\ \A t \in Calls : ToolInv(t) /\ ReachInv(t)

\* The call waits for a connection that keeps it: in a Stop that never returns, or
\* in a SendMsg that only done could wake.
HeldUp(t) ==
    \E c \in conns[t] :
        \/ call[t] = "stop" /\ conn[c] \in {"stuck", "blocked"}
        \/ call[t] = "send" /\ conn[c] = "stuck"

\* Every call returns, but for one on a connection whose Stop hangs: Range and
\* ClearConn call into connections without the lock that the connections need to
\* leave the manager, a Stop or Shutdown that somebody else has begun is waited
\* for or found done, and a Shutdown that waits for a Stop gives up.
CallsReturn ==
    \A t \in Calls : (call[t] = "args") ~> (call[t] \in Results \/ HeldUp(t))

\* get_config returns "the effective server configuration", whichever of the
\* files and environments Load was given: defaults, file and environment
\* override each other in this order, "a missing file is ignored", and whatever
\* cannot be read or parsed makes Load fail as a whole, wherever applyEnv meets it.
LoadPrecedence ==
    \A t \in Calls : tool[t] = "get_config" /\ call[t] = "ok" => LoadFaults = {}
=============================================================================
