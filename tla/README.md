# A TLA+ development for Kinz

Kinz is a TCP server and client framework in Go: connections with a reader and
a writer goroutine, a worker pool that executes requests in order per
connection, routers with middleware, heartbeats, reconnecting clients, graceful
shutdown, metrics and an MCP endpoint. This directory holds TLA+ models of these
parts, the TLC configurations that check them on small instances and
TLAPS proofs of every safety property that holds, for all instances.

## The system and its parts

| part | code | what it does | modelled by |
|------|------|--------------|-------------|
| connection | `knet/connection.go` | life cycle created, running, closed; reader, writer, bounded write queue; `Stop` through `closeOnce` | `Connection` |
| heartbeat checker | `knet/heartbeat.go` | template of a server or client and the clone of each connection; ticks, sends beats, stops a silent connection | `HeartBeat` (template, clone), `Connection` (goroutine) |
| worker pool | `knet/msgHandler.go` | task queue per worker, worker chosen by connection id, drain on stop | `MsgHandler` |
| connection and pool | the reader's call of `SendMsgToTaskQueue`; handlers that call `SendMsg` and `Stop` | backpressure | `ConnDispatch` |
| routing | `knet/msgHandler.go`, `knet/routerSlices.go`, `knet/request.go` | global and range middleware, route handlers, `RouterSlicesNext`, `Abort`, panic recovery | `Router` |
| connection manager | `knet/connmanager.go` | map with a limit; `Get`, `Range`, `ClearConn` | in `Server`, `Client` and `Mcp` |
| server | `knet/server.go` | `Run`, accept loop, `Shutdown`, `AttachMetrics` | `Server` |
| client | `knet/client.go` | `Start`, `Stop`, `dial`, reconnect loop | `Client` |
| TLV codec | `knet/datapack.go`, `knet/message.go` | length-prefixed frames over a byte stream | `TLVPack` |
| log ring | `klog/ringbuffer.go` | the last bytes of the log | `RingBuffer`, implementing `LogTail` |
| metrics | `kmetrics/registry.go`, `knet/metrics.go` | get-or-create registry; bundles of counters and gauges | `Metrics`, used by `HeartBeat` |
| configuration | `kconf/config.go` | defaults, YAML file, `KINZ_*` variables | `Config` |
| MCP tools | `kmcp/tools.go`, `kmcp/server.go` | management calls on a running server | `Mcp`, on top of `Server` |
| buffer pool, logger, interfaces, examples | `kpool`, `klog/log.go`, `kiface`, `examples` | | not modelled, see the end |

A reader goroutine decodes frames with its own codec and hands each request to
the message handler, which puts it into the task queue of worker
`connID % poolSize`. The worker builds the chain of handlers and runs it. A
handler may send on, or stop, any connection. Every way to stop a connection
(reader or writer error, heartbeat, hook, handler, `ClearConn`) goes through
`stopOnce`, which signals the owner (server or client), stops the heartbeat,
closes the socket, closes `done` and removes the connection from the manager.

## The models

In all modules a step is what one goroutine does between two points at which
another one can observe it: a critical section, an atomic operation, a channel
operation, one system call. Program counters are strings named after what comes
next. Optional values are sets of at most one element or a string such as
`nil`. Mutants (`\* Mutant: ...`) are faulty variants of the definition that
follows; each shows that a property notices the fault, and none is part of a
specification.

**Connection.** State: the fields of `Connection` (state, started, hb, hbMu,
msgChan, done, the socket), the clone of the heartbeat checker, one program
counter for each caller of `Start`, `Stop` and `SendMsg` and for reader, writer
and heartbeat loop, and `cleanup`, the progress of the body of `closeOnce`. Any
goroutine at `closeOnce.Do` starts the body and none passes before it has
finished. `Start` follows the code: compare-and-swap, clone and bind, decision
under `hbMu`, `started`, the two goroutines, the hook (which may call `Stop`).
Time is abstract: `activity` is fresh or stale, timers fire when they like. The
hook `OnConnStop` runs inside `closeOnce.Do`; it returns, or it calls `Stop` on
its own connection and is then `stuck`, for `closeOnce` waits for itself. With
`WriteTimeout = 0` `SendMsg` has no timer and every write misses its deadline,
as `time.Now().Add(0)` makes it.

**MsgHandler.** A request is its connection and its number there.
`SendMsgToTaskQueue` is two steps, the snapshot under the lock and the send,
because the pool may be stopped in between; the send acts on the snapshot. The
non-blocking attempt that exists for the metric and the blocking send are the
same step. The history variables `pooled` and `began` record which requests
were queued and which began.

**ConnDispatch.** Composes the two: `Deliver` of the connection and
`DispatchSnapshot` of the pool are one step, the reader does nothing else until
the send has returned. The workers are the goroutines that call `SendMsg`, and
they are among those that call `Stop`: the handler of a request sends (at most
once for each request), stops its own connection, or returns. No heartbeat is
configured in it.

**Server.** `Run`, `Shutdown` (by `Run` itself or by another caller), the
goroutine in `ClearConn`, the accept loop with `handleConn` and `rejectConn`,
and `AttachMetrics`. A connection is reduced to phases; that `Stop` returns only
when the connection is quiet is what `StopIsFinal` shows of `Connection`. Its
`Stop` may also never return: `stuck` is a connection whose `OnConnStop` hook
calls `Stop` (it is neither uncounted nor removed), `blocked` one that is
cleaned up while its reader waits for room in a task queue, so that
`wg.Wait` (`connection.go:191`) does not end. The
history variable `late` keeps the connections that were in `handleConn`, and not
yet in the manager, when `ClearConn` took its snapshot.

**Client.** Every successful `Start` opens a session with its own ctx; sessions
overlap when `Start` follows `Stop` before the loop or a dial of the old one has
ended. The manager of a client holds one connection (`MgrFull`).
With `TLS = "yes"` a dial does not notice that its ctx is cancelled and need not
end, for `tls.DialWithDialer` knows neither ctx nor a timeout. `Restart` is
`Stop` and then `Start` of one user.

**TLVPack.** Real encoding and decoding over sequences of bytes, which are the
numbers below `Base` (256 in the code, 2 in the run): a header field has four
of them, most or least significant first, and the length field wraps at `Limit`,
`Base` to the fourth, as `uint32` does at 2^32. The network cuts the stream into
arbitrary chunks.

**Router.** Registration, chain building and running, interleaved. Go slices
are modelled with backing arrays, since `Group` keeps its caller's slice and
`Use` on the group appends to it, in place while there is capacity. The history
variable `scope` has every registration with the ids it is for, `due` those that
the running request falls under. Handler 1 is the one in the application's own
slice, the only one that can be registered for more than one range; `Unshared`
says that it is not, or that the slice has no spare capacity.

**RingBuffer / LogTail.** The ring with its indices, and what it promises:
after every write it holds the last `Cap` bytes. `Write`, `strings.Split` and the
joining of lines are recursive functions, byte by byte. `input`, the argument of the
last write, is visible in both so that the refinement cannot pick another one.

**Metrics and HeartBeat.** `Metrics` is the registry: the look-up under the read
lock, the second look and the registration under the write lock are separate
steps, and `MustRegister` panics at a name that is taken. `HeartBeat` uses it for
the bundles that a host, its connections and its checkers fetch, and adds the
template: `SetHeartBeatWithOption` (server) or `StartHeartBeatWithOption`
(client) builds a checker with the option's setters in the order of the code,
publishes it and, on a server, routes its message id; a connection reads the
template and clones it in two steps. `host` chooses between server and client
in `Init`.

**Config.** `Load` as pure operators: `applyEnv` is a recursive function over the
fields in the order of the code, and a text is the class the parsers tell apart (word,
negative, small, huge, duration). `Expected` is the documented precedence,
written without a loop. `LoadFaults` collects the inputs, with few fields set,
for which the two differ; `LoadPrecedence` says that none is behind what
`get_config` reports. `LoadIsExpected` covers all inputs (`AnySettings`).

**Mcp.** A tool call on top of a running `Server`: authorization, arguments,
look-up with `Get` or `Range`, then the action, connection by connection. A call
of `shutdown_server` is one of the `Shutters` of `Server`. A call waits for the
`Stop` it makes, which may never return, or in a `SendMsg` that only the `done` of
a stuck connection could wake (`HeldUp`).

**MCParts** is not a component: codec, router, ring buffer and heartbeat share no
state, so one run explores their state spaces side by side. The variable `part`
says which of them a behaviour uses.

## The runs

| run | configuration | bounds | checks | states |
|-----|---------------|--------|--------|--------|
| connection | `MCConnection.cfg` | one goroutine each in `Start` and `Stop`, three in `SendMsg`; queue of two; `WriteTimeout` 1; symmetric in the senders | `TypeOK`, `NoHeartbeatLeak`, `StopIsFinal`, `WireOrder` | 1,433,264 |
| connection_live | `MCConnectionLive.cfg` | the same with one goroutine in `SendMsg` and a queue of one | `StopReturns`, `AcceptedWritten`, `TornDown`, `DeadPeerClosed` | 94,746 |
| pool | `MCMsgHandler.cfg` | connections 1 and 3 on two workers, two requests each, queue of one, two starts, one stop | `TypeOK`, `PerConnOrder`, `ExactlyOnce`, `QueuedRuns` | 25,702 |
| dispatch | `MCConnDispatch.cfg` | three frames in batches of up to two, one worker, both queues of one, `WriteTimeout` 0; a handler and another goroutine that stop; a handler sends once for each request | `FramesInOrder`, `QuietAfterStop`, `HandlerStopsOrBlocks`, `SendReturns` | 55,368 |
| server | `MCServer.cfg` | two peers, limit one, one `Run`, one other `Shutdown`, two `AttachMetrics` | `TypeOK`, `NoOrphan`, `MetricsAgree`, `OnlyLateOpen`, `MetricsOwned`, `RunReturns` | 631,330 |
| client | `MCClient.cfg` | two users, two sessions, two connections, TLS | `TypeOK`, `CancelSet`, `DisconnectedAfterStop`, `LoopEnds` | 64,567 |
| parts | `MCParts.cfg` | | | 672,891 |
| - codec | | two messages of up to three bytes, limit two, bytes 0 and 1, chunks of up to twelve | `FramesIntact`, `NothingHeldBack`, `OnlyOversizeCloses` | 46,677 of them |
| - router | | two ids, four handlers, two groups, one request | `EachOnce`, `RouteGuarded`, `OnlyScoped` | 319,185 |
| - ring | | ring of three, payloads of up to four bytes over three letters | `LinesAreTail`, `KeepsTail` | 601 |
| - heartbeat | | two setters with three kinds of arguments, two connections, two timeouts, server and client; symmetric in setters and connections | `NothingLost`, `ClonesWhole`, `BeatsRouted` | 306,428 |
| mcp | `MCMcp.cfg` | one call of any tool, two peers without a limit, one `Run`; files that set one field and environments that set two | `BroadcastReaches`, `CallsReturn`, `LoadPrecedence` | 617,489 |
| pool_restart | `MCMsgHandlerRestart.cfg` | one connection, two starts, one stop | `AlwaysPooled`, violated | |
| client_reconnect | `MCClientReconnect.cfg` | one user, one session | `Reconnects`, violated | |
| heartbeat_active | `MCHeartBeatActive.cfg` | as heartbeat | `ActiveConnections`, violated | |
| heartbeat_missed | `MCHeartBeatMissed.cfg` | as heartbeat | `MissesCounted`, violated | |

Why the bounds are enough to be interesting: the connection already has six
goroutines that stop it or are stopped, and the safety properties are proved
for any number of callers; three senders on a queue of two fill it, wait for it
and have one message at the writer, so that an order could go wrong; liveness
needs no more than one sender, for what can keep a goroutine from ending is not
the other messages; with `WriteTimeout` 0 only a free place or `done` can wake a
`SendMsg` on a full queue; two
connections that share a worker, with a queue of one, block each other and are
drained while they do; three frames are one in
the handler, one in the queue and one in the blocked reader; a limit of one with
two peers makes `Add` fail, and succeed again after a close; two users can
overlap a failing `Start` with `Stop` and the next `Start`; two messages make
every split inside a header, inside a body and across frames; a ring of three
wraps within one write and over several; two setters and two connections meet
at every name of the registry and around the publication of a template, and the
run is symmetric in each pair (no action names one of them); an MCP call of any
kind overlaps accept, close and `Shutdown`; a fault in precedence or in the error
handling of `Load` shows with one field set twice or two variables set.
`SendReturns` needs three messages: one whose write fails, one in the queue and
one that waits; the handlers of the three frames send them. Deadlock checking is
off where the application may legitimately do nothing more.

### What the violated ones show

* **client_reconnect**: in `run`, a failed dial continues with the outer
  `select`. It waits for `connGone`, which only the end of a connection sends,
  and there is none: the comment "dial failed; retry with a longer backoff" is
  not what happens.
* **pool_restart**: `StopWorkerPool` leaves `workerCtx` set, so the pool cannot
  be started again; after `Client.Restart` every request gets its own goroutine.
* **heartbeat_active**: `stopOnce` decrements the gauge whose help text is
  "Currently active connections" (`metrics.go:49`) for every connection that
  ends, and only `Server.handleConn` increments it: on a client it goes down to
  minus the number of connections that have ended. On a server it is right, and
  theorem `ServerGauge` says so.
* **heartbeat_missed**: `Clone` is to return a checker "with the same
  configuration" (`heartbeat.go:172`), but leaves `metrics` out. The checkers of
  the connections are clones, so `check` never counts a liveness timeout, and
  `kinz_heartbeat_missed_total`, whose growth `docs/production-checklist.md:47`
  tells operators to watch, stays 0. (The counting branch of `Miss` is
  therefore never taken.)

### Other behaviour seen while modelling

The models have these behaviours too, and some properties are stated around
them.

Connections and pool:

* The reader may block in the send to a full task queue (`msgHandler.go:179`)
  whose worker runs a handler that is in `Stop` on the same connection; `Stop`
  waits for the reader, and neither goes on, although `connection.go:29` calls
  `Stop` "idempotent and safe from any goroutine". `HandlerStopsOrBlocks` shows
  that a full queue is the only way to this, apart from the next one. `Deliver`
  of `Connection` takes the hand-over to end, so `StopReturns` and `TornDown`
  have that as their premise.
* An `OnConnStop` hook that calls `Stop` never returns (`HookStuck`).
* A `Stop` that overtakes `Start` does not wait for the goroutines which that
  `Start` still launches (they end by themselves, `TornDown`).
* Messages in the write queue are dropped at close, and one may be accepted
  after the writer has gone: `SendMsg` has returned nil, and nothing is written.
  `AcceptedWritten` says that only the end of the connection does this.
* With `WriteTimeout` 0 every write fails, and closes the connection.

Server and client:

* A connection that was accepted before the listener was closed may be added
  (`server.go:242`) after `ClearConn` has emptied the manager, and is open when
  `Shutdown` has returned nil, although `server.go:166` says "stop accepting,
  drain connections". `OnlyLateOpen` shows that it is the only kind left open.
* A `Shutdown` before `Run` has stored its listener leaves `Run` waiting for the
  accept loop (`RunReturns` assumes that it found a listener).
* The `Start` of the next session clears `c.stopping` before a dial of the
  stopped session has read it, so `DisconnectedAfterStop` is about a client that
  was started once.
* The error path of a `Start` that was overtaken by `Stop` and another `Start`
  resets the fields of the newer session.
* A `Stop` inside `dial` can register a closed connection.
* The comment at `client.go:180` says that `cancel()` stops "the run loop (and
  any in-flight dial)". A dial with TLS (`client.go:204`) is given no ctx and no
  timeout: with a peer that accepts and then stays silent, the loop remains in
  it. `LoopEnds` excepts a loop that is in this handshake, and nothing else.
* A `Stop` that never returns (the first two of the list above) takes its caller
  with it: `close_connection` (`tools.go:179`) does not return, and neither does
  the `ClearConn` of a `Shutdown`, whose ctx then expires. `CallsReturn` excepts
  a call that is `HeldUp` so. `RunReturns` needs no exception: `Run` gives its
  `Shutdown` five seconds.
* A `Shutdown` whose ctx expires leaves the worker pool running, and a second
  `Shutdown` is a no-op.
* A metrics listener that is stored after `Shutdown` has taken the others is
  never closed; it counts as the server's in `MetricsOwned`.

Heartbeat and metrics:

* Between the publication of a template and its route a connection may already
  send heartbeats, which then meet no handler; `BeatsRouted` speaks of the time
  after the call.
* The handlers of an option are kept in the checker and never routed:
  the server routes `HeartBeatDefaultHandle`. An option with handlers and no
  message id sets the id to 0.

Others: groups that were given the same slice with spare capacity overwrite each
other's middleware (`Unshared` excludes it); when an oversize frame comes in one
chunk with complete ones, these are dropped with it; a
broadcast skips a connection that is in the manager and not yet started.

The comment of `Lines` and its test disagree: "the last n non-empty lines"
(`ringbuffer.go:60`) against "empty middle line is kept"
(`ringbuffer_test.go:66`). The code does what the test wants, and so does
`LinesAreTail`: an empty line is a line and counts.

## Fairness

Liveness is checked under weak fairness of every goroutine that the Go scheduler
runs when it can: callers inside `Start`, `Stop`, `SendMsg`, `Shutdown`,
reader, writer, workers. Strong fairness is assumed where a `select` chooses
among ready cases, which it does at random, so a ready `done`, `quit` or
`ctx.Done()` is not overlooked forever, for a blocked send (Go serves the
senders of a channel in order), and, in `Client`, for the peer: a dial that is
repeated forever succeeds at some time. With TLS a dial is not taken to end,
nor to succeed: nothing in the code bounds the handshake.

In `Server` and `Mcp` a connection on which `Stop` has been called comes to an
end of one of the three kinds: `closed`, `stuck` or `blocked`. Which one is not
up to fairness, so nothing is assumed to return that waits for a `Stop`. A
`Shutdown` that waits for a `ClearConn` runs into its ctx if it is that of `Run`
or of `shutdown_server`, which have five seconds; any other caller's ctx need
not expire. A tool call that has begun goes on. In `Connection` the hand-over of a
frame ends; `ConnDispatch` has no such assumption. Nobody has to
call anything; a peer need not send; handlers and hooks
return, except where they wait in `Stop` or `SendMsg`. `HeartBeat` has only
safety properties and assumes no fairness.

## What is proved

Every safety property that a passing run checks is also proved by TLAPS, for all values
of the constants: any sets of callers, peers and connections, any pool size,
queue length, capacity, number of ids, groups, handlers and messages, any bytes.
The assumptions are the named `ASSUME`s of the modules (positive capacities, a
pool of at least one worker, a byte with at least two values, goroutines of
different roles are different), and one of its own for the codec: the theorems
of `TLVPackProofs` are about payloads whose length fits into the header field
(`MaxData < Limit`, 4 GiB in the code), for beyond it `DataLen` wraps.

In each module the theorem `...Invariant` shows that a strengthening is
inductive, and the properties follow from it.

* `ConnectionProofs`, connection: `TypeCorrect`, `InductiveInvariant` (`IInv`),
  `HeartbeatNeverLeaks`, `CheckerReleased`, `StopFinal`, `WireOrdered`.
  `NoHeartbeatLeak` alone is not inductive: one has to know that the checker,
  while it runs, is in `c.hb` until `stopOnce` takes it (`BeatInv`), that the
  decision to start it is made while `hbMu` is held and only by the one `Start`
  that won the compare-and-swap (`StartInv`; a hook that is stuck comes before
  `stopOnce` takes the checker, so the invariant covers it), that `cleanup` and
  `state` agree and nobody passes `closeOnce` early (`CleanupInv`), and, for
  `StopFinal`, that frames are pending only while the reader delivers
  (`QuietInv`). `WireInv` says that what was written and what is queued are
  together the accepted messages, in order.
* `ConnectionProofs`, connection and pool: `ImplementsPool`, `PoolInvariant`,
  `DispatchInvariant`, `StopQuietens`, `FramesOrdered`. The composition is shown
  to implement the pool (`Pool!Spec`), so the invariants of `MsgHandler` hold in
  it, by the theorems of `MsgHandlerProofs` through `INSTANCE`; `IInv` of the
  connection is shown to survive the steps of `ConnDispatch`. What is new is
  that the frames queued are those handed over, but for the one on its way
  (`FramesInv`).
* `MsgHandlerProofs`: `TypeCorrect`, `InductiveInvariant`, `PerConnectionOrder`,
  `BeginsExactlyOnce`, `NeverTwice`. The strengthening says what a queue holds:
  only requests of its worker's connections, each queued and not begun, those of
  a connection in increasing order (`QueueInv`); that readers queue increasing
  numbers (`SentInv`); and that workers execute what is theirs (`CurrentInv`).
* `ServerProofs`, server: `TypeCorrect`, `InductiveInvariant`,
  `NothingOrphaned`, `MetricsExact`, `ShutdownDrains`, `MetricsListenersOwned`.
  One `Run` and one `Shutdown` pass their flags (`RunInv`, `ShutInv`), the
  accept loop handles one connection at a time (`AcceptInv`), the gauge lags by
  the connection that is added and not counted (`CountInv`), and once a listener
  that was found is closed, what is open is late or still to be stopped
  (`DrainInv`).
* `ServerProofs`, MCP and configuration: `ImplementsServer` and `ServerSafe` (a
  server under management calls is still that server), `McpInvariant`,
  `BroadcastExact`, `LoadIsExpected`, `ConfigLoaded`.
* `ClientProofs`: `TypeCorrect`, `InductiveInvariant`, `CancelNeverNil`,
  `NoReconnectAfterStop`, from the ownership of sessions (`SessionInv`).
* `HeartBeatProofs`: `InductiveInvariant`, `NoCountLost`, `WholeClones`,
  `HeartbeatsRouted`, `ServerGauge`. A checker is complete before it is published
  and not changed afterwards (`TemplateInv`); whatever handle of a metric is held
  is the registered one (`RegistryInv`).
* `TLVPackProofs`: `CodecInvariant`, `FramesAreIntact`, `NothingIsHeldBack`,
  `OnlyOversizeIsRefused`. The invariant says that the buffer and the wire are
  together the frames of the messages still to be returned (`Framed`: there are
  places at which to cut). The lemmas show that four bytes and a number below
  `Limit` determine each other in either order, that a frame at the head of the
  buffer is decoded to its message, and that a chunk moves between wire and
  buffer without changing their concatenation.
* `RouterProofs`: `RouterInvariant`, `RunsOnce`, `RunsOnlyScoped`,
  `RoutesAreGuarded`. Groups share no array but the application's, and only that
  one has room to append in place (`SliceInv`); each registration is found where
  its kind is kept (`ScopeInv`); a group shows exactly what is registered for
  its range (`GroupInv`); the chain has all the middleware of the request, and
  the route last (`ChainInv`). The last two need `Unshared`.
* `RingBufferProofs`: `RingSafe`, `RingKeepsTail` (every step of the ring is a
  step of `LogTail` under the mapping `tail <- Bytes`), `LinesAreTheTail`. For
  the last one, joining the parts of a split gives back what was split, and
  joining the last lines gives the end of what joining all of them gives.

`CheckerReleased`, `NeverTwice`, `ServerGauge` and the invariants themselves are stated by
theorems only: the runs check their consequences.

**Induction.** The loops of the code (over the bytes of a write, the parts of a
text, the groups and variables) are recursive functions, and the library's rules
of induction take a predicate as a parameter, which the provers cannot
instantiate. The proofs use its statement about sets instead: the numbers up to
a bound for which something holds are a set, and a set that contains 0 and the
successor of each of its members below the bound contains them all (lemma
`UpTo`, from the fact that a nonempty set of numbers has a least member). That a
recursive function exists is shown in the same way, by extending one that
satisfies the equations up to `i` to `i + 1`.

Only model-checked: liveness, that is `StopReturns`, `AcceptedWritten`,
`TornDown`, `DeadPeerClosed`, `SendReturns`, `QueuedRuns`, `HandlerStopsOrBlocks`,
`RunReturns`, `LoopEnds` and `CallsReturn`. Fairness and `ENABLED` are beyond
the prover.

## Plan

1. Done: life cycle and heartbeat, pool, their composition, server, client,
   codec, routing, log ring; proofs for connection and pool.
2. Done: the hook that calls `Stop`, `WriteTimeout` 0, handlers that send and
   stop, the heartbeat template and its metrics, the registry under concurrent
   requests, the precedence of configuration sources, the MCP tools.
3. Done: proofs of all the safety properties.
4. Open: the codec for payloads of 4 GiB and more, and a proof of the liveness
   properties with a prover that has fairness.

## Not modelled

* `kpool`: size classes over `sync.Pool`. Every buffer has one owner, the reader
  that gets it and puts it back; nothing is shared that an interleaving could
  disturb.
* `klog/log.go`: a wrapper around slog without a protocol of its own.
* The resources and transports of `kmcp`: the resources return what the reading
  tools return, the transports are those of the mcp-go library. (`authorize` is
  called for the tools and for the log resource.)
* Backoff values of the client: arithmetic on a duration that its unit tests
  cover; the loop around it is in `Client`.
* Options, hook and codec setters, plain accessors, and the property map of a
  connection, which is a map behind one lock.
* `SetHeartbeatFunc`, which no option reaches.
* A hook that panics: outside of a handler it ends the process.
* Payloads of 4 GiB and more, whose length wraps in `DataLen`: the width is in
  `TLVPack`, the run stays below it and the theorems assume it.
* The buckets of histograms and the HTTP handler of the metrics.
* TLS itself (the models only know that its dial ignores ctx), the interfaces and
  the examples.
