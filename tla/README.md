# A TLA+ verification of node-webserver

The repository is a web server for Node.js in four packages: processes that
answer requests (`node-worker`), the Express middleware that serves folders with
them (`node-worker-express`), a runtime for lambdas (`node-lambda-invoke`) and
the server that puts virtual hosts in front of all of it (`node-webserver`).
This directory holds TLA+ modules about it, the configurations that TLC checks
them with, and proofs that TLAPS checks. Paths below are relative to the
packages of the repository; `pool/utils` is `node-worker/src/pool/utils`.

Contents: [inventory](#inventory), [modules and plan](#modules-and-plan),
[the worker pool](#the-worker-pool) (model, runs, proofs),
[a request](#a-request-exchange), [a websocket](#a-websocket-websocket),
[the servers](#the-servers), [the parts](#the-parts),
[proofs](#what-is-proved-and-by-what-argument),
[differences between code and documentation](#code-and-documentation),
[what is not modelled](#what-is-not-modelled), [running it](#running-it).

## Inventory

What the system consists of, and what could go wrong in each part. Everything
runs in one Node.js process, so a handler is never interrupted; what interleaves
are handlers, the worker processes, the clients, the file system and timers.

| Part | State | Operations | Talks to | Hard about it | Correct if |
|---|---|---|---|---|---|
| Worker pool (`pool/utils/worker-pool.ts` and the `create-worker-*.ts` beside it) | workers per path, leases, stopping and retired workers, crashes per path, warm paths, disposal | `acquire`, `release`, `kill`, `warm`, `keepWarm`, `dispose`, timers for start, age, idleness, backoff and kill, the close of a process | processes (signals, READY, close), the line, other pools through the budget, its owner | one event is handled in several steps that each see what the one before left; pools of one budget call each other | limits hold, no request loses its worker to a stop or an eviction, nobody waits for a place that is there, the disposal ends, warm paths come back |
| Waiting line (`node-worker/src/waiting-line.ts`) | the waiters in order | `enqueue`, `wakeUp`, timeout, abort | the pool, clients | a wake-up empties the line and puts back who is not served | a request is in one place, first come first served |
| Budget (`create-worker-budget.ts`) | the pools that joined | `join`, `leave`, `hasRoom`, `findIdleWorker`, `wakeUp` | pools | its count is a sum over pools that change independently | the limit holds over all members |
| Channel (`create-channel.ts`, `frames.ts`) | what is not written yet, the bytes that are no whole frame yet | `send`, `push` | the socket pair to a process | chunks cut anywhere | the messages that are sent arrive, whole and in order |
| Worker session (`create-worker-session.ts`, `create-request-contexts.ts`, `create-response-sender.ts`, `create-upload.ts`) | one context per request: stream, upload, websocket, waiting metrics | every message of the server, every call of the response callback | the server over the channel, the worker's function | abort, acknowledgement and end meet in any order | every promise is settled, every context dropped, the upload window holds |
| Serving a request (`node-worker-express/src/utils/serve-request.ts`, `create-worker-message-listener.ts`, `register-request-listeners.ts`) | what to undo, the response timeout, headers sent | every message of the worker, events of the request and the response, timeout, exit | lease, client, session | a cleanup that runs several times, from six directions | lease and slot are given back exactly once, and not while the worker writes |
| Body windows (`create-body-forwarder.ts`, `create-upload.ts`, `stream-response.ts`) | parts and bytes under way | part, end, acknowledge | both ends of the channel | backpressure in both directions at once | bounded memory, the body whole and in order, no stall |
| Hand-offs (`create-request-hand-off.ts`, `create-response-hand-off.ts`, `create-hand-off-requests.ts`, `create-handed-request.ts`) | who owns the connection | ask, refuse, hand over, done | IPC channel, channel, socket | two channels with no order between them, awaits in between | one owner at a time, no byte lost, the worker is freed |
| Websockets (`create-ws-connection.ts`, `send-ws-message.ts`, `receive-ws-message.ts`) | messages under way in both directions, closing | open, receive, send, acknowledge, close, keep-alive | client, session, slots | either side closes at any time | windows hold, messages in order, the slot is given back |
| Probe and caches (`create-watched-probe.ts`, `ttl-cache.ts`) | listings, watchers, entries with an expiry | ask, change of a directory, expiry, close | file system | a listing is read while the directory changes | no stale "missing" beyond the maximum age, counts match the listings |
| Lambdas (`node-lambda-invoke`) | the pool, folders | invoke, answer, time out | pool, client | outcomes race | one outcome per invocation, the lease released once |
| Servers (`create-server-reloader.ts`, `load-instances.ts`, `create-graceful-stop.ts`, `exit-handler.ts`) | loaded and retiring servers, open connections, listeners of the process | load, reload, retire, signals | file system, connections, pools | a reload during a stop, a second signal | a running server is never lost or closed twice, the stop ends |
| Target store (`create-target-store.ts`) | target, pending write | get, set, unset, save, restore | file system, requests | written behind, restarts | a restart finds the last saved target |
| File sink (`create-file-sink.ts`) | buffers, offsets, the chunk under way | log, flush, written | file system | a blocking flush during an asynchronous write | no line lost, doubled or torn |
| Certificates (`create-acme-renewer.ts`) | a check under way | look, issue | authority, reload | slow orders | no order twice |
| Static files (`serve-static-file.ts`, `read-small-file.ts`) | a cache of small files | one request | file system | the file is replaced under the request, and so is its compressed variant | tag, length, range and bytes are of one version |
| Routes and hosts (`virtual-host-router.ts`, `create-rules-handler.ts`, `create-route-table.ts`) | tables made of the configuration | one request | each other, by passing on | several tables must act like one list | the first entry that matches decides |
| Response (`patch-response.ts`, `start-compressing.ts`, `create-error-pages-handler.ts`) | a compressor, the places of the budget | head, parts, end, the close of either side | worker, proxy, client | three writers of one response, and its early end | one head, one body, each place given back, and once |
| Configuration (`find-*-problems.ts`, `validate-servers.ts`, `check-configuration.ts`, `load-instances.ts`) | the loaded servers, their ports and contexts | check, load, start, take over, a reload | the configuration, the files it names | the checks are far from the code they speak for, files change in between | what passes can be started, nothing else is refused |
| Service of the system (`node-webserver-service`) | the definition, what systemd or launchd knows and runs | add, remove, run | the service manager | steps that fail or are interrupted, a changed configuration | what runs can be removed again |
| Metrics (`metrics.ts`, `create-latency-histogram.ts`, `create-path-latency.ts`) | counts, histograms, sources | a request begins, finds its file, closes; a source comes and goes | the handler, the pools | three counts of one request, a client that leaves early | the numbers are true |
| Questions for the metrics (`create-metrics-waiting.ts`) | the promises that wait | ask, answer, end of a handler | server and worker | answers carry no number | an answer is the one to the question |
| Command line, tools | none | one start | | | tested well by examples |

The hazards that follow from this are listed in `PROJECT.json`, each at its line,
with the properties that look at it, or why none does.

## Modules and plan

| Module | What it models | Checked by | Proved |
|---|---|---|---|
| `WorkerPool` | pools that share a budget, their lines, their processes | `MCWorkerPool`: runs `shared`, `budget`, `lambda`, `life`, `overtaking`, `late`, `exited` | `WorkerPoolProofs` |
| `Delivery` | abstract: a way of a body or of messages | implemented by `Exchange` (twice) and `WebSocket` (twice) | both directions, by `ExchangeDeliveryProofs` and `WebSocketProofs` |
| `Queues` | how many places of a queue hold certain messages | `Exchange`, `WebSocket` and their runs | `QueueProofs` (lemmas) |
| `Exchange` | one request between client, server, channels and worker | `MCExchange`: run `exchange` | `ExchangeProofs`, `ExchangeDeliveryProofs` |
| `WebSocket` | one websocket, and the slots it shares with others | `MCWebSocket`: run `websocket` | `WebSocketProofs` |
| `Servers` | load, reload, retirement, stop and signals | `MCServers`: runs `servers`, `uncaught` | `ServersProofs` |
| `FileSink`, `TargetStore`, `Renewer`, `WatchedProbe`, `StaticFiles`, `Cache`, `Lambda`, `LambdaFolders`, `Frames`, `Routes`, `Response`, `Configuration`, `Service`, `Questions`, `Metrics` | parts that keep their state to themselves | `MCParts`: run `parts` | `LambdaProofs`, `PartsProofs` |

The order was: the pool, which everything waits for; the exchange of a request
and of a websocket, with the specification they implement; the servers; the
parts. Left, the most important first:

1. Proofs of more of the parts. `FileSink`, `Cache`, `WatchedProbe`, `Metrics` and `StaticFiles` fold over
   sequences and sets, and what a fold computes takes induction, so they wait for a prover that has it.
2. `WorkerPool`: what `prepareWorker` made and has undone; `NoPlaceWasted` and `KeptWarm` with pools that
   share a budget and more of the ends of a worker, as far as they hold there.
3. `Exchange` with a worker that calls its response callback from several places at once.
4. `Servers` with the closes of the other types of servers, and children that end
   by themselves.
5. A composition of `Exchange` and `WorkerPool` for two requests of one worker,
   which now meet in the meaning of a lease alone: `LeaseOutlivesConnection` there is what
   `StopSparesRequests` here needs.
6. A module of the proxy: the pooled connections to a target and what is retried.

Modules to prove about use no recursive operators, take every limit as a constant
and have one action per handler; a handler that does several things in a row
that look at each other's results is split only where something may come in between.

## The worker pool

`MCWorkerPool` has the instances for TLC: which pool serves which file, who asks for
what, and symmetries.

### The model

**Turns.** A handler of the pool runs to completion, but it does several things
one after the other that look at each other's results: the close of a process
removes it, wakes the line, wakes the lines of the other pools, looks whether the
pool is disposed of and refills the warm paths. Written as one formula this would
hide the order. So a handler is a *turn*: the action of the event does the first
thing and leaves a list of what follows in the turn variables (`offering`,
`waking`, `after`, `warming`, `refilling`); the actions of "The rest of a turn" do
it in the order of the code, one waiter, line or worker at a time; and no event
happens before the list is empty (`Quiet`). Each waiter of a woken line is one
step, so what the first one takes is gone for the second.

| Code | Module |
|---|---|
| `tryGetWorker`, `canStartWorker`, `makeRoom` | the cases `FindsIdle`, `Refuses`, `StartsWorker`, `Evicts`, `Shares`, `Waits`, and what they do: `TakeListed`, `TakeNew`, `TakeRoom`, `GetNothing`, `SpawnFails` |
| `acquire`, `serve` | `Acquire`, `Offer` |
| `WaitingLine.enqueue`, `wakeUp`, the timeout and the abort | `Acquire`, `WakeLine` with `Offer`, `LeaveLine` |
| `lease.release`, `lease.kill` | `Release` (`ReleaseLost` once the worker has ended), `Kill` |
| `createWorkerTimers`, `retire`, `onIdleTimeout`, the kill timer of `stop` | `StartTimeout`, `AgeTimeout`, `IdleTimeout`, `KillAfter` |
| `receive` of READY | `Ready` |
| `createWorkerCloseSteps`, `createRestartBackoff`, `watchWorkerUptime` | `Close` and its rest of the turn, `RecordFailure`, `BackoffOver`, `UptimeStable` |
| `warm`, `keepWarm`, `refill` | `Warm`, `KeepWarm`, `RefillTimer`, `Refill`, `WarmStart`, `WarmFails`, `WarmDone` |
| `dispose`, `onClose`, `stopIdleWorkers`, `checkDisposed` | `Dispose`, `DisposeTimeout`, `StopIdle`, `CheckDisposed` |
| `createWorkerBudget`, `createWorkerEviction`, `pickIdleWorker` | `BudgetHasRoom`, `IdleWorkers`, `Victims`, `members` |

A process is a slot of `Workers` that is used again after its close event. It is
"up", then one of `Ended`: with code 0, with another code, or by a signal, which
leaves the `exitCode` that `findAvailableWorkers` looks at `null`. Between the exit
and the close event the pool does not know.

**Left open** (every behaviour of the code is one of the model): which of the idle
workers was used longest ago, whose turn it is among equally loaded workers,
whether a waiter leaves by the timeout or by the abort of its client, when timers
fire. **Left out**: counters and statistics, the readiness promise of a lease
(the READY flag itself is there), what `prepareWorker` makes and has undone, the
`exit` listener of the process, and a second `dispose` of one pool. A request
whose worker ended releases its lease in a turn of its own (`ReleaseLost`), also
where the code does so within the close: the release does nothing to the other
leases, and wakes the line again.

**A worker that cannot be started** (`SpawnFails`, `WarmFails`): the request fails, the
victim of the eviction for it is stopped all the same. In `warm` the exception leaves
the handler: the line is not woken and no other warm path is refilled. It reaches the
caller of `warm`; out of a timer or the close of a worker it is an uncaught one, and the
model goes on as an owner would that survives it.

**Which events an instance has** is a constant (`Happens`, `Ends`, `Handshake`).
The proofs are about all of them, the runs about sets of events that meet.

### What the runs check

| Run | Instance | Shows |
|---|---|---|
| `shared` | one pool, two files, two places, four requests, four slots; crash, kill, age, idle, leave | `LeasedStayListed`, `StopSparesRequests` |
| `budget` | two pools with one file each, a budget of two, three requests, five slots; kill, warm, dispose, workers that cannot be started | `WithinLimits`, `NoLostWakeup` |
| `lambda` | the pool of a lambda: one request per worker, a line of one (the bound of the run: the code has no limit for it), the handshake, three requests and slots; crash, age, kill, kill timer, minimum uptime, leave | `NoPlaceWasted` |
| `life` | one place, two files of which one is kept warm; crash, backoff, disposal; with fairness | `KeptWarm`, `LineDrains`, `DisposalEnds` |
| `overtaking`, `late`, `exited` | see [code and documentation](#code-and-documentation) | a statement of the documentation that the code does not keep |

The properties, in the words of the code:

* `LeasedStayListed`, `StopSparesRequests`: four handlers stop workers (age,
  idleness, eviction, disposal), each after a look of its own at the load. A
  worker that has a request is never unlisted, and never stopped unless its
  request had it killed or the disposal ran out of time.
* `WithinLimits`: `overallLimit` per pool and the budget over all members, through
  evictions of a worker of one pool for another, warm starts and disposals.
  A start may fail after the eviction for it.
* `NoLostWakeup`: nothing polls, so a request that waits between two turns must be
  one that would wait again if it was woken now. It holds where workers take any
  number of requests. With `concurrency` 1 it does not (the age of a busy
  worker, a `kill` or the end of a backoff make a place and wake nobody, see
  `overtaking`; nor does an eviction whose start then fails, until the evicted process
  is closed), so the run `lambda` checks `NoPlaceWasted`: no request waits while a
  worker of its file has a place.
* `KeptWarm`, `LineDrains`, `DisposalEnds`: a warm file has its workers whenever there is
  room and no backoff; a line does not stand still for ever unless new requests
  keep coming; a disposal ends unless new requests keep coming.

**Bounds.** Two pools are enough for one pool to act on another, two files for an
eviction and two requests of one file for an order; a third and fourth
request make a line of two behind full places. Slots exceed the limits by
two or three, so that evicted processes are still ending while new ones start.
`MaxLeaving` bounds how many evicted processes may be alive when the next event
asks for more (0: at most the ones of the turn itself); without it their number is
unbounded, in the code too when processes ignore their signal. `CrashesToHold`
(2) caps the count of crashes: from the second one on only the delay grows, and
time is not modelled. Symmetry is used for slots and for requests of one file, in the runs of invariants;
`life`, which checks liveness, uses none.

**Fairness** (`FairSpec`). The event loop finishes a turn (weak fairness of
`RestOfTurn`). A process that was sent a signal exits, node reports the close of one
that exited, whoever holds a lease releases it (the response timeout, the
exit notice and the close of the client all lead to `release`), and the timer of a
disposal fires. Each is strong fairness: other turns interrupt it, but it stays
possible between them. Nothing is assumed of requests, crashes, timers of
workers or the owner; the acquire timeout is off in `life`, so the line has to
drain by itself.

## A request (`Exchange`)

### The model

One request with a body (`upload`), without one (`bare`) or with one that the
server gives away together with its connection (`give`). Two processes with three
ways between them: the channel in each direction, which keeps the order, and the IPC
channel of node, on which connections go and which has no order with the other
two. A step is one handler of one process; a message is put on its way in the step
of its handler and handled in a later one.

| Code | Module |
|---|---|
| `create-body-forwarder.ts`, BODY_ACK in `create-worker-message-listener.ts` | `UploadPart`, `UploadEnd`, `BodyTaken` |
| `create-worker-message-listener.ts` | `Respond`, `Emit`, `EmitAfterHandOff`, `StartHandOff`, `RequestHandOffDone` |
| `register-request-listeners.ts`, `serve-request.ts` | `Finish`, `ClientLeaves`, `Closed`, and the one `Cleanup` |
| `create-response-timeout.ts` | `timer`, `TimerFires` |
| `create-response-hand-off.ts`, `create-request-hand-off.ts`, `lease.handOff` | `StartHandOff`, `HeadWritten`, `SendConnection`, `ConnectionSent`, `ConnectionNotSent` |
| `create-worker-session.ts`, `create-request-contexts.ts`, `create-upload.ts` | `StartRequest`, `BodyPart`, `Acknowledged`, `AbortRequest`, `Refused`, `ReceiveConnection`, `Return`, `Throw` |
| `create-response-sender.ts`, `stream-response.ts` | `SendResponse`, `AskForConnection`, `StreamPart`, `StreamSettled`, `StreamEnd` |
| `create-handed-request.ts`, `create-hand-off-requests.ts` | `ReadHandedBody`, `WriteToSocket`, `SocketWritten`, `CloseSocket` |
| `access-logs.ts` | `AccessLogs`, a conjunct of every step |

A part of a body is its number, a response in one message is `Whole`, a text of the
server in the place of a response `ErrorText`. The HTTP around the bytes is left
out, and with it the split of a handed-over body between parser, socket and kernel.

### What the run checks

`exchange`: a body of four parts over a window of two and a stream with room for two,
a response of three parts over a window of two, all three kinds of requests and of
answers, a limit that any part may exceed, a timeout, a client that leaves at any time,
also before it is served, a source that fails, and a process that exits at any time.
Each part count is more than its window and the room behind it, so that both sides
have to wait; more parts only repeat the wait.

* `UploadPaced`: every part that the server counts as unacknowledged is under way,
  owed by the stream, or its acknowledgement is. So none is lost or counted
  twice, the window holds, and a worker that does not read has a bounded number of parts;
  a client that is paused is resumed when the worker reads.
* `LeaseOutlivesConnection`: as long as the process has the connection, the request is
  in its load. This is what `StopSparesRequests` of the pool relies on.
* `NothingForgotten`: when a request is over for the server and all messages have arrived,
  the worker has settled every promise, has dropped the context, and the response was
  logged once, however hand-off, abort and end met.
* `WorkerIsGivenBack` (liveness): the lease is given back, although client, function and process may do what
  they like. One end is excepted, `Stranded`: a client that leaves while the hand-off of its response waits
  in the IPC channel behind another one ([the finding](#code-and-documentation)).
* `ResponseIsDelivered`, `UploadIsDelivered`: the **refinement**. `Delivery` says what a way
  of a body promises: parts arrive in order, once, and a receiver that thinks
  the body complete has all of it and the sender said so. `Exchange` implements it in
  both directions (`Response` and `Upload` are the refinement mappings): what is given is
  what the function of the worker (or the client) handed over, what is taken is what the client
  (or the function) got, over whichever of the three ways. A response whose parts are all written counts
  as complete; one without parts (`Chunks` may be 0) only when it is ended, as there is no part
  that says so. A text of the server is no part of the response: where it stands, nothing of the response
  came, and the response is cut.

**Fairness.** Both processes handle what has come (`ServerStep`, `SessionStep`), the IPC
channel passes on (`SendConnection`), an armed timer fires (`TimerFires`), and node
closes a socket that was ended (`CloseSocket`); `StreamEnd` is the end that
`streamResponse` sends by itself when its source is done. Nothing is assumed of the client
or of the function of the worker; with the timeout on, the lease still comes back.

**Choices.** `IpcBusy` is TRUE: another hand-off may hold the IPC channel, so the client can leave between the
hand-off of its response and the step that sends it. Every property holds there too, `WorkerIsGivenBack`
with its exception; with FALSE it needs none. The run stops where everything is
over, so deadlock is not checked; that nothing hangs is `WorkerIsGivenBack`. `Awaits` is TRUE: the function of the
worker returns once its response is over; what becomes of others is under [what stays behind](#code-and-documentation).

## A websocket (`WebSocket`)

One connection from its upgrade request on, among `others` that take and give back slots of
the same file. The server's half is `create-ws-connection.ts` with `attach-web-socket.ts`
and `run-in-slot.ts`, the worker's `send-ws-message.ts`, `receive-ws-message.ts` and
`close-ws-connection.ts`. A message is its number, a close frame 0. The steps of the client
(`ClientSays`, `ClientTakes`, `ClientSilent`, `ClientLeaves`) and of the worker's function
(`AcceptUpgrade`, `RefuseUpgrade`, `Push`, `PushClose`, `HandleDone`) happen at any time or never.

`websocket`: two messages from the client over a window of one, two of which may come in
one chunk, two from the worker, two slots, pings on, exits on.

* `ClientPaced`: each unacknowledged message is somewhere, no more wait than the window and
  the chunk that filled it, and the client is paused exactly when the window is full.
* `SlotsCounted`: the slot is held exactly while the connection waits for a worker or has one.
* `TrueWhenTaken`: a promise that settles with true is of a message the client took, in order.
* `NothingForgotten`: a connection that is over in the server is over in the worker,
  which was told of the close exactly once.
* `GivenBack` (liveness): a client that is gone, also while it is paused, and a close of either
  side give slot and worker back. Fairness: `Resolved`, `Acquired`, both event loops, the
  notice of a socket that is gone and the timeout of the close.
* `MessagesAreDelivered`: both directions implement `Delivery`.

`LeavesEarly` is FALSE: with a client that leaves while its file is looked for, `GivenBack` is
violated (see [code and documentation](#code-and-documentation)).

## The servers

`Servers` has the process of the server: configuration files that are written at any
time, the watcher with its debounce, the reload in its steps (candidates, fingerprints, starts, take
over, watch), the retirement with its wait and timeout, the signals with their listeners
(a soft one and one that ends the process, as `exit-handler.ts` adds and removes
them), the uncaught exception, and the graceful stop. The servers are of the type with
most to lose: each has a child process and a port.

`servers`: two files, one there at the start, written twice with any of four contents
(good, does not load, starts and fails, gone), two ports, one request that takes
its time, two signals or exceptions, reload on SIGHUP. Two writes are needed for a file
to change during the reload of its change; two signals for a stop at once during a stop.

* `ChildrenAreKnown`: every child belongs to a server that is loaded or retiring, one loaded
  server per entry, and none outlives the process. Excepted: a server that failed
  after its process was spawned.
* `TakenRequestsAreServed` (of each step): a reload ends a child only when the requests its server took are
  answered or the timeout of its close is over.
* `ServersFollowFiles` (liveness): in the end the servers are those of the files. Excused: a file with a
  problem (of any entry, as one problem refuses the whole reload), ports that are
  used up, a process that stops, a write where no watcher looks
  (`missed`: before the first watch, or while the watchers are replaced).
* `RetiredAreClosed`, `StopEnds` (liveness): a retired server is closed, a stop ends the process,
  however long requests take.

**Fairness.** Timers fire and turns end. A request is only assumed to be answered (its
connection is gone) when the stop has run out of time, which destroys the connections.

`uncaught` expects a violation of `ExceptionEndsAtOnce`.

## The parts

Fifteen modules, each with a property about what its handlers do together. They share no state,
so `MCParts` runs them in one configuration: `part` says which, `s1` to `s17` are its variables.
A behaviour is one of one part, and the state space is the sum, not the product.

| Module | Code | Property | Instance |
|---|---|---|---|
| `FileSink` | `create-file-sink.ts`, `create-console-batcher.ts` | `LogIsComplete`: a file holds the lines of its level in order, once and without a gap, up to the chunk under way and the buffer, whatever order the thread pool, a full buffer, the timer and a blocking flush write in | two levels, four lines, a buffer of one line, a queue of two |
| `TargetStore` | `create-target-store.ts`, the control path and its rate limit | `TargetIsKept`: requests, the file and a restart find the target registered last; only its agent is left open | two addresses, three targets, one reload, one crash; a removal without a target waits behind at most one write |
| `Renewer` | `create-acme-renewer.ts`, `create-acme-client.ts` | `CertificatesAreRenewed` (liveness): every host ends with a certificate that is not due, and uses it | two hosts, two failures, one that ages, one crash |
| `WatchedProbe` | `create-watched-probe.ts`, `ttl-cache.ts` | `MissingIsRecent`: "missing" is never older than the caches allow, nor said of a name whose coming was reported; counts match listings | two instances: a limit of one directory, and one of two |
| `StaticFiles` | `serve-static-file.ts`, `read-small-file.ts`, `create-cache.ts` | `AnswerIsOfOneVersion`: tag, length, range and bytes are of one version | three versions, two of one second, two requests |
| `Cache` | `create-cache.ts` | `CacheIsPlain`: although the sweep stops at the first entry that is valid, size, bytes and values are those of a plain cache that sweeps everything, where entries share a ttl; a ttl of its own costs at most entries | three keys, values of one, two and four bytes in a cache of two entries and three bytes, ttls of one, two and none, a clock to three |
| `Lambda` | `node-lambda-invoke`: `invoke-lambda.ts`, `create-lambda-worker.ts` | `HandlerRunsAlone`: a handler has its process for itself and the whole body, a client one answer | two requests, two processes in turn |
| `LambdaFolders` | `track-lambda-folder.ts`, `sweep-lambda-folders.ts` | `FoldersAreKept`: no sweep takes a folder in use, nothing stays but what was left | two process ids, two names |
| `Frames` | `frames.ts`, `create-ws-frame-parser.ts`, `create-ws-reader.ts` | `FramesSurviveCuts`: messages come out whole and in order however the stream is cut; a wrong frame is refused when it is there | three frames of each format, every cut |
| `Routes` | virtual hosts, rules, redirects, HSTS, certificates by name, routes, files | `FirstInConfigurationDecides`: the tables give what the plain reading of the list gives | every pair of the hosts, every request of a small set |
| `Response` | compression, error pages, answers of a proxy | `AnswerIsOfOnePiece`: one head, a body that fits it, all of one encoding; a place of the budget is given back once, and a closed response keeps none, except for one that was answered after its close | two responses, of any source, answered before or after their close; one place |
| `Configuration` | every check, `load-instances.ts`, `setup-secure-contexts.ts` | `ChecksAreEnough`: what passes starts, what the check alone finds is what a start finds, certificates match keys | some fifty setups of one or two servers, one change, two loads |
| `Service` | `node-webserver-service` | `ServiceIsFound`: what runs or will be started can be removed; add and remove do all they say; why a command may fail | four configurations, three platforms, three commands, two troubles |
| `Questions` | `create-metrics-waiting.ts` and the handlers of a worker | `QuestionsAreAnswered`: who asks gets the answer to that question | a websocket with two messages, or a request |
| `Metrics` | `metrics.ts`, histograms, sources | `MetricsAreTrue`: counts, percentiles and sources are those of the requests and pools there were | three requests, two files of which one has a histogram, two bounds, two pools of one name |

`StaticFiles` has its own, simpler use of the cache, a file per entry; `Cache` leaves out the limits and ttls
that the code refuses with an error (`create-cache.ts`, a limit or a size that is no number).

What a property excuses, and why, is in the comment above it, and each excuse was
checked to be needed:

* `TargetIsKept`: a write that failed or was cut (`uncertain`), and a target that reaches a
  store after it was replaced (`late`).
* `AnswerIsOfOneVersion`: a file that is replaced between its `stat` and the read of its bytes (`raced`).
* `CertificatesAreRenewed`: no crash between the two renames of key and certificate, and
  no other file that is broken when the servers load again (`ReloadMayFail`).
* `LogIsComplete`: lines of a process that was killed, and of a blocking write that fails
  (`FlushMayFail`).
* `ChecksAreEnough`: files that change under a load, what the checks leave out (`Unchecked`), the page
  of unknown hosts that is gone at a reload, a definition in the configuration itself that is started again.
* `ServiceIsFound`: systemd does not start a running service again; launchd refuses what is loaded.
* `QuestionsAreAnswered`: questions that the end of another handler of a websocket has dropped.
* `AnswerIsOfOnePiece`: the place of a response that was answered, and compressed, after it closed (`Lost`).

`MCParts` has fairness for the renewer alone, the only part with a liveness property: the timer of the look
fires, every request ends (by its timeout at the latest), the authority goes on, and somebody
starts the server again. All parts come to an end where they have used up their bounds, so deadlock is
not checked.

## What is proved and by what argument

**The worker pool.** `WorkerPoolProofs` proves for every finite set of slots and any pools, files,
requests, limits and events (the assumptions `SetsAssumption`, `LimitsAssumption`, `EventsAssumption`):

| Theorem | States |
|---|---|
| `TypeCorrect` | `Spec => []TypeOK` |
| `LeasedWorkersStayListed` | `Spec => []LeasedStayListed` |
| `StopsSpareRequests` | `Spec => []StopSparesRequests` |
| `LimitsHold` | `Spec => []WithinLimits` |

Neither of the two properties about requests is inductive alone. A request may be given
to a worker only if the worker is listed, and a slot used again for a new process
must not be one that is still marked as stopping or held. So the inductive
invariant is `Safe`: `TypeOK`, `LeasedStayListed`, `StopSparesRequests`, and
`SlotsAreClean`, which says that a slot without a process is in no set of the
registry. The proof has one lemma per group of handlers and one step per action;
the central ones are that victims are idle (`VictimsAreIdle`) and that who shares a
worker shares one that is not stopping (`LeastLoadedTakesRequests`).
`LimitsHold` rests on `Safe` and on cardinalities: a started worker adds one to its
pool and to the budget where there was room, after the victim was taken out
(`CreateWorkerWithinLimits`), and fewer workers stay within the limits
(`FewerWithinLimits`), which covers closes, evictions and pools that leave.

Three more theorems say that nobody waits for what is there. Each has hypotheses, as each is false
without them, which TLC shows on small instances:

| Theorem | States | For |
|---|---|---|
| `NoWakeupIsLost` | `Spec => []NoLostWakeup` | workers that are shared (`Concurrency = 0`), every event |
| `PlacesAreUsed` | `Spec => []NoPlaceWasted` | one request per worker (`Concurrency = 1`), no start that fails or nothing kept warm (`WarmStartsSucceed`) |
| `WarmPathsAreKept` | `Spec => []KeptWarm` | pools without a budget, workers that are not killed, retired, idle for too long or impossible to start (`EndsByItself`) |

The properties are about the time between two turns, so their invariants say what a turn still owes.
`WaitersAreKnown`: who waits stands in the line of its own pool, and that line is about to be woken, or
there is no way in for the file (`NoWayIn`: nobody takes requests, there is no room and nobody to evict). It rests on
`EvictionMakesRoom`, for which `WithinLimits` is needed: a pool of the budget that finds a victim
has room afterwards, so `GetNothing` never means "evicted and still waiting" there. Whoever stops being of use without a
wake-up, an idle worker that is stopped, was of no use to any pool that waits. `PlacesAreKnown`
is of the same kind for workers with one request each (`OneRequestEach`); there a warm start makes a place too, and wakes the line only
when the whole path is warm (`Covered`, and one path is warmed at a time, `OneWarmed`). A start that fails in the middle
leaves the handler before it wakes anyone: with a path to be kept at three workers and a
limit, a request goes on waiting beside the worker that was just started. That is why `WarmStartsSucceed` is a
hypothesis. `WarmIsKnown`: a path that is kept warm belongs to its pool, and one that lacks a worker
is about to be looked at, being warmed or has its timer (`Attended`). The close of a process refills only when
nobody asked for that end (`create-worker-close-steps.ts:78`), so without budget a stopped worker has to be one of a pool that is disposed
of (`StoppedInDisposal`); a worker that is killed or too old is not replaced, which `EndsByItself` excludes.

**A lambda.** `LambdaProofs` proves `HandlersRunAlone` (`Spec => []HandlerRunsAlone`) for any requests, bodies, results and
number of processes, and whether or not bodies are limited; that `Nobody` is no request is its one hypothesis. The
process knows nothing of leases, it takes what it is sent, so what it works on is right only by the order of the messages. The
inductive invariant `IInv` says how a request gets out of the process: with its answer, behind which nothing of it follows
(`AnsweredLast`), or with an abort behind its last message (`Told`) and so in front of any message of the next request
(`InTurn`). A timeout sends no abort; it ends the process, which then is leased to nobody (`Leased`). So the first message
finds the process without any other request (`TakeKeeps`), and the handler runs behind the last message of its own
(`Whole`, `Ordered`). All of this is claimed of a process that is up or ending (`Works`); a new one starts with nothing (`Empty`). The
answers are the other half: whatever settles an invocation ends the lease in the same step, so nothing settles it again (`Answered`).

**The folders of lambdas.** `PartsProofs` proves `FoldersKept`
(`Spec => []FoldersAreKept`) for any process ids and names, from no assumptions. A removal under way must not be
one of a folder in use, so the inductive invariant `FoldersInv` adds to the two parts of the property (`InUse`,
`Accounted`) that a folder is tracked by the server in its name (`TrackedByOwner`), that a server
which tracks anything has its exit listener (`HookedWhenTracking`), and that what is being removed is not
tracked (`RemovedWhenClosed`). The run `parts` checks the same property on its instance.

**The target of a proxy server.** `PartsProofs` proves `TargetKept` (`Spec => []TargetIsKept`) for any addresses, limits,
reloads, crashes and failing writes; its hypothesis `Configured` says that the time to live is a number and that an address is
neither of the two marks the model has for a missing and a torn file (`"none"`, `"torn"`). The property speaks of the file when nothing waits to be written. The
inductive invariant `IInv` says what holds before that: the file, or the last of the writes that wait, is what was
registered last or has expired like it (`Written`), and this carries over because only the store
that serves has writes (`OneSaves`), each of which takes its turn behind the others. What waits and what is in the file has no number of an
agent (`Unnumbered`), and no two stores have agents of the same number (`Numbered`), so a store that is replaced retires
none but its own (`Connected`). A process that is down has one empty store, which `Down` states, as a restart begins there. Time is a step like
the others: a target that expires does so in the store and in the file alike (`LaterExpired`).

**The service of the system.** `PartsProofs` proves `ServiceFound` (`Spec => []ServiceIsFound`) for any configurations, platforms, commands
and troubles; its hypothesis `Versioned` tells the definition of a configuration from the one that stands for "not there". The property
speaks of the ends of commands; the inductive invariant `ServiceInv` says where a command is (`Underway`): which steps are left, that nothing of the service was
started or told to launchd before the last step of an add (`Adding`), and that a remove stops the service before it takes its
file away (`Removing`). So an interruption or a boot between any two steps leaves no service without its definition (`Found`). That launchd
has nothing loaded whose definition is gone (`Loaded`) is what lets a remove find the file behind `bootout`.

**A request.** The six theorems are about every size of a body, a response and the windows, and every choice of the
constants (`SizesAssumption`, `ChoicesAssumption`), with the IPC channel free or held by others (`IpcBusy`).

`ExchangeProofs` proves `LeaseOutlives` (`Spec => []LeaseOutlivesConnection`). A lease ends in one place, `Cleanup`,
which spares it as long as a hand-off is active. So the inductive invariant `IInv` has to say that the connection is
away from the server only within an active hand-off (`Lease`), and that a hand-off is only ended by what the worker says
after it closed the connection (`Handed`). What ends it are ordinary messages, the end of a streamed response or "done"; these
mean the connection only because nothing of a response is sent before the answer to the question for it (`SentSoFar`),
there is one question and one answer (`Question`), one connection on the wire (`Carried`), and a head that is
being written for the hand-off finds the connection still here or closed (`HeadFirst`). All of that is claimed while the process
is up; after its end nothing is left to be shown. One lemma per handler, most by `QuietKeeps`: a step that only adds or takes messages
which none of this is about.

It goes on with what the end of a request leaves. `NotedOnce` (`Spec => []LoggedOnce`): its response is in the
access log once when it finished, was cut after its hand-off, or the worker is done with it, and never twice. The
invariant `LogInv` says that each of these is noted in the step in which it comes about, and that none follows
another: a response that was cut after its hand-off has no connection to finish on (`CutOff`), and "done" comes once,
of a request that was given away as it came (`Given`).
`NothingIsForgotten` (`Spec => []NothingForgotten`) is what the worker keeps. Its invariant `EndInv` says of each part that
waits that its message, its place at the client (`unwritten`) or its acknowledgement is under way
(`Settling`: no more parts wait than those together), so with empty queues nothing waits once an end or an abort came; and that a lease ends with an abort on its way
to the worker, which settles all promises at once, or after the last part of the response came, behind which
nothing is sent that could be dropped (`Ended`). It has one hypothesis, `Awaits`, the function of the worker returns when its response is
done. The run has it, too; without it the property is false: a worker that streams on after it returned keeps its
stream when the request is aborted (the next chapter, "what stays behind").

`ExchangeDeliveryProofs` proves `UploadsPaced` (`Spec => []UploadPaced`) on top of `IInv`. The property counts what is under way, so the
inductive invariant (`PaceInv`) adds the parts that were read to the count of those that were not taken (`Accounted`), and
says in which order messages lie before the worker (`Tidy`): the request first, no part behind the end of
the body, no abort as long as the request is there. Else the worker would drop a part that the server counts. The lemmas
about `Among` say how a count changes when messages are added, taken or joined; each step of the body
changes two of the counts by the same number.

It also proves `UploadDelivered` (`Spec => UploadIsDelivered`): `Exchange` implements `Delivery` for the body
of an upload. Each step maps to `Give` (`UploadPart`), `End` (`UploadEnd`), `Take` (`ReadBody`), `Complete` (the `BodyPart` that
ends an empty stream), `Cut` (whatever destroys the stream or ends the process) or a stutter. `ReadBody` is a
`Take` only if the first part in the stream is the next of the body, so the invariant `WayInv` says where its parts lie: what was
read, then what is in the stream (`InStream`), then the messages to the worker (`Row`), up to the last one sent. That
is the last one that arrived as long as the lease is there or the body was ended; a part that was refused as too
big is the exception, after which nothing ends the body any more.

The other direction is `ResponseDelivered` (`Spec => ResponseIsDelivered`). Its steps at the worker map to `Give` (a part that is
sent), to `End` (the end of a stream or of the connection), to both at once (an answer in one piece), or to `Pass`
(a part written to the connection that was handed over, which is at the client in the same step); those at the client to `Take` or `Cut`, and
`Finish` to `Complete`. The client gets the next part only if
what it has, what is written to it and what lies before the server are one row up to the last part produced
(`WayDown`), with the end behind it. The invariant `DownInv` claims this as long as the server has lease and connection (`AtServer`) and says what replaces it elsewhere: a
request that was given back has finished, or the text of the server is all that is written (`GivenBack`); a connection on the
wire brought nothing yet, and what the worker wrote to it is what it produced (`Elsewhere`); and no
part is on its way before the first is sent, also once the process is gone (`SoFar`). That a response does not finish
before its end came is from `LogInv`; that it is not handed over after a part was sent is
the one question of `IInv`. The lemma `HowItStands` then computes the outcome for each place of the connection.

**A websocket.** `WebSocketProofs` proves all the run `websocket` checks but the liveness, for every number of messages,
window, chunk and limit of slots: `SlotsAreCounted`, `NothingIsForgotten`, `ClientIsPaced`,
`SettlesWhenTaken`, and `MessagesDelivered` (`Spec => MessagesAreDelivered`): both directions implement `Delivery`. The
invariants are laid on each other. `SlotInv`: slot and lease go together. `LifeInv`: nothing of a websocket is
sent before the request for it and the answer to that (`RequestFirst`, `AnswerFirst`); the close is the last message to the worker, which
gets it exactly once (`ToldOnce`). So no message is dropped as long as the lease lasts, and `PaceInv` can count what is on
its way. `UpInv` and `DownInv` say that the messages of a direction lie in a row: each queue goes on where the one
in front of it ends. `SettledInv`: the promises that wait are those of the next messages, and no more
acknowledgements are on their way than the client took messages.

`QueueProofs` has the lemmas about queues that these proofs and the ones of the exchange share: what appending, taking the
first and joining two queues does to the messages of a type (`Among`), to their number (`Count`) and to a row of numbers (`Consecutive`).

**The servers.** `ServersProofs` proves `ChildrenStayKnown` (`Spec => []ChildrenAreKnown`) and `RequestsAreServed`
(`Spec => TakenRequestsAreServed`) for any files, ports, writes, requests and signals
(`ServersAssumption`). That an entry never has two servers (`EachOnce`) depends on the reload looking at each
entry once, over all its steps: the servers that stay, what was loaded and what is left to look at are
of different entries (`LookedAtOnce`), but for the definition whose fingerprint is just being read. That no child outlives
the process (`ChildrenInUse`) depends on the kill of the children by the end of the process, and on a second signal
of any kind ending it as long as a stop goes on (`SecondSignalEnds`).

Only model-checked: the safety properties of the parts but `HandlerRunsAlone`, `FoldersAreKept`,
`TargetIsKept` and `ServiceIsFound`, and all liveness, as the prover has no
rules for fairness and ENABLED. `Frames`, which has recursive operators, is out of the prover's reach.

## Code and documentation

Four runs expect a violation, each of a sentence of the repository:

* `overtaking`: "requests that find all lambdas busy wait in line, first come first
  served" (`node-lambda-invoke/README.md:80`). `acquire` tries for a worker before it
  looks at the line (`worker-pool.ts:438`). With two places, one used by a lambda
  that is being stopped and one by a busy lambda, a request waits; the busy one
  reaches its age, which makes the first one's place available to whoever asks, wakes
  nobody, and the next request that comes gets it.
* `late`: "A request that still comes gets a lambda that stops after it"
  (`node-lambda-invoke/README.md:48`). After the disposal is over `onDisposed` is no
  longer set, so a release stops nothing (`worker-pool.ts:395`); the lambda stays until
  its maximum age.
* `exited`: "does not hand out a worker that already exited"
  (`worker-pool.test.ts:328`). True of an exit code, not of a signal
  (`worker-pool.ts:323`).
* `uncaught`: "A second signal, an uncaught exception, SIGUSR1 and SIGUSR2 end the process at
  once" (`docs/behaviour.md:35`). The listener of an uncaught exception raises SIGINT at its own
  process (`exit-handler.ts:45`), which stops softly and waits for the requests.

Met while modelling, without a run; the first ones are the worker pool's:

* The limits are about listed workers: while evicted ones end, more
  processes run than `overallLimit` says (`node-worker/README.md:67`).
* With a handshake a worker is handed out before it is ready, and the lease waits
  for it; the comment at READY says "hands the worker out only after that"
  (`pool/constants/index.ts:4`).
* A READY that arrives after the start timeout killed the worker makes its close no crash
  (`create-worker-close-steps.ts:56`), where the README counts a late start
  as one (`node-worker/README.md:76`).
* "no worker is started after the pool was closed" (`worker-pool.ts:65`) is true of
  warm starts, not of `acquire`.
* A pool without a worker that is disposed of while its requests wait for room in the
  budget leaves it at once; nobody wakes its line then. `LineDrains` fails with
  two pools and a disposal, and is checked for one pool.
* A warm path that gave its room to another file is refilled when a worker of its own
  pool ends by itself, not when one is stopped or when another pool frees room
  (`create-worker-close-steps.ts:78`, `docs/behaviour.md:13`). So `KeptWarm` is checked
  for one pool.
* `keepWarm` may come after the disposal, as it waits for the file system
  (`node-worker-express/src/utils/warm-paths.ts:18`): its worker is nobody's to stop.

Of a request and of a websocket:

* `create-lease-acquirer.ts:20` listens for the close of the response when the lease is asked for. A client
  that left before, while the target was looked up or a small body read, is not noticed: a request
  stays in line, and for a websocket slot and lease are never given back (`run-in-slot.ts:1`:
  "so no way out of here leaks it"). The constant `LeavesEarly` of `Exchange` and `WebSocket`.
* A client that leaves while the hand-off of its response waits in the IPC channel behind another one costs the
  lease: the cleanup takes the close for the one of a connection that was handed over (`serve-request.ts:92`), the timer is cleared
  (`create-response-hand-off.ts:72`), the message goes without the connection, and the worker passes over it
  (`create-hand-off-requests.ts:30`) and waits for ever, against `serve-request.ts:28` "until the request is
  over and the worker and the slot are given back". `WorkerIsGivenBack` excepts it as `Stranded`; without the
  exception the run `exchange` finds it.
* `stream-response.ts:35` says an error of the source is seen as a truncated response; in a chunked one
  the end that is sent for it makes it complete.
* The end of a handler clears the questions for the metrics "the request is over"
  (`create-metrics-waiting.ts:21`); for a websocket it is not over, and the message whose handler asked is never
  acknowledged (`create-worker-session.ts:92`). `QuestionsAreAnswered` excuses these.
* A websocket frame that is not valid takes the valid ones in front of it in its chunk along
  (`create-ws-frame-parser.ts:98`), though frames are said to come out "whatever the way the socket
  split them".

Of the servers:

* A server that fails after its child was spawned is not known to anybody (`load-instances.ts:62`), nor are the servers
  of a reload whose page of unknown hosts is gone (`create-server-reloader.ts:65`), though "what was started is stopped again"
  (`load-instances.ts:47`).
* Ports that servers with children took are never given back (`ports.ts:25`).
* `check-configuration.ts:26` promises "Everything wrong with a configuration"; the port and the authorities of
  a child's target and a path that is too long pass and fail at the start (`find-child-problems.ts:12`).
* The port chosen for a child stays in its definition; after a failed start its arguments are told the
  literal `%PORT%` (`middlewares/proxy.ts:25`).
* A crash between the renames of key and certificate leaves two files that do not fit, with which the server
  does not start (`write-certificate-files.ts:15`).

Of the answers:

* The answer of a proxied app has its head as a list and is never replaced by an error page
  (`create-error-pages-handler.ts:42`), against `node-webserver/README.md:422`.
* With an error page in the place of a streamed answer, the callbacks of its parts are dropped, so the worker
  stops after a window of parts and the client waits for the timeout (`create-error-pages-handler.ts:59`).
* A response that is answered after it closed and is compressed takes a place of the budget that nothing gives
  back (`start-compressing.ts:16`): its close has gone by, and the first write pauses the compressor. `start-compressing.ts:6`
  says the place is held "until it ends or the client is gone". The proxy does it by itself: the close destroys what it
  asks the target (`proxy-request.ts:100`), whose error answers 502 (`proxy-request.ts:79-82`), with an error page big enough.
  `AnswerIsOfOnePiece` excepts these places as `Lost`.
* `create-context-lookup.ts:10` says it finds certificates "the way the virtual host router matches hosts: an exact name
  first"; the router takes the first of the configuration.
* A path below the file of an index worker starts a worker for a file that is not there (`resolve-path.ts:31`).

Of what stays behind:

* "One that still streams cleans up after its last part" (`create-worker-session.ts:90`): of a worker whose
  function returned while a part waits, and whose request is aborted then, no part is the last. The abort
  settles what waits and leaves the stream in the context (`create-worker-session.ts:69`), and an aborted stream
  sends nothing any more (`create-response-sender.ts:42`), so the context stays as long as the process. TLC finds it
  with `Awaits` set to FALSE, as a violation of `NothingForgotten`.
* A server with the process id of one that was killed never sweeps that one's folders (`sweep-lambda-folders.ts:22`),
  against `track-lambda-folder.ts:9` "the next server sweeps them".
* A second `--add` on Linux leaves the service with the definition of before (`get-service-files.ts:40`),
  and a remove on macOS that was interrupted cannot be repeated (`remove-service.ts:17`).

## What is not modelled

`PROJECT.json` lists every part with its status and what of it is left out. Parts as a whole: the
tools, docs and workflows of the repository, and the arguments of the command line (a table of names). Left out
of modelled parts, as they compute without state or belong to node:

* The headers that a proxy forwards, and the streams of node between a client and a target.
* The HTTP that the worker writes on a connection it was given, and the split of a handed-over body between parser,
  socket and kernel.
* The reading of a small body before the lease, listings of directories, the events and contexts that a lambda gets,
  signatures and requests of certificates.
* The delay of the event loop and the memory, which the metrics read from node, and their text formats.

Some behaviours are known and outside the bounds or choices of a run:

* A worker that exits after its whole answer was written and before `finish` cuts the answer
  off: the close of the process destroys the response.
* `getMetrics` that is asked after the response is not settled, as the listeners are gone.
* `Response` has no HEAD requests, which are never compressed (`decide-compression.ts:31`); `FileSink` no lines that
  are dropped because too much waits for the file, which are still printed (`create-logger.ts:29`); `Routes` no client
  that names one host in its handshake and another in its request, so a `Host` is the name of the certificate too.
* A callback-style worker that streams after its function returned, or from several places at once
  (`create-response-sender.ts:44`).
* The `drain` of a compressor is not passed on to a writer that waits for it on the response
  (`start-compressing.ts:29`, `patch-response.ts:58`); no writer of the repository does.
* The graceful stop closes the loaded servers, not the retiring ones, whose children end with the process
  (`setup-shutdown.ts:17`); a child that ends by itself is not started again.
* A cached small file that is replaced in the same second by one of the same length is served
  from the cache (`read-small-file.ts:22`), and `If-Modified-Since` cannot tell the two.
* A request that was handed over, and whose worker ends before it is done, is in no access log
  (`access-logs.ts:65`).
* A request whose file becomes known only after its response closed is in no histogram of a file.

## Running it

    tlc -workers 2 -config WorkerPool_shared.cfg MCWorkerPool.tla
    tlc -workers 2 -config Exchange_exchange.cfg MCExchange.tla
    tlc -workers 2 -config Parts_parts.cfg MCParts.tla
    tlapm WorkerPoolProofs.tla
    tlapm LambdaProofs.tla
    tlapm PartsProofs.tla
    tlapm ExchangeProofs.tla
    tlapm ExchangeDeliveryProofs.tla
    tlapm QueueProofs.tla
    tlapm WebSocketProofs.tla
    tlapm ServersProofs.tla

The run of each configuration is the name behind the underscore of its file; the first part of it names the
module `MC...`. The longest one (`parts`) takes two to three minutes on two cores. In each module the operators with the
comment `Mutant` are changed forms of the definition next to them; `PROJECT.json`
says which property fails with which, and nothing else uses them.
