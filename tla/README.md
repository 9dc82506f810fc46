# Verification of silent

TLA+ models of the parts of `silent` in which processes, callbacks, timers and
limits meet, TLC runs that check them on small instances, and TLAPS proofs of
the properties that matter most for every instance. All source paths below are
relative to `src/silent/src/`. `PROJECT.json` maps every definition to the lines
it models and lists runs, mutants, findings, hazards and theorems.

## 1. Inventory

| Component | State | Operations | What makes it correct |
|---|---|---|---|
| Accept loop (`server/net_server.rs`) | JoinSet of connection tasks, semaphore, refill task, signal future, shutdown phase | startup, biased `select!` (signal, accept, join_next), graceful wait, stop of the refill task, abort, forced join | no permit is lost and the bucket stays bounded; nobody is cancelled during the grace period; nothing outlives `serve`; every shutdown ends |
| Listeners (`server/listener.rs`, hybrid listener of `server/quic/listener.rs`) | bound sockets, round-robin index, one `BackoffState` per listener | `listen`, `accept`, `on_error`, `on_success` | no connection vanishes; fair rotation; the backoff ends |
| TLS store (`server/tls.rs`) | certificate chain and key behind an RwLock | `reload`, `https_acceptor` | chain and key belong together; a reload counts from the next handshake on |
| Metrics (`server/metrics.rs`) | process-wide counters | `record_*` | counters agree with what happened |
| HTTP/3 request (`server/quic/service.rs`) | request stream, mpsc channel of 8, reader task, handler, response | `read_http3_body`, `handle_http3_request_impl` | the handler sees a prefix of the body, within the limit, and knows whether it is complete; no mutual waiting |
| QUIC connection (`server/quic/service.rs`, `server/quic/echo.rs`) | accept loop, one detached task per request, WebTransport session | `handle_quic_connection`, `handle_webtransport_request`, `EchoHandler::handle` | an echo is whole or absent; a lost connection leaves nothing behind |
| Datagram limiter (`server/quic/core.rs`) | tokens, time of the last refill | `refill`, `try_send_datagram`, `recv_datagram`, `recv_data` | rate held in every window |
| Scheduler (`scheduler/`) | task list and stop flag under a mutex, `SCHEDULER_RUNNING` | add, remove, stop, `run`, `schedule`, `ensure_scheduler_running` | one loop per process, due tasks run |
| RateLimiter middleware (`middleware/middlewares/rate_limiter.rs`) | tokens and time under a mutex | `try_acquire`, `retry_after_secs` | bounded admission per window; `Retry-After` is honest |
| Routes (`route/`) | tree of `Route`s, frozen `RouteTree` | `append`, `hook`, merge, conversion, dispatch | the handler chosen really matches; captures and middleware chain are those of the pattern |
| Sessions and cookies (`session/`, `cookie/`) | session store, jar of the request, jar of the response, `session_key_exists` | parse, load or create, handler, merge | a live session is found; the cookies of the response belong to the session that was used |
| WebSocket (`ws/`, upgrade part of `hyper_service.rs`) | oneshot, upgrade task, two detached tasks and a channel | `on_connect`, `on_send`, `on_receive`, `on_close` | messages in order; callbacks in order, once each; every task ends |
| Request body (`core/request.rs`, `core/req_body.rs`, `core/form.rs`) | body variant, bytes counted, three `OnceCell`s, temporary files | `json_parse`, `form_parse`, `form_data`, `take_body`, drop | limit held; only whole bodies are parsed; a parsed body is kept; uploads are removed |
| SSE (`sse/`) | keep-alive timer | `poll_next` | not modelled |
| Responses, extractors, static files, gRPC, templates, configuration, OpenAPI | sequential data | conversions | not modelled |

How they interact. `Server` delegates to `NetServer`, whose loop awaits
`Listeners::accept` inside a `select!`: the other branches cancel the accept
future, which is why `Listeners` models the cancellation. The loop spawns one
task per connection; the task waits for a permit of the shared semaphore and
calls the `ConnectionService`, normally a `RouteConnectionService`, which hands
requests to a `RouteTree`. Middlewares, `RateLimiter` among them, run on the way
down the tree, as do the cookie and session middlewares and `Timeout`, which
drops the future of a handler wherever it is (`Session`, `RequestBody`). An HTTP/1
connection may leave the request for a WebSocket through the upgrade oneshot. QUIC
connections spawn one detached task per request (`QuicConnection`): a plain one
(`H3Request`), or a WebTransport session with its datagram limiter. The first
`NetServer` of the process also starts the scheduler's loop.

What is hard here: cancellation at every await of a `select!`; a semaphore fed
from three sides; a shutdown in four phases against tasks in any state; two
tasks joined over a bounded channel; values read before an await or an unlock
and used after it; clocks read twice; a tree merged in any order and matched
without backtracking. The `hazards` of `PROJECT.json` list them line by line.

## 2. Modules

| Module | Models | Composition |
|---|---|---|
| `Lifecycle` | abstract server: open, admit, drain, close | implemented by `NetServer` |
| `NetServer` | `serve_connection_loop`, its tasks, refill task, metrics | `INSTANCE Lifecycle` |
| `CertStore` | `ReloadableCertificateStore` and the operator's files | extended by `Listeners` |
| `Listeners` | `ListenersBuilder::listen`, `Listeners::accept`, `BackoffState`, TLS and hybrid accept | extends `CertStore` |
| `H3Request` | one HTTP/3 request | |
| `Datagram` | WebTransport datagram limiter | extended by `QuicConnection` |
| `QuicConnection` | one QUIC connection, its request tasks, one session in detail | extends `Datagram` |
| `Scheduler` | scheduler and `ensure_scheduler_running` | |
| `RateLimit` | RateLimiter middleware | |
| `RouteTree` | registration, merge, conversion, dispatch | |
| `Session` | cookie and session middlewares, store, one browser | |
| `WebSocket` | upgrade, `WebSocket::handle` and its tasks, peer | |
| `RequestBody` | body, parsers, uploads of one request | |
| `NetServerProofs`, `ListenersProofs`, `H3RequestProofs`, `QuicConnectionProofs`, `SchedulerProofs`, `SessionProofs`, `WebSocketProofs` | theorems | extend the module and TLAPS |
| `RequestProofs` | theorems about what a request meets before and in its handler | extends `RateLimit`, `RequestBody`, `RouteTree` and TLAPS |
| `MC...` | sets, symmetry and inputs for TLC | extend the module |

An operator whose comment begins with *Mutant* is a deliberately wrong variant of
the definition that follows it. It is used by no specification; it is there to
show that a property can fail.

### NetServer

`pc` is the place in `serve_connection_loop`: `start`; `arm` (top of the loop,
where `select!` creates the futures), `poll` (they are polled in order) and
`parked` (all pending); `graceful`, `stop_refill`, `abort`, `forced`; `done` or
`failed`. `task[c]` follows the spawned task: `spawned`, `waiting` for a permit,
`granted` one but not polled since, `running` the handler, `ended`, `joined`.

| Action | Code |
|---|---|
| `Start`, `ListenFail` | lines 467-494 |
| `Arm`, `Signal`, `SignalBreak` | creation of `shutdown.signal()`, delivery, first branch |
| `AcceptOk`, `AcceptErr`, `JoinNext`, `Park`, `Wake` | the other branches, and all pending |
| `TaskStart`, `TaskResume`, `WaitTimeout` | `timeout(max_wait, acquire_owned())` |
| `HandlerOk`, `HandlerErr`, `HandlerTimeout`, `HandlerPanic`, `Cancel` | ends of the task |
| `RefillCheck`, `RefillAdd` | the two unsynchronised halves of a tick |
| `GracefulJoin`, `GracefulEnd`, `StopRefill`, `AbortAll`, `ForcedJoin`, `ForcedEnd` | shutdown |

tokio's semaphore is external: `AddPermit` gives a returned permit to a queued
waiter before it becomes available. tokio queues waiters in order; the model lets
any of them be next, which allows more behaviours. A `signal()` future sees only
signals delivered after its creation, as tokio documents. Timers may fire at any
time once started. The semaphore is never closed, so that branch of the task is
unreachable and absent; so is `accept` returning `None`, which takes an empty list
of listeners: the type invariant of `Listeners` excludes it once `listen` returned.

### Listeners, CertStore

`wait[i]` is the time left until `next_ready`, so that no clock is needed. The
accept future is `await`, `handshake` (TLS, inside the same future) or `sleep`.
`JoinCancels` is the `join_next` branch winning while the accept future is
pending: it is dropped with what it holds. `TakeQuic` is the QUIC half of
`HybridListener::accept` winning its own `select!`, which drops the TLS half in the
same way. The signal branch ends the loop and is left to `NetServer`.
After the operating system has handed over a connection, `set_nodelay` and `local_addr`
can still fail and drop it with an error (`TakeBroken`).

`CertStore` gives `reload()` its three steps (`LoadCert`, `LoadKey`, `Swap`, or
`LoadFail`) between those of an operator who installs either file at any time or leaves
one half written. A damaged file is rejected when it looks like PEM; anything else is
taken for DER and loaded without an error (`Garbage`). `TakeTls` makes the acceptor from
the store for each connection of a reloadable listener; rustls refuses garbage and a key
that does not belong to the chain, and the connection already taken is dropped
(`TakeUnusable`). Reloads come one at a time. That `reload()` returns `Ok` without a
swap when the lock is poisoned (`server/tls.rs:183`) is left out: nothing done under the
lock can panic.

### H3Request

A chunk is the range of bytes of the body it covers, so that loss, repetition and
reordering show as gaps; `sent` has what the client sent, `received` how much of it
h3 has handed to the reader. `reader` is the state of `read_http3_body`, `held` the
item its `send().await` delivers, `writer` the place in
`handle_http3_request_impl`, `rx` who owns the receiver. A handler may read any
part of the body, return a response of its own (dropping the receiver), hand the
rest of the body to the response, or panic. A body read to its end may be handed over
too: its stream ends a second time (`PopEnd`). The writes (`WriteStep`) wait for the
client, without a timeout.

### Scheduler

`RunPass` is one `run()` under the mutex: a job for every task, then the due
one-shot tasks leave the list. `RunTask` is the spawned thread or future, with
its own call of `is_active`. `CheckStop`, `ResetStop` and `Exit` are the separate
critical sections at the end of `schedule` and `ensure_scheduler_running`.
`RuntimeDropped` is the end of a loop at one of its awaits, when `NetServer::run`
returns and drops the runtime it built: `SCHEDULER_RUNNING` stays set.

### RateLimit

Time is in ticks. A token is worth `Unit` ticks of refill, so that all amounts are
integers; the rounding of `f64` is abstracted. `Observe` starts the window the
bounds speak of, at any moment.

### QuicConnection, Datagram

`loop` is `handle_quic_connection`, `task[r]` the detached task of a request:
resolving, then `plain` (served as in `H3Request`), or `answering` the extended
CONNECT, `opening` (the empty first datagram), in the `session`, `replying`. One
request, `Focus`, is followed down to its bucket and its stream; sessions share
nothing else. Its handler is the default echo (`EchoChunk`, `EchoOver`, `EchoEnd`,
`EchoErr`, `Reply`) or one of the user's, which makes the calls of the stream in any
order (`UserCall`, `UserCut`, `UserReturn`). `Datagram` keeps the division by whole
seconds of `elapsed.as_secs()`, and `recv_datagram` is two steps around its await.
`Observe` opens a window of observation at any moment, and `charged` counts the tokens
taken in it.

### Session

A jar is a partial function from cookie names to values. `Send` copies the
browser's cookies, `WithCookie`, `WithoutCookie`, `Load`, `LoadMiss`, `Reload` and
`StoreFail` follow `SessionMiddleware` through its awaits, `Handler` chooses how the
response deals with cookies (leaves them alone, a fresh jar, a copy of the request's
jar, one with a removal), `Over` lets the cookies of one jar replace those of another,
`Merge` is the way back through both middlewares to `Set-Cookie`. `Drop`
cancels a request or loses its response anywhere. `PerConnection` says whether the
store lives as long as the service or as long as the connection.

### WebSocket

`service` and `oneshot` are `HyperServiceHandler::call` and the task it spawns,
`task` the upgrade task, `sender` and `receiver` the tasks of `WebSocket::handle`,
`queue` and `txs` the channel and who still holds a `Sender`. Callbacks, the
middlewares that may take the upgrade slot or fail the request, and the holder of
the channel are user code and choose freely. The socket is external: writing fails
after a close frame in either direction or on a broken connection, and reading ends
after an error.

### RequestBody

`variant` is the `ReqBody` in the request, `taken` the one a reader has moved out of
it, `cache` the three `OnceCell`s. A call answers from its cache, refuses the content
type, finds no body, or takes the body (`TakeBody`) and awaits the client; `Cancel`
drops one call, `Gone` the request. `FileBegin` and `FileEnd` are the two halves of
`FilePart::create`, `RemoveUpload` the thread of its `Drop`. A chunk is a range of
bytes, so the length of a body is where its last chunk ends. `collect()` reads to the
end of the stream, a multipart parser to the closing boundary (`closing`, the chunk that
has it; `Complete`), wherever the client is by then. `UserTake` and `ReplaceBody` are a
handler that takes the body, reads some of it and puts the rest back.

### RouteTree

A path is a sequence of tokens, slashes and names, so that empty segments and trailing
slashes keep their meaning; what is not matched yet is an offset into it, as in the
code. A segment is its text; `Special` gives the kind and the key of the ones in angle
brackets, so that `<id>` and `<name>` are siblings of one kind, tried in the order they
were added. Siblings differ in their text, so a node is named by the segments that lead
to it, the root's own first (`""`, or what `Route::new` was given), and a `Route`, and
the tree made from it, is a function on these names; what the code does by recursion
over the tree (`merge_from`, `into_route_tree_with_chain`) is then a definition node by
node.

| Definition | Code |
|---|---|
| `Kind`, `RootRoute`, `AppendRoute`, `NewRoute`, `MergeChild`, `InsertHandlers`, `MergeFrom`, `Merge` | `parse_special_seg`, `Route::new`, `append`, `merge_child`, `merge_from` |
| `Convert`, `IntoTree`, `HookFirst`, `Inherited`, `MiddlewareStart` | `build_route_tree`, whose own middlewares come first, and the chain each node inherits |
| `StripOneSegment`, `Captured`, `FullCapture`, `CallPathOnly` | matching one segment |
| `Candidates`, `CanResolve`, `Resolving`, `TriedNoLater` | `candidate_indices`, `path_can_resolve`, the loop of `call_children` |
| `CallTree`, `Descend`, `BindParams`, `Conclude` | the root, one level down, the handler of the node or 404 |

A request is walked down one node per step, with its middlewares (`ran`; 0 stands for
those of `build_route_tree`) and its parameters (`params`, where a later one of the same
key replaces the earlier). At the end of the path `strip_one_segment` returns an empty
literal, and `slice_range` (`route/route_tree.rs:521`) takes the distance of that
literal to the path: `Captured` chooses between the two ranges that gives, the empty one
at the beginning and one outside the path, on which `PathSlice::as_str` panics.
The `HashMap` order of static children is immaterial: at the end of a path no static
child matches.

The properties compare the result with `Matches`, which says by a cut of the path into
one piece per segment what a pattern stands for, without looking at trees or offsets.
`Greedy` is the part of that definition that a proof added: on `/b/c` the code never
lets `<*>` go without a name while names are left, so `/<*>/b/c` does not stand for it
(see section 4).

## 3. Runs

All runs set `CHECK_DEADLOCK FALSE`: a server with no client, a request whose
client is silent and a system whose bounds are used up all stop for good reason.
That nobody waits who should not is stated by the liveness properties.

| Run | Bounds | Shows |
|---|---|---|
| `NetServerLimiter` | 3 connections, 1 permit, 2 refills, 1 signal, handlers that may run forever | `PermitConservation`, `BucketBounded`, `CancelOnlyAfterGrace`, `QuiescentWhenDone`; liveness: `ShutdownCompletes`, `ParkedSignalStops`, `WaiterResolves` |
| `NetServerLifecycle` | 3 connections, no limiter, handler timeout | `ImplementsLifecycle` (refinement of `Lifecycle`), `MetricsAgree` |
| `Listeners` | up to 3 listeners, one reloadable, one hybrid; 2 connections, 2 errors, 2 certificates | `ConnectionConservation`, `RotatesSelection`, `FreshCertificate`; liveness: `BackoffEnds` |
| `H3Request` | up to 4 chunks, channel of 2, limit 5 | `BodyIntact`, `EndMeansComplete`, `NoResponseAfterBadBody`, `ResponseComplete`, `WriterNeverStuck`; liveness: `JoinEnds` |
| `QuicConnection` | 2 requests, rate 2, 2 seconds, 5 calls, 2 chunks | `WithinRate`, `EchoWhole`; liveness: `LostConnectionEnds` |
| `Scheduler` | 3 ids, 2 servers, 3 calls, 2 periods | `OneLoop`, `FiredRuns`; liveness: `StopEnds` |
| `RateLimit` | 5 requests, 2 tokens, 9 ticks | `WindowBound`, `RetryAfterHonest` |
| `RouteTree` | all pairs of 43 plain patterns and 12 registrations with hooks, other methods or more segments, under the root `""`; pairs under three other roots; 14 paths | `DispatchSound`, `CapturesAgree`, `ExactStaticWins`, `NotFoundOnlyAtPrefix`, `MiddlewareChain` |
| `Session` | 3 requests, 2 connections, 3 sessions | `SessionFound`, `CookiesFollowSession` |
| `WebSocket` | 3 messages out, 2 frames in, every choice of callbacks | `DeliveredInOrder`, `CallbackOrder`; liveness: `TasksEnd` |
| `RequestBody` | limit 3, up to 3 chunks, 3 calls, 2 files | `WholeBody`, `KeptParse`; liveness: `UploadsReleased` |

Why the bounds are enough to be interesting: three connections and one permit
give a holder, a waiter and one that arrives late; two refills overfill the
bucket; two errors in a row take a backoff to its maximum; two certificates are what a torn
reload mixes; more chunks than the channel holds make the reader wait; two servers
race for the scheduler; two patterns are what a wrong choice between routes takes;
requests on two connections meet over one session; one call reads a body, the next
finds what is left, and the third what was kept.

The type invariants of the modules say no more than which values a variable takes.
They were checked on the same instances while the modules were written (`Session`'s,
whose cookies range over all naturals, is only proved), and all but that of `Listeners`
are theorems; `RouteTree` has its types in `RouteInv`.

No passing run has both a limiter and a handler timeout: with a timeout every
handler ends by itself, and the liveness properties would hold even without the
abort and the limit on waiting. For that combination the safety properties rest on
the theorems, which cover every configuration.

`StopEnds` speaks of a loop that sleeps or is about to look at the flag, since a stop
that comes during a pass is seen only after the sleep that follows it, and of sleeps
that end within the modelled clock. `JoinEnds` is stated for what can be true: when the
response streams the request body, it holds if what is left of the body fits the
channel. When it does not, the reader waits for room that only the response would make,
and the response is sent only after the reader has ended. The condition is explicit in
the property. Once the reader is joined the response depends on the client alone;
`WriterNeverStuck` says that the server never holds it up. The clients of `H3Request`
and `QuicConnection` may be silent for ever, and so may code of the user:
`LostConnectionEnds` speaks of the tasks and futures of this repository, and leaves out
the handler of a plain request and a session handler of the user, which nothing cancels
when the connection is lost (`server/quic/service.rs:78`).

### Disagreements between documentation and code

The run `SessionConnections` checks `SessionFound` with `PerConnection` set, as it is
when a `Route` is itself the connection service, the use that
`server/route_connection.rs:34` recommends, and finds it violated: each connection
has a store of its own, and a session created on one is unknown on the next, although
line 53 says that the tree is built once and shared by all connections.

Also seen while modelling, translated into the models as the code has it, but
without a run of its own:

- refilled and returned permits together can exceed the capacity that
  `server/net_server.rs:89` calls the largest burst (line 717 looks at the permits
  available, not at those held);
- a signal that arrives while the loop runs the body of another branch is forgotten,
  since `shutdown.signal()` is created anew in every iteration
  (`server/net_server.rs:499`); `ParkedSignalStops` states what remains true;
- `NetServer::run` drops its runtime, and with it the scheduler's loop, without clearing
  `SCHEDULER_RUNNING` (`server/net_server.rs:433`): no server started later in the
  process has a scheduler;
- a damaged certificate or key file that does not look like PEM is loaded as DER with
  `Ok` (`server/tls.rs:211`); it is refused, with the connection, at the next handshake;
- a `<*>` for which nothing is left captures an empty literal
  (`route/route_tree.rs:487`), and the range `slice_range` computes for it may lie
  outside the path, where reading the parameter panics (`core/path_param.rs:179`); the
  test at `route/route_tree.rs:903` demands a sub-slice of the path;
- a multipart form is parsed and kept as soon as its closing boundary was read
  (`core/form.rs:45`), so that a limit or an error behind it goes unnoticed;
- a one-shot task can run twice, by a late job of an earlier pass and by the next pass
  (`scheduler/mod.rs:70`);
- a node without a handler shadows a parameter that would match: with `/<key>` and
  `/a/b`, the request `/a` is answered 404 (`route/route_tree.rs:422`);
- with a limiter and a handler timeout the result of a connection is not counted
  (`server/net_server.rs:531`), while the three other paths count it; this is why
  `MetricsAgree` is checked without a limiter;
- `accept` awaits the selected listener only (`server/listener.rs:339`), although
  the comment at line 305 speaks of any listener;
- `remove_task_sub` keeps the tasks with the prefix and removes the others
  (`scheduler/mod.rs:58`);
- the datagram refill drops fractions of a second at every call
  (`server/quic/core.rs:75`), so a handler that calls often never gets a token back;
- sessions of one QUIC connection read each other's datagrams
  (`server/quic/core.rs:145`), and the limit on their number is advertised but not
  counted (`server/quic/service.rs:53`);
- the graceful shutdown waits for the future of a QUIC connection, not for the request
  tasks it has spawned (`server/quic/service.rs:78`);
- a response that copies the request's jar brings a stale session cookie back, and
  removals in the handler's jar are dropped (`session/middleware.rs:99`);
- multipart without a boundary gives an empty form and drops the body
  (`core/form.rs:39`); an upload cut off inside `FilePart::create` leaves its
  directory (`core/form.rs:137`); a clone of a `FilePart` that is dropped removes the
  file of the original (`core/form.rs:163`);
- a flag that `server/config.rs:23` calls observational decides between
  `Ok(None)` and `Err` (`server/quic/core.rs:171`);
- `hook` on a route of several segments lands on the first one
  (`route/mod.rs:152`), so it runs for the siblings as well.

### Fairness

`NetServer`: the runtime polls the loop and its tasks, and started timers fire;
handlers, clients and signals are not assumed to do anything. `Listeners`: the accept
future is polled and time passes; clients and handshakes are not assumed to make
progress. `H3Request`: both tasks are polled and the read timeout fires; the handler is
free, and so is the client, so no write is assumed to end: it waits for flow control and
has no timeout. `Scheduler`: loop and jobs are run and time passes; whether a runtime is
dropped is up to the application. `WebSocket`: the service, the upgrade task and both
tasks are polled, callbacks return, hyper settles an upgrade (after an answer that is no
101, when the connection ends), and writes to a peer that is gone end; peer and user are
free. `RequestBody`: only the threads that remove files are run. `QuicConnection`: only
after the connection is lost, when quinn ends every pending read and write, and only of
the steps this repository takes itself: the accept loop, resolving a request, setting up
a session, the echo handler, a pending receive. Until then loop, tasks and handlers may
wait as long as they like, and handlers of the user and of plain requests may do so
afterwards as well. These are what tokio and the thread scheduler give to a task that is
ready. The other modules state safety only and have no fairness.

## 4. Proofs

The theorems hold for every value of the constants that satisfies the assumption of the
module: any number of connections, requests, messages, chunks and sessions, any
capacity, rate, limit and delay. The assumptions give the constants their types and a
few bounds that hold in the code or keep degenerate cases out: a chunk size, a channel
and a bucket of the `RateLimiter` that are not 0, the base of the backoff no larger than
its maximum, patterns that are not empty, paths that begin with a slash and have slashes
between names. `ErrorAssumption` keeps the error item of the HTTP/3 channel apart from
chunks. Two theorems have a hypothesis of their own, the configuration they speak of.

Accept loop and limiters:

- `TypeCorrect` of `NetServer` and `Scheduler`, `LimiterTyped` of `RateLimit`: type
  invariant, action by action.
- `BucketTheorem`: `BucketBounded` needs to know that the refill task, between its check
  and its addition, still has room (`RoomToAdd`: permits may come back in between, but
  each with a connection that is then counted), and that only a task that has ended has
  an outcome (`OutcomeAtEnd`).
- `PermitsConserved`: the sum of available and held permits. The steps rest on
  lemmas about the cardinality of `Held` when a task enters or leaves it, or when
  one task hands its permit to another.
- `NoEarlyCancel` and `NothingLeftBehind`: neither is inductive. They follow from
  `Shape`, which ties the phases together: no task exists before the loop, the
  tasks are joined at the end, `aborted` is set in the last phases only, the
  refill task is gone after it was stopped, the graceful phase was counted once,
  and a cancelled task implies the abort.
- `RefinesLifecycle`: initial states map to initial states; every action maps to
  a step of `Lifecycle` or to a stutter under the mapping of `pc` and `task`.
- `MetricsTheorem`, for all configurations but the one with a limiter and a handler
  timeout, whose results the code does not count: `MetricsAgree` compares counters with
  cardinalities, which move by one only if the connection was not counted before;
  `OutcomeAtEnd` (a live task has no outcome) supplies that, and `Tallied` states per
  counter what holds in every configuration.
- `RateHolds`: `WindowBound` is inductive with the type invariant, because it
  counts tokens left plus requests admitted against the capacity and the ticks
  since the window began.
- `RetryAfterKept`: through `PromiseCovered`, which says that the tokens left and
  the time still to pass until the promised moment make up one token, with the
  lemma that the rounded-up number of seconds covers the deficit.
- `OneLoopAlways`: a cardinality is awkward to induct on, so `Single` says that two
  live loops are the same one; with `FlagHeld` (the flag is set exactly while a loop
  lives or one was dropped with its runtime), `NoneAfterDrop` (after that no loop lives)
  and `Unstarted` (no loop has a number still to be given out) it is inductive.
- `FiredTasksRun`: `FiredRuns` alone is not inductive, since a job that finds its task
  not active would leave nothing behind; `FiredDue` adds that a dropped task was due,
  and a date that has passed stays passed.
- `ConnectionsConserved`: `ConnectionConservation` is inductive once the listener that
  is awaited exists (`ScanOK`) and a handshake belongs to a TLS listener
  (`HandshakeTls`): a connection is given up with an error, also after it was taken, or
  lost by the cancellation of a handshake, and in no other way. The selection is a
  `CHOOSE` of the nearest ready listener; `SelectedReady` shows by the well-foundedness
  of `<` that there is one.
- `SelectionRotates`: by `Rotating`, `next_index` is always the listener behind the one
  selected last, also after its future was dropped or its accept failed. The lemma
  `LastIsFarthest` turns this into arithmetic modulo the number of listeners: the scan
  then meets that listener last, so it is chosen again only if no other is ready.
- `BackoffTheorem`, the safety half of `BackoffEnds`: `DelaysOK` keeps the delays between
  `BASE` and `MAX` through doubling and reset; `WakesInTime` says that a sleeping
  `accept()` has exactly the shortest delay before it, which holds because deadline and
  delays run down together. When the deadline has passed a listener is therefore ready,
  and `accept()` does not sleep twice in a row.
- `CertificatesFresh`: by `CertInv`, the certificate in the store is exactly the one on
  disk when the last successful reload began, and a reload under way holds the one it
  began with; `HandshakeBegins` says that only `TakeTls` starts a handshake, and that
  one refuses a torn pair and the bytes of a damaged file.

HTTP/3, WebTransport, WebSocket and sessions:

- `BodyTheorem`, `EndTheorem`, `NoResponseTheorem`, `ResponseTheorem` (`H3Request`): one
  invariant for the pipeline of reader, channel, handler and writer. `PipeOK` follows the
  body: what the handler has read, the channel holds and the reader is sending is gapless
  and ends where the reader is. `ErrOK` says that a failed reader has told a receiver
  that is still there, `EndOK` that a reader ends well only at the end of the body or
  without a receiver, `RespOK` that nothing is written before the join and that what is
  written and what is buffered make up what was framed. None of the four properties is
  inductive without the others.
- `WriterTheorem`, the part of `WriterNeverStuck` that does without `ENABLED`: by the same
  invariant, after the join the next frame of the body is there, or its end is, and it is
  no error.
- `RateTheorem` (`Datagram` inside `QuicConnection`): `WithinRate` is not inductive, since
  it forgets the tokens left. `AfterRefill` adds them: from the first refill in the
  window on, tokens taken plus tokens left stay within a full bucket, one token more, and
  the rate times the time up to `last_refill`. Before that refill only a receive that was
  already waiting can take a token (`BeforeRefill`), which is where the one token more
  comes from. `RefilledEarned` shows that whole seconds never credit more than has
  elapsed, `FreshBucket` that the bucket is made before anything is charged.
- `EchoTheorem`: by `Collected`, the payload is the beginning of the stream without an
  oversized chunk; by `AtEnd`, the handler answers only behind its end; by `Replied`, the
  stream does not change after the answer.
- `DeliveryTheorem` (`WebSocket`): `OrderOK` with `FlightOK` (one message between `recv`
  and `send`) and `ShutOK` (a close frame is last and closes the socket); lemmas say what
  pushing, taking, refusing and writing a message do to `Complete`.
- `CallbackTheorem`: `LogOK` ties the log of callbacks to the states of the upgrade task
  and the receiving task, `StageOK` these states to each other.
- `CookiesTheorem` and `SharedStoreFindsSession` (`Session`; the second for one store
  shared by all connections, the case the run `Session` checks): `RequestOK` says for each
  request which session its jars name, that a session found was the one offered, and that
  the response carries the merged jar.
- `H3RequestTyped`, `QuicTyped`, `WebSocketTyped`, `SessionTyped`: the type invariants,
  among them the capacity of the HTTP/3 channel and of the datagram bucket.

Bodies and uploads (`RequestBody`):

- `WholeBodyTheorem`, `KeptParseTheorem` and `BodyTyped` follow from one invariant,
  `BInv`. `WireOK` says that what the client sent is gapless, what is not read yet its
  end and what a reader was given its beginning. `ReaderOK` ties the count of
  `LimitedIncoming` to that: it is exactly what passed, until a chunk is refused, and
  over the limit from then on, which is why nothing behind a refused chunk can pass.
  `CacheOK` says that a `OnceCell` holds what the client sent from where the reader
  began (a handler may have read some and put the rest back) to the end of the body or,
  for multipart, at least to the closing boundary, or else the empty form of a body
  without boundary, and that a parser that has read a well-formed body has its cell
  filled.
- `UploadsOwnedTheorem`, the safety half of `UploadsReleased`: by `FilesOK` every
  temporary directory belongs to a file being written, to a `FilePart`, to a thread that
  will remove it, or to the one file interrupted inside `FilePart::create`; once the
  request is gone only the last two are left.

Routing (`RouteTree`), in two layers:

- `RouteInvariant` is about what dispatch does. `UnderRoot`: what was registered begins
  with the segment of the root. `RootOK`: whatever the order of
  registration, a node of the merged `Route` has, for each method, the first handler
  registered for it, the numbers of the registrations hooked on it in increasing order,
  and children that are nodes. `TreeOK`: the tree has the nodes of the `Route`, and
  `middlewares[middleware_start..]` are a node's own. `WalkOK`: the path up to the offset
  is cut into one piece per node entered, each taken by that node's segment, the
  parameters are those pieces, the last one of each key (`Bound`), and the middlewares run
  are those of the nodes, with 0 first on the root. `CaptureOK` keeps a capture inside the
  path, except that of a `<*>` behind its end. `EndOK`:
  a handler is called only where the path ends. The lemma behind `WalkOK` is
  `SegmentSound`: what `call_path_only` lets a segment take, `Takes` allows.
  `DispatchTheorem`, `CapturesTheorem` and `MiddlewareTheorem` follow.
- `FoundInvariant` is about what dispatch does not miss. `ShapeOK`: every node is a
  prefix of a registered pattern, every pattern has its path of children, and the tree
  has a deepest node. `Resolved`: the walk is at an offset `path_can_resolve` accepts at
  its node. `Started` and `Straight`: at the root it has left what every reading of the
  path leaves there, and as long as there is a pattern of static names that is the path,
  it is above that pattern's node with the names that are left to it. The lemmas are
  `RootComplete`, `RootRefuses` and `RootAnswers` (a root that does not match the path
  belongs to no pattern that does, and one the walk ends at has a handler),
  `SegmentComplete` (a segment that may take the next piece does take it, and leaves the
  same names), `ResolveComplete` (along a pattern that reads the path every node
  resolves) and `ResolveSound` (where a node resolves, some pattern below it reads the
  path). `NotFoundTheorem`, which speaks of the very node dispatch stopped at
  (`StoppedShort`), and `ExactStaticTheorem` (`ChoosesStraight`, `ExactEnd`) follow.

`Inherited` and `CanResolve` are recursive functions, and the prover cannot unfold one
before it knows that such a function exists. `GrownExists` and `ResolverExists` show it
without induction: of the lengths or depths for which there is none, take the least; by
the well-foundedness of `<` on the naturals there is one, and one step takes it further.
`ResolveComplete` and `ResolveSound` argue in the same way.

The attempt to prove `NotFoundOnlyAtPrefix` found its first form wrong: `Matches` let
`<*>` stand for nothing anywhere, so that `/<*>/b/c` stood for `/b/c`, which the code
answers with 404, because `<*>` takes `b`. No pair of patterns in the run of that time
showed it. The run now has that pattern and that path, `Reads` asks `<*>` and `<**>` to
be `Greedy`, and `ExactStaticWins` has become stronger: it excludes a 404 as well.

The inductive invariants, all but `FoundInv`, were also checked with TLC on the instances
of the runs.

Only model-checked: liveness, which is out of the prover's reach (`ShutdownCompletes`,
`ParkedSignalStops`, `WaiterResolves`, `BackoffEnds`, `JoinEnds`, `StopEnds`,
`LostConnectionEnds`, `TasksEnd`, `UploadsReleased`), and `WriterNeverStuck`, which
needs `ENABLED`. Every other invariant and action property of the runs, and the
refinement, is a theorem. The type invariant of `Listeners` is not:
the bound on connections in it rests on a guard that sums over all listeners with a fold,
which the prover cannot unfold; the delays in it are part of `BackoffTheorem`.

## 5. Not modelled

Bytes, text and headers; TLS, QUIC, HTTP/1 and HTTP/2 themselves (rustls, quinn, hyper);
the formatting of logs and metrics; weak memory (counters use `Relaxed` but are only
added to); the test-only shutdown injection; where string literals lie in memory
(`route/route_tree.rs:521` depends on it: `Captured` is a choice); route state
containers, `hook_first` called by the user, and a second handler for one method of one
`Route` (which replaces the first, unlike one that is merged); panics of WebSocket
callbacks; two reloads of certificates at once, and a poisoned lock of their store; the
drop of the serve future by its owner; bodies a handler makes itself and puts into the
request; clones of a `FilePart` and `do_not_delete_on_drop`; a wall clock that is set
back; session stores other than the default one; server-sent events, static files, gRPC
and the OpenAPI crates, which transform one request or one document without state that
outlives it. `PROJECT.json` gives the reason for each part.

## 6. Plan

Done: `NetServer` with `Lifecycle`, `Listeners` with `CertStore`, `H3Request`,
`QuicConnection` with `Datagram`, `Scheduler`, `RateLimit`, `RouteTree`, `Session`,
`WebSocket`, `RequestBody`; proofs of every safety property the runs check.

Next, in this order:

1. The drop of the serve future (`server/net_server.rs:494`), and detached request
   tasks composed with the shutdown of `NetServer`.
2. `SseKeepAlive`: the keep-alive timer around a stream of events.
3. Extractors and handler wrappers, which decide what a handler is given.
