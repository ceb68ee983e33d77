# lkrequest-py in TLA+

lkrequest-py is a Python binding, written in Rust with pyo3, of the HTTP client
crate `lkrequest`. The crate itself is not in the repository: this development
models the binding, which is where the concurrency lives. Futures of a tokio runtime are
handed to one or several asyncio loops, blocking twins run the same code under
`block_on`, Python callbacks are called from runtime threads, and `close()`,
cancellation and garbage collection may come at any time.

Paths below are relative to `src/src/` of the repository.

## The system

| Part | State it keeps | Operations | Talks to |
|---|---|---|---|
| Async bridge, `bridge.rs`, `lib.rs` | a process-wide count of crossings, a `Notify`, one hand-off slot per crossing | `future_into_py`, `call_soon_threadsafe` of the loop proxy, `drain_pending`, `blocking_drain_pending`, `pending_requests` | pyo3's bridge, asyncio; every `async` method of every other part crosses it |
| Session, `session.rs`, `session_state.rs` | the closed flag (a watch channel), two hook lists | the verbs, `send_streaming`, `ws_connect`, `preconnect`, `prefetch`, `on_request`, `on_response`, `close`, `__clear__` | bridge, middleware, upstream session |
| Middleware, `middleware.rs`, `client.rs` | two callback slots per middleware | called by upstream before and after a request; `release` by `close()` | session, upstream |
| WebSocket, `websocket.rs` | `Option<Arc<Connection>>` under a mutex | `send_*`, `recv`, `close`, iteration | bridge, upstream connection |
| Metrics, `metrics.rs` | global atomics, a locked map of per-host atomics | recording, `reset`, `snapshot`, `prometheus_text` | called by each buffered request |
| Upload stream, `upload.rs` | the pull in flight, the done flag | `poll_next` | the transport on one side, a Python file or iterator on the other |
| Streaming response, `response.rs` | `Option<StreamingResponse>` under tokio's mutex | `chunk`, `chunk_decoded`, `bytes`, `text`, iteration | bridge, upstream stream |
| Session pool, `session_pool.rs` | `Option<SessionGuard>` under tokio's mutex | `acquire`, `acquire_fresh`, `mark_bad`, `session`, leaving the context | upstream pool |
| Response, `response.rs` | two `OnceLock`s: the text, the JSON value | `text`, `text(encoding=)`, `json` | Python's `json.loads` |
| Client, `client.rs`, `dns.rs` | none after construction; making one may create the key log file | `Client(...)`, `Client.session(...)`, each with a blocking twin | upstream builders, the file system |
| Client pool, `client_pool.rs` | clients and a rotation counter, under a mutex | `acquire`, `add` | clients |
| Request preparation, `session.rs`, `multipart.rs` | the multipart's parts | extraction and validation of arguments, the request's options | session |
| Retry, `retry.rs` | none | a Python callable that is asked whether to try again | session, upstream |
| Proxy, HSTS, QUIC, MASQUE, protocol options, fingerprints | none after construction | builders and conversions | upstream |

What is hard: a guard with several possible owners while the future it belongs
to is cancelled; a count that must not reach zero before the results are in
their queue; a close that releases callbacks while requests are about to call
them; atomics updated and reset at once; a pull that outlives its request; a
lock whose owner may be cancelled; a cache filled by a thread while another is still
making what goes into it; fifty options that are read in an order which decides what a
refused call leaves behind. `PROJECT.json` lists these hazards by line,
each with the property that covers it, or the reason why none does.

What each part owes its callers:

- bridge: the count is exact on every path; `True` means delivered; no drain
  sleeps forever.
- session: nothing is registered or called after `close()`; `close()` ends what
  is in flight, and nothing else does, the handle's end included; hooks are heard.
- WebSocket: nobody waits for a `recv()`; after the end nothing starts; a failed
  close can be repeated.
- metrics: no update is lost; a reset never splits a histogram.
- upload: one pull at a time, in order, never ahead, never after the end; the
  upload ends only where the source does.
- streaming: each chunk once, in a read that returns it; the end is the end; cancelled
  reads free the lock.
- response: one decoding of the body for everybody; one JSON value once it is cached.
- client: what is given is in force, and of two options that choose the protocol the
  stronger; a refused constructor
  leaves no file; no argument trips an assertion of upstream.
- client pool: the rotation passes nobody over.
- request preparation: what goes out is what was asked for; a part goes out once; a
  closed session starts nothing.
- session pool: a lease is in one place; a fresh session is another one; asking for it
  at the limit does not block on oneself.

## Modules

| Module | Models | Remarks |
|---|---|---|
| `DrainContract` | what `drain_pending` promises | abstract: begun, live and answered crossings |
| `Bridge` | `bridge.rs`, and the two drains of `lib.rs` | `Contract == INSTANCE DrainContract` with a refinement mapping |
| `BridgeProofs` | theorems about `Bridge` | see *Proved* |
| `SessionLifecycle` | `session_state.rs`, `middleware.rs` and the paths of `session.rs` through them | `Session` and `BlockingSession` handles |
| `SessionLifecycleProofs` | theorems about `SessionLifecycle` | see *Proved* |
| `SharedConnection` | `websocket.rs` | |
| `SharedConnectionProofs` | theorems about it | |
| `Metrics` | `metrics.rs`, and what `execute_request` records | |
| `MetricsProofs` | theorems about it | see *Proved* |
| `UploadStream` | `upload.rs` | |
| `BodyContract` | what a streamed body promises to overlapping reads | abstract: a read takes effect in one step |
| `StreamingBody` | the streaming half of `response.rs`, asyncio and blocking | `Contract == INSTANCE BodyContract` with a refinement mapping |
| `BufferedResponse` | `text`, `json` and the decoding of `response.rs` | |
| `Bodies` | the three kinds of body side by side | one object at a time, see below |
| `BodiesProofs` | theorems about each of the three kinds, and about `Bodies` | |
| `ClientSetup` | the constructors of `client.rs` and `session()`, `connect_to` of `dns.rs`, `retry.rs` | |
| `ClientPool` | `client_pool.rs` | |
| `Clients` | making a client, and a pool of them, side by side | |
| `ClientsProofs` | theorems about each, and about `Clients` | |
| `RequestPrep` | the handlers of `session.rs` from their arguments to the transport, `multipart.rs` | |
| `RequestPrepProofs` | theorems about `RequestPrep` | see *Proved* |
| `SessionLease` | `session_pool.rs`, asyncio and blocking | the upstream pool is external |
| `SessionLeaseProofs` | theorems about it | |
| `HeldObjects` | a WebSocket and the guards of a session pool, side by side | they share no state: one at a time |
| `MC...` | the instances of each for TLC | |

How state and actions correspond to the code:

- **Bridge.** `count` is `IN_FLIGHT.count`; `holder[t]` says which Rust value
  owns the `InFlightGuard` of crossing `t` (wrapper future, hand-off slot, or
  the local `_guard` of `call_soon_threadsafe`); `notifying` are the drops that
  have taken the count to zero and not yet called `notify_waiters`, since
  `fetch_sub` and the notification are two steps; `ready[l]` is the FIFO queue
  of loop `l`. A drain goes `arm` → `check` → `park` → `wait` as the code calls
  `notified()`, loads the count and awaits. `Tap` is the 100 ms timer that takes
  the GIL, which is what runs pyo3's deferred decrements (`RunDecrefs`) and so
  frees stranded guards. pyo3's bridge and asyncio are external: cancellation
  noticed before or after completion, delivery skipped for a cancelled future, a
  proxy freed late, and callbacks run in order.
- **SessionLifecycle.** `close()` holds the GIL from the flag to the last hook
  list but drops callbacks one slot at a time, so it is a sequence of steps, and
  what needs the GIL waits (`GilFree`). `stage[r]` follows one request
  through `ensure_open`, the hooks, the middleware chain, the network and back; a
  streamed one reads its arguments after `ensure_open`, in the caller's code (`Prepared`).
  `Abandon` is possible only where the request awaits, as `select!` polls, and when
  `CloseHeard`: `wait_for` returns when the flag is set, and when the channel has no
  sender left. The handle owns a sender until it is freed, a request from `Closing` until
  its future is dropped (`senders`).
  `handle` is what kind of session it is, which calls are made of it and its
  middleware. Python lets go of it (`DropHandle`) when no method runs on it (`InMethod`): a
  blocking request is inside `block_on` until it is over, and cannot be cancelled.
  Then it is freed, or the collector finds it in a cycle first (`Collect`), which may be
  while its requests are in flight: they keep the lists alive and not the handle.
- **SharedConnection.** `shared` says whether the slot holds a handle; an operation that got the handle
  is `running` on it with no lock.
- **Metrics.** One action for each atomic access or lock, with the load and the
  compare-exchange of the latency sum apart. Relaxed accesses are taken to be
  interleaved; as every counter is only ever updated by read-modify-write, and
  the properties read it when nobody is recording, this loses nothing they
  see.
- **UploadStream.** `pending` is the join handle or the future; a pull is
  spawned, runs and returns on its own, and goes on when the stream is dropped.
- **StreamingBody.** `queue` is the fair queue of tokio's mutex; a chunk read is
  one step, as a cancelled read gives nothing back. A read of method `unknown` is
  `text(encoding=)` with a codec that Python lacks: it takes the body, reads all of it, and
  then fails (`undecoded`).
- **BufferedResponse.** A call holds the GIL from its beginning to its end, but for
  `json.loads`, which is Python code: `JsonMiss` and `JsonLoaded` are apart, and any
  other call may come in between. A text is known by the decoder that made it, a JSON
  value by the call that parsed it.
- **Bodies.** An upload, a streamed body and a complete one share no state, so any run
  of several of them is, seen from one of them, a run of that one alone. `object` says which one is
  considered; the initial state of the others is fixed, since nothing depends on it.
- **ClientSetup.** A step is one group of options, in the order in which the
  constructor reads them (`Order`). The value of an option is its class: good, refused
  by its conversion (`bad`), refused as zero, or a finite number of seconds that no
  `Duration` holds (`vast`). `client` and `session` are what the upstream builder was
  given. The options that are set by one expression each and cannot fail are
  taken together in the last step. Among them the ones that choose the protocol overlap:
  their setters are called in the order of `OfProtocol` and `OfSessionProtocol`, and of
  those that set one field (`Field`) the last remains (`Standing`). Which of them do is
  upstream's; that no other two setters overlap is an assumption about upstream. Both
  kinds of client have the same constructor.
- **ClientPool.** The mutex makes an operation one step; `index` counts modulo `Width`,
  as a `usize` does. `turns` is history: whom it gave last.
- **RequestPrep.** A handler is not interrupted from its last argument to its end
  (`Undisturbed`), but `json.dumps` and `__aiter__` run the caller's Python, so other
  calls, `Multipart.text` and `close()` come in there (`json`, `source`).
  `taken[c]` are the parts in the call's `PreparedRequest`, and stay there when the call
  is refused. `wire[c]` is what `apply_request_options` made of it.
- **SessionLease.** `slot` is a guard's `Option`, `hand` a lease that the pool gave to a
  future whose guard is not yet returned. An asyncio call is made (`Ask`) and runs
  later; a blocking `acquire_fresh` holds its guard by `&mut` while it waits, and
  pyo3 refuses other calls with it (`Borrowed`).

Left out everywhere: contents of requests, headers and frames, logging, and
error messages. A failed lock (poisoning) does not occur: nothing that can panic
runs under one.

## What TLC checks

| Run | Instance | Shows |
|---|---|---|
| `bridge_safety` | 2 crossings, an asyncio and a blocking drain, 1 loop | types, guard ownership and accounting, zero means settled, `True` means delivered, no lost wake-up |
| `bridge_live` | 2 crossings, 1 drain, fair | drains return; the refinement of `DrainContract` |
| `bridge_two_loops` | the drain's loop and another | **violation**, see *Findings* |
| `session` | two asyncio handles and two blocking ones; 2 `close()`, 2 requests (buffered, streamed, connect), one hook of each kind, up to two middleware, fair | nothing registered survives `close()`; no middleware runs after it; only `close()` abandons; hooks are heard; `close()` settles everything |
| `session_collected` | the same handles and requests, 1 `close()` | **violation**, see *Findings* |
| `held_objects` | one WebSocket with 2 `close`, `recv`, iteration, `send`; 2 callers, 3 guards, 2 sessions of which 1 or 2 can be leased; fair | nothing starts after the end; failed close; no waiting for a `recv`; fresh is fresh, late calls mark nothing foreign, `acquire_fresh` returns |
| `metrics_counts` | 3 requests to one host, 2 buckets, 1 reset | sums are exact; histograms stay whole |
| `metrics_errors` | one request fails without response | **violation**, see *Findings* |
| `bodies` | an upload from each kind of source, 5 pulls; 5 reads incl. `bytes()` and a `text()` that cannot decode, of 2 chunks, errors anywhere, fair; 6 accesses to each of 24 complete responses | one pull at a time, order, end; chunks go out once, honest end, overlapping reads are atomic, fair turns; one decoding, one JSON value |
| `text_charset` | a response whose Content-Type says `Charset=` | **violation**, see *Findings* |
| `request_prep` | an asyncio and a blocking call with any verb, 8 combinations of body arguments, 2 parts, 1 `close()` | parts go out once, nothing is outranked, the form survives bad arguments, nothing is submitted late |
| `clients` | every pair of options of `Client(...)` and of `session(...)`, each with every class of value, the two groups that exclude each other, and three options that choose the protocol; pools of up to 4 clients, a counter of 16 | what is given is in force, the stronger over the weaker; refused leaves no file; panics only for vast durations; everybody in turn |

Why the bounds are enough to be interesting. Two crossings already have one that
is being delivered while the other is cancelled, stranded or dropped, and two
drains have one at each point of its loop while the other is woken; beyond
that the theorems take over, which hold for any number. Two calls of `close()`
overlap in each of their steps. Three recording requests are what a lost
compare-exchange, a second winner and a bystander need. Five pulls suffice for
chunks on both sides of an empty one, then an end and a poll after it;
`MaxPulls` bounds nothing else. Five reads leave three waiting while one
holds the lock and another is cancelled, two of them for the whole body. Two calls meet at the form in every order;
the combinations of arguments are each body, the pairs that involve the form, and a
content length with and without a stream. The options of a client interact in pairs at
most, by the order of the steps or because two belong to one setter; only the resolver
options and `connect_to` with the address family and the key log interact in threes,
and those are tried in full. All options that choose the protocol share one field in the
run; the theorem leaves open which of them do. A pool of up to four with a counter of 16 has the wrap
with a size that divides the counter (as the first, second and fourth do) and with
one that does not; what the property says of a wrap is that the count starts anew
there. Two callers at a pool of one session
are each other's obstacle; the third guard is the one that is being made. Symmetry is used for crossings, for
calls of `close()` and for parts, in runs without liveness only.

`CHECK_DEADLOCK FALSE` except in `held_objects`, where guards come and go for ever, and
where a WebSocket may stop only when its operations are over and its connection is down
(`OverAndDown`): each of the other systems really stops, once its requests, reads or
pulls are over.

### Fairness

- `Bridge!FairSpec`: tokio polls a future that is ready, its timers fire, asyncio
  runs what is in its ready queue, and a thread that takes the GIL gets it. No
  crossing is assumed to end: `DrainReturns` says that the drain returns
  if the crossings do.
- `SessionLifecycle!FairSpec`: tokio polls a request that is woken, and a Python
  thread in `close()` goes on. The network is not fair: it may never answer.
- `SharedConnection!FairConnection`: a send or close frame is written or fails; a receive
  may wait forever.
- `StreamingBody!FairSpec`: a read that has been given the mutex is polled. Reads of
  the network owe nothing: the property assumes that each of them ends.
- `Bodies!AllSpec`: the fairness of `StreamingBody` only. The transport may stop polling
  an upload and nobody has to read a response.
- `Clients` needs none: it states no liveness.
- `SessionLease!FairSpec`: tokio runs a future that was submitted; the upstream pool
  serves its callers and replaces bad sessions (an assumption about upstream); the
  application does not use one guard forever.
- `HeldObjects!AllSpec`: that of these two.

### Findings

- `bridge_two_loops`. The comment at `bridge.rs:38-39` says that by the time Python
  observes `True`, every tracked future is already done. The count is
  process-wide and is released when a result is in the queue of *its* loop; a
  drain on one loop may return `True` before another loop has run that callback.
  For futures of the drain's own loop the promise holds (`DrainDelivers`, proved).
- `session_collected`. The stub says that a hook registered with `on_response` is called
  after each response (`_lkrequest.pyi:1278`), and the comment at
  `session_state.rs:46-47` that the futures in flight see the hooks of the handle.
  `__clear__` empties these shared lists (`session_state.rs:195`) when the collector finds
  the handle in a garbage cycle. Usually a request in flight prevents that: it refers to the
  lists, they to the hooks, a hook to its owner and the owner to the handle. But a cycle that
  does not pass through the hooks (`owner.session = handle; owner.self = owner`, the hook a
  plain function) is garbage while the request runs, which then calls no `on_response`
  hook, on a session that nobody closed. Short of the collector hooks are heard
  (`HooksAreHeard`, proved).
- `metrics_errors`. `metrics.rs:177` describes `lkrequest_errors_total` as the total
  number of failed HTTP requests. `execute_request` returns a transport error
  before it records anything (`session.rs:309`), so a request that
  fails without a response is neither in the errors nor in the requests.
- `text_charset`. `response.rs:426-427` says that the charset of `text()` comes from
  Content-Type, with UTF-8 for a response that declares none. `parse_encoding`
  (`response.rs:264`) strips the literal prefix `charset=`, so a server that writes
  `Charset=gbk` counts as having declared none: parameter names are
  not case-sensitive in HTTP.

### Mutants

Each property has, beside the definition it depends on, a mutated form of it
(`...Leaks`, `...Late`, `...Unchecked` and so on) in the same module, the change a
plausible slip in that code would make; under it TLC finds the property violated.

## Proved

`BridgeProofs` proves, for every set of crossings,
drains and loops, from the assumptions that the crossings are a finite set and
that everything has a loop (`Bridge`):

- `TypeCorrect`, `GuardsAreOwned`, `GuardsAreCounted`, `ZeroIsSettled`,
  `NoWakeupIsLost`: the safety properties of `bridge_safety`;
- `DeliveryGuarantee`: `DrainDelivers`;
- `BridgeRefinesContract`: `Spec => Contract!Safety`, the safety part of the
  refinement that `bridge_live` checks.

The argument. Accounting is not inductive alone: that the count is the
number of live guards is kept by a step only if the guard that the step frees is
there to be freed. So the invariant `IInv` carries types, `OwnershipFollowsTask`
and `GuardAccounting` together; one lemma says that freeing the guard of one
crossing takes one off the cardinality. `ZeroMeansSettled` follows: at zero
no guard lives, and each unsettled stage owns one. For `NoLostWakeup` the step
that matters is the one that takes the count to zero: each drain that listens at that
moment is in the set it will notify.
Delivery needs a second invariant `DInv` over time: what a drain
covers is what was submitted when it read zero; those crossings are settled from then
on, and their callbacks stand in the loop's queue *before* the drain's own
answer. As the queue is first in, first out, that order is kept until the answer
is observed. The refinement maps a crossing with a guard to a live one of
the contract, and each step to a step of the contract or a stutter.

`RequestPrepProofs` proves, for every number of calls and parts and every set of
argument combinations (`GivenAssumption`: they consist of the body arguments), types
(`TypeCorrect`) and all four invariants of `request_prep`: `PartsAreNeverShared`, `FormIsTakenLast`,
`NothingIsOutranked` and `ClosedStartsNothing`. The invariant `PInv` adds three facts:
only a call given the form holds parts, what is submitted was validated, and a late call
still under way is not a streamed one. The lemma `ValidGoesOutWhole` is where
validation meets precedence: with one body at most, the first by rank is the one given.

`SessionLifecycleProofs` proves all four safety properties of `session`, for every
number of requests, hooks, middleware, handles and overlapping calls of `close()`: `NothingIsLeft`,
`MiddlewareEndsWithClose`, `AbandonedByClose` and `EveryHookIsHeard`, with
`TypeCorrect`. From `HandlesAssumption` it needs that middleware chains are sequences.
The types `TInv` add that a request has a chain or a snapshot to go through,
whichever its stage calls for. `CInv` says, of every `close()` by its own progress, what is gone
already: after each list its emptiness, and of the slots that all that are
still full are among those it has yet to release; the flag being set, nothing is
registered behind its back. `HooksWait` follows the hooks that were there when a request was made: they
have been called, or are in its snapshot, or in the list - which only a `close()` or
the collector empties. `InFlightOwns` says that a request owns a sender from
`ensure_open` until it is over, wherever it is and whatever becomes of the handle, so that
a wait for the flag ends in nothing but the flag (`AbandonStep`). No middleware
callback begins after `close()` because by `CInv` both sets of slots are empty, and a
request that is past its check reads the slot again.

`BodiesProofs` takes the three kinds of body one by one, then together.

- Streamed (`StreamTypeCorrect`, `BodyIsSharedOut`, `EndsAreHonest`,
  `StreamRefinesContract`), from
  `MethodAssumption` and `LengthAssumption`: the read at the head of the queue is the
  only one in the network and stands where the stream stands (`ReaderIsHere`), so that
  what it takes extends the chunks that are out by the next ones; the slot is empty
  either because the body was taken whole, or at its end with nobody reading
  (`EmptyForAReason`). The refinement of `BodyContract` maps a read that waits, for its turn or for the
  network, to one without a result: calls and turns are stutters but for `bytes()` and
  `text()`, whose turn takes the body, and each answer is one step of the contract, the
  failed decoding of a body that is spent among them. It
  needs besides that a read in the network has left the slot full, or emptied
  it itself (`HasBody`).
- Uploaded (`SourceIsNotReentered`, `EndedIsLeftAlone`, `EndIsTheSources`,
  `ChunksInOrder`): a pull in flight is the pending one (`OnlyPendingRuns`), and so is one
  that has ended or failed, unless the stream is done (`EndIsNoticed`); then no step can
  start another. For the order, the items of the transport are the chunks of the source
  from the first on and then at most one end (`ChunksThenEnd`), and what the source has
  produced beyond them sits in the pending pull (`OneAhead`).
- Complete (`PlainTextIsOne`, `ValueIsShared`), from `NoneAssumption`: the cell of the
  text only ever holds the one decoding (`TextIsPlain`); a call is late only if it found a
  value (`LateFoundIt`), so a call that is in `json.loads` is not late
  (`LoadingIsEarly`), and whoever is late has taken the value of the cell, which stays.
- `BodiesKeepTheirPromises`: a step of `Bodies` is, for each kind, a step of that kind or
  none (`PartsStep`), so that `AllSpec` implies the three specifications and with them all
  the safety properties of the run `bodies`.

`MetricsProofs` (`TypeCorrect`, `NoEventIsLost`, `ResetsDropWhole`), for any finite set of
requests, any latencies and bounds of buckets, and any resets. The invariant `MInv`
describes a `HostMetrics` in the middle of recordings, not only when they are over: each
counter is the number of the requests that hold it and are past the step that counts
them (`RequestsAddUp`, `ErrorsAddUp`, `BucketsAddUp`), the sum is that of the requests
that are through (`SumAddsUp`); without a reset the same holds of the global counters, and
everybody's metrics are those in the map (`NothingForgotten`). A request that has loaded the sum
and not yet swapped it needs nothing of its own: if another got in between, its
compare-exchange fails. The sum is a fold over a set, a recursive function, whose
value is an induction over data; the lemma `SumIsTicks` gets round the induction
theorems by the least-number principle: a fold of natural numbers is the cardinality of a set of
ticks, because two functions that satisfy the fold's equation cannot differ on a least set.

`ClientsProofs` takes the making of a client and the pool, then both.

- `ClientSetup` (`OptionsAreInForce`, `RefusalLeavesNothing`, `PanicsAreOfDurations`), for every
  set of calls whose options are in the signatures (`ArgumentsAssumption`; Python refuses other
  keywords): any number of options at once, where the run tries pairs. The invariant `SInv` says
  that at each step of `Order` a builder has exactly the effective options of the steps before
  it (`ClientSoFar`, `SessionSoFar`); for the protocol options, that the order of the calls is
  the precedence that the property states (`LastIsStrongest`), whatever `Field` is; that the table of dial targets is `connect_to` (`TargetsSoFar`; an
  accepted dictionary has no two entries for one origin, so none is lost, `TableKeepsAll`), and that
  the file is there only from the step after the last that can be refused (`FileIsLast`).
- `ClientPool` (`NobodyIsPassedOver`), for every pool and every width of the counter
  (`WidthAssumption`): the turns that are remembered belong to consecutive numbers, the last
  ones of the counter (`TurnsAreLast`), and numbers less than the pool's size apart have different
  remainders (`RemaindersDiffer`).
- `ClientsKeepTheirPromises`: both, for the composition that the run `clients` checks.

`SharedConnectionProofs` (`TypeCorrect`, `FailedCloseIsHarmless`, `OverIsOver`): the
slot is empty exactly when somebody was entitled to empty it (`SlotIsHonest`).

`SessionLeaseProofs` (`TypeCorrect`, `FreshIsAnother`, `OwnLeaseMarked`), from the
assumptions that `None` is neither a session nor a guard, and that the sessions are
finitely many (`SessionsAssumption`). The leases are exclusive and within the limit:
a session sits in at most one guard or one caller's hand (`InOneGuard`, `InOneHand`,
`InOneKind`, `WithinLimit`). What a waiting `acquire_fresh` gave back is still marked
(`LeftIsMarked`), and the pool gives out no marked session.

Only model-checked: liveness under fairness (`DrainReturns`, the fair part of
`ImplementsContract`, `CloseSettles`, `NobodyWaitsForARecv`, `EveryReadGetsItsTurn`,
`FreshReturns`), which the prover does not treat. Every invariant and every action property of the
passing runs is a theorem.

The type invariants of the modules with proofs are theorems, or conjuncts of the
inductive invariants; runs check them where a mutant of the code can break them.

## Not modelled

- The upstream crate, tokio, pyo3 and asyncio, beyond the external definitions.
  Assumed of upstream: each middleware is run once per request, requests in order
  and responses in reverse; a broken body stream stays broken.
- What happens to a connection that a request returns to the pool just after
  `pool_clear` (`session.rs:1281`: requests have been told to stop by then, and need not
  have stopped); the second close frame when two calls of a WebSocket's `close()` both
  find it open (`websocket.rs:196`); the position of a file whose upload was abandoned
  while a pull still reads it (`upload.rs:156`). What follows is upstream's or the
  caller's.
- The form of a call that `validate_body_params`, `ensure_open` or the bridge refuses:
  its parts were taken before and are gone, so that a retry with the same `Multipart`
  sends an empty one. No document promises otherwise, so no property says so;
  `FormSurvivesBadArguments` states where the form is kept.
- What `Client` should make of a `min_transfer_rate_window` without `min_transfer_rate`:
  it drops it without a word (`client.rs:384-388`), where `ResourceLimits` refuses the pair
  (`types.rs:144`). The model does as the code does, and `GivenIsInForce` names it among the
  options that are passed over.
- A rotation of `ClientPool` where the counter wraps (`client_pool.rs:62`), or where `add()`
  changes the size: the code promises nothing there. Both steps are modelled, and
  `EveryClientInTurn` starts its history anew at each.
- A session handle from `guard.session` after the guard's lease has ended
  (`session_pool.rs:147`): it still works, on a session that may by then be leased to
  another guard.
- Of `Client`: the presets and `randomize_fingerprint`, which are single expressions
  that cannot fail, and the getters. Of the blocking session: cookie access and pool
  statistics, which are passed on to upstream. Of the response: the accessors that return what it was built with.
- The arithmetic of `ExponentialBackoff` and `FixedInterval` and the decision when to ask a
  retry policy, which are upstream's; `retry.rs` holds their parameters.
- Option builders, fingerprints and conversions (`fingerprint.rs`, `types.rs` but for
  `validated_duration`, `protocol.rs`, `proxy.rs`, `hsts.rs`, `quic.rs`, `masque.rs`,
  `network_partition.rs`, `randomize.rs`, `priority.rs`): no state after construction.
- Tests, benchmarks, examples, the build.

## Plan

The core came first: the bridge, then the session that everything goes through, then
the objects over it, then the bodies and the making of clients. Theorems followed the
runs, and all their safety properties are proved. What is left, in order of what matters to users:

1. An abstract specification of the session pool's guards, a lease that is held by one at a
   time, implied by the invariants that are proved.
2. `ClientSetup` as far as the presets: which options of a preset an explicit
   argument outranks.
3. A composition of `Bridge` and `SessionLifecycle`, in which the future of a request
   is a crossing: what `close()` followed by a drain promises together.
