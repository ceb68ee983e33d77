--------------------------- MODULE SessionLifecycle ---------------------------
(***************************************************************************)
(* One session handle: its event hooks, its session-level middleware, and  *)
(* close() under requests that are in flight (session_state.rs, the        *)
(* request path and lifecycle methods of session.rs, middleware.rs).       *)
(*                                                                         *)
(* Requests run on tokio threads, close() and the registrations on Python  *)
(* threads.  Everything that touches a hook list holds the GIL; the closed *)
(* flag and the middleware slots are read without it.  The GIL changes     *)
(* hands whenever Python code runs: in every callback, and when close()    *)
(* drops one (__del__).                                                    *)
(***************************************************************************)
EXTENDS Naturals, Sequences, SequencesExt

CONSTANTS Requests,       \* calls of get, send_streaming, ws_connect, ...
          Handles,        \* the sessions to consider: asyncio or blocking, which
                          \* calls are made of them, their middleware in order
          RequestHooks,   \* callbacks given to on_request
          ResponseHooks,  \* callbacks given to on_response
          Middleware,     \* those that sessions are made with
          Closers         \* calls of close()

Hooks == RequestHooks \cup ResponseHooks

ASSUME HandlesAssumption ==
  Handles \subseteq [kind     : [Requests -> {"buffered", "streaming", "connect"}],
                     blocking : BOOLEAN,
                     chain    : Seq(Middleware)]
ASSUME HooksAssumption == RequestHooks \cap ResponseHooks = {}

VARIABLES
  handle,         \* a Session or a BlockingSession, and its calls
  closed,         \* the watch channel
  life,           \* whether Python has the handle, or it waits to be freed
  collected,      \* history: the collector has called its __clear__
  requestHooks,   \* the two shared PyLists
  responseHooks,
  onRequest,      \* middleware whose on_request slot is full
  onResponse,     \* middleware whose on_response slot is full
  stage,          \* how far each request has got
  senders,        \* the requests that own a sender of the watch channel
  todo,           \* hooks or middleware it still has to go through
  ran,            \* history: the callbacks it has called
  early,          \* history: the hooks registered when it was made
  closer,         \* how far each close() has got
  rest            \* the slots it still has to release

handleVars == <<handle, life, collected>>
hookVars  == <<requestHooks, responseHooks>>
slotVars  == <<onRequest, onResponse>>
closeVars == <<closed, closer, rest>>
stageVars == <<stage, senders>>
reqVars   == <<stageVars, todo, ran, early>>
vars == <<closeVars, handleVars, hookVars, slotVars, reqVars>>

Kind == handle.kind
Chain == handle.chain

--------------------------------------------------------------------------------
Stages == {"new", "preparing", "refused", "accepted", "firing", "passing",
           "asking", "waiting", "returning", "asking back", "received", "answering",
           "done", "failed", "abandoned", "cancelled"}
Over == {"refused", "done", "failed", "abandoned", "cancelled"}

Callbacks == Hooks \cup (Middleware \X {"request", "response"})

TypeOK ==
  /\ handle \in Handles
  /\ closed \in BOOLEAN
  /\ life \in {"held", "loose", "freed"}
  /\ collected \in BOOLEAN
  /\ requestHooks \in Seq(RequestHooks)
  /\ responseHooks \in Seq(ResponseHooks)
  /\ onRequest \subseteq Middleware
  /\ onResponse \subseteq Middleware
  /\ stage \in [Requests -> Stages]
  /\ senders \subseteq Requests
  /\ todo \in [Requests -> Seq(Hooks \cup Middleware)]
  /\ ran \in [Requests -> SUBSET Callbacks]
  /\ early \in [Requests -> SUBSET Hooks]
  /\ closer \in [Closers -> {"idle", "flagged", "responses", "releasing",
                             "half released", "pool", "returned"}]
  /\ rest \in [Closers -> Seq(Middleware)]

\* A middleware may have been given either callback, or both.
Init ==
  /\ handle \in Handles
  /\ closed = FALSE
  /\ life = "held"
  /\ collected = FALSE
  /\ requestHooks = <<>>
  /\ responseHooks = <<>>
  /\ onRequest \in SUBSET ToSet(Chain)
  /\ onResponse \in SUBSET ToSet(Chain)
  /\ stage = [r \in Requests |-> "new"]
  /\ senders = {}
  /\ todo = [r \in Requests |-> <<>>]
  /\ ran = [r \in Requests |-> {}]
  /\ early = [r \in Requests |-> {}]
  /\ closer = [c \in Closers |-> "idle"]
  /\ rest = [c \in Closers |-> <<>>]

--------------------------------------------------------------------------------
\* close() holds the GIL, and runs no Python code that could pass it on,
\* between send_replace and the first clear and between the takes of a slot.
GilFree == \A c \in Closers : closer[c] \notin {"flagged", "half released"}

\* A Python thread that has the handle and the GIL calls one of its methods.
Calling == life = "held" /\ GilFree

\* Mutant: registration does not ask ensure_open.
RegisterRequestHookUnchecked(h) ==
  /\ Calling
  /\ h \notin ToSet(requestHooks)
  /\ requestHooks' = Append(requestHooks, h)
  /\ UNCHANGED <<closeVars, handleVars, responseHooks, slotVars, reqVars>>

\* on_request / on_response: ensure_open, then append, under one GIL hold.
RegisterRequestHook(h) ==
  /\ Calling
  /\ ~closed
  /\ h \notin ToSet(requestHooks)
  /\ requestHooks' = Append(requestHooks, h)
  /\ UNCHANGED <<closeVars, handleVars, responseHooks, slotVars, reqVars>>

RegisterResponseHook(h) ==
  /\ Calling
  /\ ~closed
  /\ h \notin ToSet(responseHooks)
  /\ responseHooks' = Append(responseHooks, h)
  /\ UNCHANGED <<closeVars, handleVars, requestHooks, slotVars, reqVars>>

--------------------------------------------------------------------------------
\* close()

\* closed.send_replace(true): every guard can see it from here on.
CloseFlag(c) ==
  /\ Calling
  /\ closer[c] = "idle"
  /\ closer' = [closer EXCEPT ![c] = "flagged"]
  /\ closed' = TRUE
  /\ UNCHANGED <<rest, handleVars, hookVars, slotVars, reqVars>>

\* hooks.clear: each list is emptied in place, then its items are dropped.
ClearRequestHooks(c) ==
  /\ closer[c] = "flagged"
  /\ closer' = [closer EXCEPT ![c] = "responses"]
  /\ requestHooks' = <<>>
  /\ UNCHANGED <<closed, rest, handleVars, responseHooks, slotVars, reqVars>>

ClearResponseHooks(c) ==
  /\ GilFree
  /\ closer[c] = "responses"
  /\ closer' = [closer EXCEPT ![c] = IF Chain = <<>> THEN "pool" ELSE "releasing"]
  /\ responseHooks' = <<>>
  /\ rest' = [rest EXCEPT ![c] = Chain]
  /\ UNCHANGED <<closed, handleVars, requestHooks, slotVars, reqVars>>

\* slots.release(): two takes, each under its own lock, then both are dropped.
TakeOnRequest(c) ==
  /\ GilFree
  /\ closer[c] = "releasing"
  /\ closer' = [closer EXCEPT ![c] = "half released"]
  /\ onRequest' = onRequest \ {Head(rest[c])}
  /\ UNCHANGED <<closed, rest, handleVars, hookVars, onResponse, reqVars>>

TakeOnResponse(c) ==
  /\ closer[c] = "half released"
  /\ onResponse' = onResponse \ {Head(rest[c])}
  /\ rest' = [rest EXCEPT ![c] = Tail(@)]
  /\ closer' = [closer EXCEPT ![c] = IF Len(rest[c]) = 1 THEN "pool" ELSE "releasing"]
  /\ UNCHANGED <<closed, handleVars, hookVars, onRequest, reqVars>>

\* inner.pool_clear(): the pool itself is upstream's.
PoolClear(c) ==
  /\ GilFree
  /\ closer[c] = "pool"
  /\ closer' = [closer EXCEPT ![c] = "returned"]
  /\ UNCHANGED <<closed, rest, handleVars, hookVars, slotVars, reqVars>>

--------------------------------------------------------------------------------
\* The handle itself

\* Mutant: dropping the handle empties the hook lists it shares.
DropHandleClears ==
  /\ Calling
  /\ life' = "loose"
  /\ requestHooks' = <<>>
  /\ responseHooks' = <<>>
  /\ UNCHANGED <<handle, collected, closeVars, slotVars, reqVars>>

\* A method runs on the handle: close(), send_streaming while it reads its
\* arguments, or a call of a blocking session, which lasts as long as its request.
InMethod ==
  \/ \E c \in Closers : closer[c] \notin {"idle", "returned"}
  \/ \E r \in Requests : stage[r] = "preparing"
  \/ handle.blocking /\ \E r \in Requests : stage[r] \notin Over \cup {"new"}

\* Python lets go of the handle; no method is running on it.
DropHandle ==
  /\ Calling
  /\ ~InMethod
  /\ life' = "loose"
  /\ UNCHANGED <<handle, collected, closeVars, hookVars, slotVars, reqVars>>

\* __clear__: the collector found the handle in a garbage cycle.  Its requests may
\* still be in flight: their references keep the lists, and what the lists reach,
\* alive, but not a handle in a cycle that no hook is part of.
Collect ==
  /\ life = "loose"
  /\ collected' = TRUE
  /\ requestHooks' = <<>>
  /\ responseHooks' = <<>>
  /\ UNCHANGED <<handle, life, closeVars, slotVars, reqVars>>

\* The handle is deallocated, and its sender with it.
Free ==
  /\ life = "loose"
  /\ life' = "freed"
  /\ UNCHANGED <<handle, collected, closeVars, hookVars, slotVars, reqVars>>

--------------------------------------------------------------------------------
\* A request

\* A future that is over is dropped, with the sender in its Closing.
Goto(r, s) ==
  /\ stage' = [stage EXCEPT ![r] = s]
  /\ senders' = IF s \in Over THEN senders \ {r} ELSE senders

Through(r, steps) == todo' = [todo EXCEPT ![r] = steps]

\* A call whose body arguments contradict each other raises, open or closed.
BadArguments(r) ==
  /\ Calling
  /\ stage[r] = "new"
  /\ Kind[r] = "buffered"
  /\ Goto(r, "refused")
  /\ UNCHANGED <<closeVars, handleVars, hookVars, slotVars, todo, ran, early>>

\* Mutant: a Closing that holds a receiver of the channel.
ClosingReceives(r) == senders

\* closing(): the request gets a sender of its own.
Closing(r) == senders \cup {r}

\* ensure_open, closing(), and on to the next stage.
Accept(r, s) ==
  /\ Calling
  /\ stage[r] = "new"
  /\ IF closed THEN Goto(r, "refused")
     ELSE stage' = [stage EXCEPT ![r] = s] /\ senders' = Closing(r)
  /\ UNCHANGED <<closeVars, handleVars, hookVars, slotVars, todo, ran>>

\* make_request
Submit(r) ==
  /\ Kind[r] = "buffered"
  /\ Accept(r, "accepted")
  /\ early' = [early EXCEPT ![r] = ToSet(requestHooks) \cup ToSet(responseHooks)]

\* send_streaming asks ensure_open first ...
SubmitStreaming(r) ==
  /\ Kind[r] = "streaming"
  /\ Accept(r, "preparing")
  /\ UNCHANGED early

\* ... and then reads its arguments, in Python code that may do anything, close()
\* included, and that may raise.
Prepared(r) ==
  /\ GilFree
  /\ Kind[r] = "streaming"
  /\ stage[r] = "preparing"
  /\ Goto(r, "accepted") \/ Goto(r, "refused")
  /\ UNCHANGED <<closeVars, handleVars, hookVars, slotVars, todo, ran, early>>

\* ws_connect, preconnect, preconnect_many, prefetch
SubmitConnect(r) ==
  /\ Kind[r] = "connect"
  /\ Accept(r, "accepted")
  /\ UNCHANGED early

\* First poll of execute_request: fire_request takes a snapshot of the list.
FireRequest(r) ==
  /\ GilFree
  /\ stage[r] = "accepted"
  /\ Kind[r] = "buffered"
  /\ Goto(r, "firing")
  /\ Through(r, requestHooks)
  /\ UNCHANGED <<closeVars, handleVars, hookVars, slotVars, ran, early>>

\* The other guarded futures fire no hook.
StartStreaming(r) ==
  /\ stage[r] = "accepted"
  /\ Kind[r] = "streaming"
  /\ \/ Goto(r, "passing") /\ Through(r, Chain)
     \/ Goto(r, "failed") /\ UNCHANGED todo
  /\ UNCHANGED <<closeVars, handleVars, hookVars, slotVars, ran, early>>

StartConnect(r) ==
  /\ stage[r] = "accepted"
  /\ Kind[r] = "connect"
  /\ Goto(r, "waiting")
  /\ UNCHANGED <<closeVars, handleVars, hookVars, slotVars, todo, ran, early>>

Record(r, callback) == ran' = [ran EXCEPT ![r] = @ \cup {callback}]

\* The snapshot is walked to its end: a hook that raises is only logged.
CallHook(r) ==
  /\ GilFree
  /\ stage[r] \in {"firing", "answering"}
  /\ todo[r] # <<>>
  /\ Record(r, Head(todo[r]))
  /\ Through(r, Tail(todo[r]))
  /\ UNCHANGED <<closeVars, handleVars, hookVars, slotVars, stageVars, early>>

\* apply_request_options may refuse the method or the timeout; else send().
Build(r) ==
  /\ stage[r] = "firing"
  /\ todo[r] = <<>>
  /\ \/ Goto(r, "passing") /\ Through(r, Chain)
     \/ Goto(r, "failed") /\ UNCHANGED todo
  /\ UNCHANGED <<closeVars, handleVars, hookVars, slotVars, ran, early>>

\* Middleware, on the way out: has_on_request is asked without the GIL ...
CheckOnRequest(r) ==
  /\ stage[r] = "passing"
  /\ IF todo[r] = <<>> THEN Goto(r, "waiting") /\ UNCHANGED todo
     ELSE IF Head(todo[r]) \in onRequest THEN Goto(r, "asking") /\ UNCHANGED todo
     ELSE Through(r, Tail(todo[r])) /\ UNCHANGED stageVars
  /\ UNCHANGED <<closeVars, handleVars, hookVars, slotVars, ran, early>>

\* Mutant: the callback found by the check is called whatever happened since.
RunOnRequestStale(r) ==
  /\ GilFree
  /\ stage[r] = "asking"
  /\ Record(r, <<Head(todo[r]), "request">>)
  /\ Goto(r, "passing") \/ Goto(r, "failed")
  /\ Through(r, Tail(todo[r]))
  /\ UNCHANGED <<closeVars, handleVars, hookVars, slotVars, early>>

\* ... and the slot is read again under it.  A callback that raises fails the
\* request; one that was released meanwhile lets it pass unchanged.
RunOnRequest(r) ==
  /\ GilFree
  /\ stage[r] = "asking"
  /\ IF Head(todo[r]) \in onRequest
     THEN /\ Record(r, <<Head(todo[r]), "request">>)
          /\ Goto(r, "passing") \/ Goto(r, "failed")
     ELSE Goto(r, "passing") /\ UNCHANGED ran
  /\ Through(r, Tail(todo[r]))
  /\ UNCHANGED <<closeVars, handleVars, hookVars, slotVars, early>>

\* The network answers, or fails; the middleware are passed as an onion, a
\* connect has none.
Answered(r) ==
  /\ stage[r] = "waiting"
  /\ \/ Kind[r] # "connect" /\ Goto(r, "returning") /\ Through(r, Reverse(Chain))
     \/ Kind[r] = "connect" /\ Goto(r, "done") /\ UNCHANGED todo
     \/ Goto(r, "failed") /\ UNCHANGED todo
  /\ UNCHANGED <<closeVars, handleVars, hookVars, slotVars, ran, early>>

CheckOnResponse(r) ==
  /\ stage[r] = "returning"
  /\ IF todo[r] = <<>>
     THEN Goto(r, IF Kind[r] = "buffered" THEN "received" ELSE "done") /\ UNCHANGED todo
     ELSE IF Head(todo[r]) \in onResponse THEN Goto(r, "asking back") /\ UNCHANGED todo
     ELSE Through(r, Tail(todo[r])) /\ UNCHANGED stageVars
  /\ UNCHANGED <<closeVars, handleVars, hookVars, slotVars, ran, early>>

RunOnResponse(r) ==
  /\ GilFree
  /\ stage[r] = "asking back"
  /\ IF Head(todo[r]) \in onResponse
     THEN /\ Record(r, <<Head(todo[r]), "response">>)
          /\ Goto(r, "returning") \/ Goto(r, "failed")
     ELSE Goto(r, "returning") /\ UNCHANGED ran
  /\ Through(r, Tail(todo[r]))
  /\ UNCHANGED <<closeVars, handleVars, hookVars, slotVars, early>>

\* The response is built and recorded; fire_response takes its snapshot.
FireResponse(r) ==
  /\ GilFree
  /\ stage[r] = "received"
  /\ Goto(r, "answering")
  /\ Through(r, responseHooks)
  /\ UNCHANGED <<closeVars, handleVars, hookVars, slotVars, ran, early>>

Finish(r) ==
  /\ stage[r] = "answering"
  /\ todo[r] = <<>>
  /\ Goto(r, "done")
  /\ UNCHANGED <<closeVars, handleVars, hookVars, slotVars, todo, ran, early>>

\* Where the future returns to tokio, so that select! can take its other arm.
Awaiting == {"accepted", "passing", "waiting", "returning"}

\* wait_for returns when the value is true, also if it was before - and when no
\* sender is left, neither the handle's nor a request's.
CloseHeard == closed \/ (life = "freed" /\ senders = {})

\* Mutant: the flag is only looked at before the request starts.
AbandonAtStart(r) ==
  /\ stage[r] = "accepted"
  /\ CloseHeard
  /\ Goto(r, "abandoned")
  /\ UNCHANGED <<closeVars, handleVars, hookVars, slotVars, todo, ran, early>>

\* Closing::guard: select! polls its two arms in a random order.
Abandon(r) ==
  /\ stage[r] \in Awaiting
  /\ CloseHeard
  /\ Goto(r, "abandoned")
  /\ UNCHANGED <<closeVars, handleVars, hookVars, slotVars, todo, ran, early>>

\* The bridge drops the future because Python cancelled it; a thread in block_on
\* cannot be.
Cancelled(r) ==
  /\ ~handle.blocking
  /\ stage[r] \in Awaiting
  /\ Goto(r, "cancelled")
  /\ UNCHANGED <<closeVars, handleVars, hookVars, slotVars, todo, ran, early>>

--------------------------------------------------------------------------------
\* What the runtime does with a request on its own, the network aside.
Work(r) ==
  \/ Prepared(r)
  \/ FireRequest(r) \/ StartStreaming(r) \/ StartConnect(r) \/ CallHook(r) \/ Build(r)
  \/ CheckOnRequest(r) \/ RunOnRequest(r)
  \/ CheckOnResponse(r) \/ RunOnResponse(r) \/ FireResponse(r) \/ Finish(r)

CloseGoesOn(c) ==
  \/ ClearRequestHooks(c) \/ ClearResponseHooks(c)
  \/ TakeOnRequest(c) \/ TakeOnResponse(c) \/ PoolClear(c)

Next ==
  \/ \E r \in Requests :
       \/ BadArguments(r) \/ Submit(r) \/ SubmitStreaming(r) \/ SubmitConnect(r)
       \/ Work(r) \/ Answered(r) \/ Abandon(r) \/ Cancelled(r)
  \/ \E c \in Closers : CloseFlag(c) \/ CloseGoesOn(c)
  \/ \E h \in RequestHooks : RegisterRequestHook(h)
  \/ \E h \in ResponseHooks : RegisterResponseHook(h)
  \/ DropHandle
  \/ Collect
  \/ Free

Spec == Init /\ [][Next]_vars

\* Tokio polls what is ready and what was woken, callbacks return, and a
\* close() that was begun goes on.  The network owes nothing.
Fairness ==
  /\ \A r \in Requests : WF_vars(Work(r)) /\ WF_vars(Abandon(r))
  /\ \A c \in Closers : WF_vars(CloseGoesOn(c))

FairSpec == Spec /\ Fairness

--------------------------------------------------------------------------------
\* Properties

CloseReturned == \E c \in Closers : closer[c] = "returned"

\* When close() has returned the session holds no Python callback, and it never
\* does again: not a hook registered by another thread while __del__ code ran
\* inside close(), nor a middleware callback of a slot passed over.
CloseLeavesNothing ==
  CloseReturned => /\ requestHooks = <<>> /\ responseHooks = <<>>
                   /\ onRequest = {} /\ onResponse = {}

\* No middleware callback begins once close() has returned, although requests
\* may have passed its has_on_... check before the slot was emptied.
NoMiddlewareAfterClose ==
  [][CloseReturned =>
       \A r \in Requests : ran'[r] \ ran[r] \subseteq Hooks]_vars

\* A request is abandoned only by an actual close(), never because every handle it
\* was made from is freed (await client.session().get(url)): some sender outlives
\* each request in flight, wherever it is.
OnlyCloseAbandons ==
  (\E r \in Requests : stage[r] = "abandoned") => closed

HeardItsHooks(r) ==
  stage[r] = "done" /\ Kind[r] = "buffered" => early[r] \subseteq ran[r]

\* A buffered request that ends well has called every hook that was registered
\* when it was made, whatever was registered, dropped, freed or raised meanwhile -
\* unless the session was closed, or its handle collected, under it.
HooksAreHeard ==
  ~closed /\ ~collected => \A r \in Requests : HeardItsHooks(r)

\* on_response promises a callback after each response.  The session is open, and
\* yet the collector, which finds its handle unreachable, takes the hooks away from
\* the request that is in flight.
OpenSessionsAreHeard ==
  ~closed => \A r \in Requests : HeardItsHooks(r)

\* Closing the session settles everything in flight, for good, even if the
\* network never answers: a request on an aborted connection just waits, and one
\* whose arguments were still being read has not even begun.
CloseSettles ==
  []<>closed => <>[](\A r \in Requests : stage[r] \in Over \cup {"new"})
================================================================================
