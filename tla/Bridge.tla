--------------------------------- MODULE Bridge ---------------------------------
(***************************************************************************)
(* src/src/bridge.rs: the tokio -> asyncio bridge and its in-flight count. *)
(*                                                                         *)
(* A crossing registers a guard (one unit of IN_FLIGHT.count), runs on     *)
(* tokio, parks the guard in its proxy's hand-off slot when it completes,  *)
(* and the proxy drops it when call_soon_threadsafe returns.  drain()      *)
(* waits for the count to reach zero.  Python sees results and drain       *)
(* answers in the FIFO order of its event loop.                            *)
(*                                                                         *)
(* Threads are interleaved at every atomic operation, lock, await and      *)
(* point where the GIL can change hands.  pyo3_async_runtimes, asyncio and *)
(* tokio::sync::Notify are external; they are modelled as bridge.rs uses   *)
(* them and says they behave.                                              *)
(***************************************************************************)
EXTENDS Naturals, Sequences, FiniteSets

CONSTANTS Tasks,      \* calls of future_into_py
          Drains,     \* calls of drain()
          Blocking,   \* the drains made by blocking_drain_pending
          Loops,      \* asyncio event loops of the process
          Home        \* the event loop each task and drain was called from

ASSUME TasksAssumption == IsFiniteSet(Tasks)
ASSUME HomeAssumption  == Home \in [Tasks \cup Drains -> Loops]
ASSUME DrainsAssumption == Blocking \subseteq Drains /\ Tasks \cap Drains = {}

VARIABLES
  count,      \* IN_FLIGHT.count
  notifying,  \* tasks whose guard took the count to zero, notify_waiters not yet called
  holder,     \* where each task's guard is
  task,       \* how far each task has got
  fut,        \* the asyncio future of each task
  ready,      \* the FIFO of scheduled callbacks of each loop
  open,       \* the loops that are not closed
  drain,      \* how far each drain has got
  notified,   \* drains whose current Notified has fired
  verdict,    \* the value each drain() returned
  covered     \* history: the tasks submitted when a drain read zero

flightVars == <<count, notifying, holder>>
loopVars   == <<ready, open>>
drainVars  == <<drain, notified, verdict, covered>>
vars == <<flightVars, task, fut, loopVars, drainVars>>

--------------------------------------------------------------------------------
Stages == {"new", "submitting", "running", "completed", "forwarding",
           "enqueued", "discarded", "raised", "stranded", "collected",
           "dropped"}

Holders == {"none", "wrapper", "handoff", "call"}

TypeOK ==
  /\ count \in Nat
  /\ notifying \subseteq Tasks
  /\ holder \in [Tasks -> Holders]
  /\ task \in [Tasks -> Stages]
  /\ fut \in [Tasks -> {"none", "pending", "done", "cancelled"}]
  /\ ready \in [Loops -> Seq(Tasks \cup Drains)]
  /\ open \subseteq Loops
  /\ drain \in [Drains -> {"idle", "arm", "check", "park", "wait", "answer",
                           "enqueued", "discarded", "observed"}]
  /\ notified \subseteq Drains
  /\ verdict \in [Drains -> {"none", "True", "False"}]
  /\ covered \in [Drains -> SUBSET Tasks]

Init ==
  /\ count = 0
  /\ notifying = {}
  /\ holder = [t \in Tasks |-> "none"]
  /\ task = [t \in Tasks |-> "new"]
  /\ fut = [t \in Tasks |-> "none"]
  /\ ready = [l \in Loops |-> <<>>]
  /\ open = Loops
  /\ drain = [d \in Drains |-> "idle"]
  /\ notified = {}
  /\ verdict = [d \in Drains |-> "none"]
  /\ covered = [d \in Drains |-> {}]

--------------------------------------------------------------------------------
\* The guard

\* Mutant: the crossing starts with a guard that counted nothing.
RegisterUncounted(t) ==
  /\ task[t] = "new"
  /\ task' = [task EXCEPT ![t] = "submitting"]
  /\ holder' = [holder EXCEPT ![t] = "wrapper"]
  /\ UNCHANGED <<count, notifying, fut, loopVars, drainVars>>

\* future_into_py registers before anything that can fail.
Register(t) ==
  /\ task[t] = "new"
  /\ task' = [task EXCEPT ![t] = "submitting"]
  /\ holder' = [holder EXCEPT ![t] = "wrapper"]
  /\ count' = count + 1
  /\ UNCHANGED <<notifying, fut, loopVars, drainVars>>

\* Drop for InFlightGuard: fetch_sub, then notify_waiters if it returned 1.
\* The two are separate atomic operations: WakeWaiters is the second.
FreeGuard(t) ==
  /\ holder' = [holder EXCEPT ![t] = "none"]
  /\ count' = count - 1
  /\ notifying' = IF count = 1 THEN notifying \cup {t} ELSE notifying

\* Mutant: the Notified is created only where it is awaited.
ListeningLate == {d \in Drains : drain[d] = "wait"}

\* A drain is registered with Notify from the creation of its Notified on.
Listening == {d \in Drains : drain[d] \in {"check", "park", "wait"}}

WakeWaiters(t) ==
  /\ t \in notifying
  /\ notifying' = notifying \ {t}
  /\ notified' = notified \cup Listening
  /\ UNCHANGED <<count, holder, task, fut, loopVars, drain, verdict, covered>>

--------------------------------------------------------------------------------
\* A tracked crossing

\* Mutant: a failed submission does not give its unit back.
SubmitFailsLeaks(t) ==
  /\ task[t] = "submitting"
  /\ task' = [task EXCEPT ![t] = "dropped"]
  /\ holder' = [holder EXCEPT ![t] = "none"]
  /\ UNCHANGED <<count, notifying, fut, loopVars, drainVars>>

\* bridged_into_py: no running event loop, or the proxy cannot be allocated.
\* The wrapper is dropped before its first poll, and the guard with it.
SubmitFails(t) ==
  /\ task[t] = "submitting"
  /\ task' = [task EXCEPT ![t] = "dropped"]
  /\ FreeGuard(t)
  /\ UNCHANGED <<fut, loopVars, drainVars>>

Spawn(t) ==
  /\ task[t] = "submitting"
  /\ task' = [task EXCEPT ![t] = "running"]
  /\ fut' = [fut EXCEPT ![t] = "pending"]
  /\ UNCHANGED <<flightVars, loopVars, drainVars>>

\* Mutant: the guard is dropped when the wrapper completes.
CompleteReleases(t) ==
  /\ task[t] = "running"
  /\ task' = [task EXCEPT ![t] = "completed"]
  /\ FreeGuard(t)
  /\ UNCHANGED <<fut, loopVars, drainVars>>

\* The inner future finished: its guard goes to the proxy's hand-off slot.
Complete(t) ==
  /\ task[t] = "running"
  /\ task' = [task EXCEPT ![t] = "completed"]
  /\ holder' = [holder EXCEPT ![t] = "handoff"]
  /\ UNCHANGED <<count, notifying, fut, loopVars, drainVars>>

\* The wrapper is dropped without completing: the inner future panicked ...
Panic(t) ==
  /\ task[t] = "running"
  /\ task' = [task EXCEPT ![t] = "dropped"]
  /\ FreeGuard(t)
  /\ UNCHANGED <<fut, loopVars, drainVars>>

\* ... or the bridge noticed that Python cancelled the future.
CancelNoticed(t) ==
  /\ fut[t] = "cancelled"
  /\ Panic(t)

\* Python cancels the future; nothing on the Rust side has seen it yet.
CancelFuture(t) ==
  /\ fut[t] = "pending"
  /\ fut' = [fut EXCEPT ![t] = "cancelled"]
  /\ UNCHANGED <<flightVars, task, loopVars, drainVars>>

\* The bridge delivers nothing to a cancelled future; the guard stays behind
\* in the proxy, whose last reference goes to pyo3's deferred-decref queue.
SkipDelivery(t) ==
  /\ task[t] = "completed"
  /\ fut[t] = "cancelled"
  /\ task' = [task EXCEPT ![t] = "stranded"]
  /\ UNCHANGED <<flightVars, fut, loopVars, drainVars>>

\* Mutant: the guard is taken out only once the loop is known to be open.
EnterProxyLeavesGuard(t) ==
  /\ task[t] = "completed"
  /\ fut[t] # "cancelled"
  /\ IF Home[t] \in open
     THEN /\ holder' = [holder EXCEPT ![t] = "call"]
          /\ task' = [task EXCEPT ![t] = "forwarding"]
     ELSE task' = [task EXCEPT ![t] = "discarded"] /\ UNCHANGED holder
  /\ UNCHANGED <<count, notifying, fut, loopVars, drainVars>>

\* call_soon_threadsafe takes the guard out of the slot, then asks is_closed().
EnterProxy(t) ==
  /\ task[t] = "completed"
  /\ fut[t] # "cancelled"
  /\ holder' = [holder EXCEPT ![t] = "call"]
  /\ task' = [task EXCEPT ![t] = IF Home[t] \in open THEN "forwarding"
                                                     ELSE "discarded"]
  /\ UNCHANGED <<count, notifying, fut, loopVars, drainVars>>

\* The real call_soon_threadsafe.  The loop may have closed since the check:
\* that error is swallowed.  Any other error goes back to the bridge.
ForwardResults(t) ==
  IF Home[t] \in open THEN {"enqueued", "raised"} ELSE {"discarded"}

Forward(t) ==
  /\ task[t] = "forwarding"
  /\ \E r \in ForwardResults(t) :
       /\ task' = [task EXCEPT ![t] = r]
       /\ ready' = IF r = "enqueued"
                   THEN [ready EXCEPT ![Home[t]] = Append(@, t)]
                   ELSE ready
  /\ UNCHANGED <<flightVars, fut, open, drainVars>>

\* Mutant: `let _ =` instead of `let _guard =` drops the guard on the spot.
ReturnEarly(t) ==
  /\ holder[t] = "call"
  /\ FreeGuard(t)
  /\ UNCHANGED <<task, fut, loopVars, drainVars>>

\* The proxy method returns, on whichever path: the guard is dropped.
Return(t) ==
  /\ holder[t] = "call"
  /\ task[t] # "forwarding"
  /\ FreeGuard(t)
  /\ UNCHANGED <<task, fut, loopVars, drainVars>>

--------------------------------------------------------------------------------
\* Deferred decrefs

\* Somebody acquires the GIL: pyo3 runs the decrefs queued so far.
Stranded == {t \in Tasks : task[t] = "stranded"}

RunDecrefs ==
  task' = [t \in Tasks |-> IF t \in Stranded THEN "collected" ELSE task[t]]

OtherGil ==
  /\ Stranded # {}
  /\ RunDecrefs
  /\ UNCHANGED <<flightVars, fut, loopVars, drainVars>>

\* One of those decrefs frees a proxy, and the guard in its slot.
FreeProxy(t) ==
  /\ task[t] = "collected"
  /\ task' = [task EXCEPT ![t] = "dropped"]
  /\ FreeGuard(t)
  /\ UNCHANGED <<fut, loopVars, drainVars>>

--------------------------------------------------------------------------------
\* drain()

To(d, s) == drain' = [drain EXCEPT ![d] = s]

Call(d) ==
  /\ drain[d] = "idle"
  /\ To(d, "arm")
  /\ UNCHANGED <<flightVars, task, fut, loopVars, notified, verdict, covered>>

\* let notified = IN_FLIGHT.idle.notified()
Arm(d) ==
  /\ drain[d] = "arm"
  /\ To(d, "check")
  /\ notified' = notified \ {d}
  /\ UNCHANGED <<flightVars, task, fut, loopVars, verdict, covered>>

\* if IN_FLIGHT.count.load() == 0 { return }
PendingCount == count

Check(d) ==
  /\ drain[d] = "check"
  /\ IF PendingCount = 0
     THEN /\ To(d, "answer")
          /\ verdict' = [verdict EXCEPT ![d] = "True"]
          /\ covered' = [covered EXCEPT ![d] = {t \in Tasks : task[t] # "new"}]
     ELSE /\ To(d, "park")
          /\ UNCHANGED <<verdict, covered>>
  /\ UNCHANGED <<flightVars, task, fut, loopVars, notified>>

\* timeout(100 ms, notified).await, polled for the first time.
Park(d) ==
  /\ drain[d] = "park"
  /\ To(d, "wait")
  /\ UNCHANGED <<flightVars, task, fut, loopVars, notified, verdict, covered>>

Wake(d) ==
  /\ drain[d] = "wait"
  /\ d \in notified
  /\ To(d, "arm")
  /\ UNCHANGED <<flightVars, task, fut, loopVars, notified, verdict, covered>>

\* Mutant: the wait goes round again without taking the GIL.
TapWithoutGil(d) ==
  /\ drain[d] = "wait"
  /\ d \notin notified
  /\ To(d, "arm")
  /\ UNCHANGED <<flightVars, task, fut, loopVars, notified, verdict, covered>>

\* 100 ms without a notification: take the GIL once, then go round again.
Tap(d) ==
  /\ drain[d] = "wait"
  /\ d \notin notified
  /\ To(d, "arm")
  /\ RunDecrefs
  /\ UNCHANGED <<flightVars, fut, loopVars, notified, verdict, covered>>

\* Mutant: an elapsed timeout is reported like a finished wait.
DeadlineIsTrue(d) ==
  /\ drain[d] = "wait"
  /\ d \notin notified
  /\ To(d, "answer")
  /\ verdict' = [verdict EXCEPT ![d] = "True"]
  /\ UNCHANGED <<flightVars, task, fut, loopVars, notified, covered>>

\* The caller's timeout; tokio polls the wait first, so a fired Notified wins.
Deadline(d) ==
  /\ drain[d] = "wait"
  /\ d \notin notified
  /\ To(d, "answer")
  /\ verdict' = [verdict EXCEPT ![d] = "False"]
  /\ UNCHANGED <<flightVars, task, fut, loopVars, notified, covered>>

\* drain_pending crosses the same bridge untracked: its slot is empty, and its
\* wake-up goes through the same proxy method.
Answer(d) ==
  /\ drain[d] = "answer"
  /\ d \notin Blocking
  /\ IF Home[d] \in open
     THEN To(d, "enqueued") /\ ready' = [ready EXCEPT ![Home[d]] = Append(@, d)]
     ELSE To(d, "discarded") /\ UNCHANGED ready
  /\ UNCHANGED <<flightVars, task, fut, open, notified, verdict, covered>>

\* blocking_drain_pending returns straight to its caller.
BlockingReturn(d) ==
  /\ drain[d] = "answer"
  /\ d \in Blocking
  /\ To(d, "observed")
  /\ UNCHANGED <<flightVars, task, fut, loopVars, notified, verdict, covered>>

--------------------------------------------------------------------------------
\* The event loop

\* Runs the oldest callback: a task's result is set unless its future was
\* cancelled meanwhile; a drain's wake-up lets Python see the verdict.
RunCallback(l) ==
  /\ l \in open
  /\ ready[l] # <<>>
  /\ LET x == Head(ready[l]) IN
       IF x \in Tasks
       THEN /\ fut' = [fut EXCEPT ![x] = IF @ = "pending" THEN "done" ELSE @]
            /\ UNCHANGED drain
       ELSE To(x, "observed") /\ UNCHANGED fut
  /\ ready' = [ready EXCEPT ![l] = Tail(@)]
  /\ UNCHANGED <<flightVars, task, open, notified, verdict, covered>>

\* loop.close() forgets what was still scheduled.
CloseLoop(l) ==
  /\ l \in open
  /\ open' = open \ {l}
  /\ ready' = [ready EXCEPT ![l] = <<>>]
  /\ UNCHANGED <<flightVars, task, fut, drainVars>>

--------------------------------------------------------------------------------
Crossing(t) ==
  \/ Register(t) \/ SubmitFails(t) \/ Spawn(t)
  \/ Complete(t) \/ Panic(t) \/ CancelFuture(t) \/ CancelNoticed(t)
  \/ SkipDelivery(t) \/ EnterProxy(t) \/ Forward(t) \/ Return(t)
  \/ FreeProxy(t) \/ WakeWaiters(t)

Draining(d) ==
  \/ Call(d) \/ Arm(d) \/ Check(d) \/ Park(d) \/ Wake(d) \/ Tap(d) \/ Deadline(d)
  \/ Answer(d) \/ BlockingReturn(d)

Next ==
  \/ \E t \in Tasks : Crossing(t)
  \/ \E d \in Drains : Draining(d)
  \/ \E l \in Loops : RunCallback(l) \/ CloseLoop(l)
  \/ OtherGil

Spec == Init /\ [][Next]_vars

\* Scheduled code runs: a step the Rust runtime or the interpreter is in the
\* middle of is finished.  Nothing is assumed of the network (Complete, Panic),
\* of Python code (Register, CancelFuture, CloseLoop), of other threads taking
\* the GIL (OtherGil) or of deadlines.
Fairness ==
  /\ \A t \in Tasks :
       /\ WF_vars(SubmitFails(t) \/ Spawn(t))
       /\ WF_vars(CancelNoticed(t))
       /\ WF_vars(SkipDelivery(t) \/ EnterProxy(t))
       /\ WF_vars(Forward(t))
       /\ WF_vars(Return(t))
       /\ WF_vars(FreeProxy(t))
       /\ WF_vars(WakeWaiters(t))
  /\ \A d \in Drains :
       /\ WF_vars(Arm(d))
       /\ WF_vars(Check(d) \/ Park(d))
       /\ WF_vars(Wake(d) \/ Tap(d))
       /\ WF_vars(Answer(d) \/ BlockingReturn(d))
  /\ \A l \in Loops : WF_vars(RunCallback(l))

FairSpec == Spec /\ Fairness

--------------------------------------------------------------------------------
\* Properties

Live == {t \in Tasks : holder[t] # "none"}

\* Who owns a guard follows from how far its crossing has got: exactly one of
\* the wrapper, the hand-off slot, the proxy method or nobody - never two owners,
\* and none left in the slot of a proxy that has already returned.
OwnershipFollowsTask ==
  \A t \in Tasks :
    /\ holder[t] = "wrapper" <=> task[t] \in {"submitting", "running"}
    /\ holder[t] = "handoff" <=> task[t] \in {"completed", "stranded", "collected"}
    /\ holder[t] = "call" => task[t] \in {"forwarding", "enqueued", "discarded", "raised"}
    /\ task[t] = "forwarding" => holder[t] = "call"

\* The count is the number of guards still owned by somebody: every path of
\* a crossing - failed submission, panic, cancellation, delivery, a proxy freed
\* by a deferred decref - gives back exactly the unit it took.
GuardAccounting == count = Cardinality(Live)

\* What drain() relies on when it reads zero: no crossing is being submitted or
\* run, and none is between its completion and the end of call_soon_threadsafe.
ZeroMeansSettled ==
  count = 0 => \A t \in Tasks :
    task[t] \in {"new", "enqueued", "discarded", "raised", "dropped"}

\* drain_pending() == True is a delivery guarantee: when Python sees it, each
\* future of that loop submitted before the drain read zero is done or
\* cancelled, unless its crossing was dropped or refused by the loop.
DrainDelivers ==
  \A d \in Drains \ Blocking :
    drain[d] = "observed" /\ verdict[d] = "True" =>
      \A t \in covered[d] :
        Home[t] = Home[d] =>
          fut[t] \in {"done", "cancelled"} \/ task[t] \in {"dropped", "raised"}

\* drain() registers with Notify before it reads the count, so a drain parked
\* at count zero has been notified or is about to be.
NoLostWakeup ==
  \A d \in Drains :
    drain[d] \in {"park", "wait"} /\ count = 0 => d \in notified \/ notifying # {}

\* Once the network has had its say on every running task, a drain returns,
\* even if a guard is stranded in a proxy and nothing else touches the GIL.
DrainReturns ==
  <>[](\A t \in Tasks : task[t] # "running") =>
    \A d \in Drains : drain[d] = "arm" ~> verdict[d] # "none"

\* The counter, its notification and the guards implement the promise of
\* drain_pending: True only at an instant at which no crossing is live, and
\* True eventually if that lasts.
Contract == INSTANCE DrainContract WITH
  begun  <- {t \in Tasks : task[t] # "new"},
  live   <- Live,
  answer <- [d \in Drains |->
               IF drain[d] = "idle" THEN "none"
               ELSE IF verdict[d] = "True" THEN "yes"
               ELSE IF verdict[d] = "False" THEN "no" ELSE "asked"]

ImplementsContract == Contract!Spec

\* The module documentation of bridge.rs, taken at its word: when Python
\* observes True, every tracked future of the process is done.  Futures of
\* closed loops, and crossings that were dropped or refused, are left out.
DrainTrueMeansAllDone ==
  \A d \in Drains \ Blocking :
    drain[d] = "observed" /\ verdict[d] = "True" =>
      \A t \in covered[d] :
        Home[t] \in open =>
          fut[t] \in {"done", "cancelled"} \/ task[t] \in {"dropped", "raised"}
================================================================================
