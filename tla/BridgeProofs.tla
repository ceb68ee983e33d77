------------------------------ MODULE BridgeProofs ------------------------------
(***************************************************************************)
(* Proofs about Bridge for any finite set of crossings, any set of drains  *)
(* and any number of event loops.                                          *)
(***************************************************************************)
EXTENDS Bridge, FiniteSetTheorems, TLAPS

--------------------------------------------------------------------------------
\* Guards and the count

\* The inductive invariant.  TypeOK alone is not inductive: that FreeGuard
\* leaves the count in Nat depends on the count being the number of guards.
IInv == TypeOK /\ OwnershipFollowsTask /\ GuardAccounting

\* Taking one unit for a guard that did not exist keeps the books balanced.
LEMMA RegisterCounts ==
  ASSUME IInv, NEW t \in Tasks, Register(t)
  PROVE  count' \in Nat /\ GuardAccounting'
<1>1. t \notin Live /\ Live' = Live \cup {t}
  BY DEF IInv, TypeOK, OwnershipFollowsTask, Live, Register, Stages, Holders
<1>2. IsFiniteSet(Live)
  BY TasksAssumption, FS_Subset DEF Live
<1>3. Cardinality(Live') = Cardinality(Live) + 1
  BY <1>1, <1>2, FS_AddElement
<1> QED  BY <1>3 DEF IInv, TypeOK, GuardAccounting, Register

\* Dropping a live guard keeps the books balanced, and the count natural.
LEMMA FreeGuardCounts ==
  ASSUME IInv, NEW t \in Tasks, holder[t] # "none", FreeGuard(t)
  PROVE  count' \in Nat /\ GuardAccounting' /\ count > 0
<1>1. t \in Live /\ Live' = Live \ {t}
  BY DEF IInv, TypeOK, Live, FreeGuard, Holders
<1>2. IsFiniteSet(Live)
  BY TasksAssumption, FS_Subset DEF Live
<1>3. Cardinality(Live') = Cardinality(Live) - 1
  BY <1>1, <1>2, FS_RemoveElement
<1>4. Cardinality(Live') \in Nat
  BY <1>1, <1>2, FS_RemoveElement, FS_CardinalityType
<1> QED  BY <1>3, <1>4 DEF IInv, TypeOK, GuardAccounting, FreeGuard

\* Whoever drops a guard holds one.
LEMMA FreeingIsLegal ==
  ASSUME IInv, NEW t \in Tasks,
         SubmitFails(t) \/ Panic(t) \/ Return(t) \/ FreeProxy(t)
  PROVE  holder[t] # "none" /\ FreeGuard(t)
BY DEF IInv, OwnershipFollowsTask, SubmitFails, Panic, Return, FreeProxy

--------------------------------------------------------------------------------
\* Type correctness

\* Types are preserved; FreeGuard needs the books to be balanced.
LEMMA TypeStep == IInv /\ [Next]_vars => TypeOK'
<1> SUFFICES ASSUME IInv, [Next]_vars PROVE TypeOK'
  OBVIOUS
<1> USE DEF IInv, TypeOK, Stages, Holders, flightVars, loopVars, drainVars
<1>1. ASSUME NEW t \in Tasks, Crossing(t) PROVE TypeOK'
  <2>1. CASE Register(t)  BY <2>1 DEF Register
  <2>2. CASE SubmitFails(t)
    BY <2>2, FreeingIsLegal, FreeGuardCounts DEF SubmitFails, FreeGuard
  <2>3. CASE Spawn(t)  BY <2>3 DEF Spawn
  <2>4. CASE Complete(t)  BY <2>4 DEF Complete
  <2>5. ASSUME Panic(t) PROVE TypeOK'
    BY <2>5, FreeingIsLegal, FreeGuardCounts DEF Panic, FreeGuard
  <2>6. CASE CancelFuture(t)  BY <2>6 DEF CancelFuture
  <2>7. CASE CancelNoticed(t)  BY <2>7, <2>5 DEF CancelNoticed
  <2>8. CASE SkipDelivery(t)  BY <2>8 DEF SkipDelivery
  <2>9. CASE EnterProxy(t)  BY <2>9 DEF EnterProxy
  <2>10. CASE Forward(t)  BY <2>10, HomeAssumption DEF Forward, ForwardResults
  <2>11. CASE Return(t)
    BY <2>11, FreeingIsLegal, FreeGuardCounts DEF Return, FreeGuard
  <2>12. CASE FreeProxy(t)
    BY <2>12, FreeingIsLegal, FreeGuardCounts DEF FreeProxy, FreeGuard
  <2>13. CASE WakeWaiters(t)  BY <2>13 DEF WakeWaiters, Listening
  <2> QED  BY <1>1, <2>1, <2>2, <2>3, <2>4, <2>5, <2>6, <2>7, <2>8, <2>9,
              <2>10, <2>11, <2>12, <2>13 DEF Crossing
<1>2. ASSUME NEW d \in Drains, Draining(d) PROVE TypeOK'
  <2>1. CASE Call(d)  BY <2>1 DEF Call, To
  <2>2. CASE Arm(d)  BY <2>2 DEF Arm, To
  <2>3. CASE Check(d)
    <3>1. CASE PendingCount = 0
      <4>1. {t \in Tasks : task[t] # "new"} \in SUBSET Tasks
        OBVIOUS
      <4> QED  BY <2>3, <3>1, <4>1 DEF Check, To
    <3>2. CASE PendingCount # 0  BY <2>3, <3>2 DEF Check, To
    <3> QED  BY <3>1, <3>2
  <2>4. CASE Park(d) \/ Wake(d)  BY <2>4 DEF Park, Wake, To
  <2>5. CASE Tap(d)  BY <2>5 DEF Tap, To, RunDecrefs, Stranded
  <2>6. CASE Deadline(d)  BY <2>6 DEF Deadline, To
  <2>7. CASE Answer(d)
    <3>1. Home[d] \in Loops  BY HomeAssumption
    <3>2. Append(ready[Home[d]], d) \in Seq(Tasks \cup Drains)  BY <3>1
    <3>3. ready' \in [Loops -> Seq(Tasks \cup Drains)]  BY <2>7, <3>2 DEF Answer
    <3>4. drain' \in [Drains -> {"idle", "arm", "check", "park", "wait", "answer",
                                 "enqueued", "discarded", "observed"}]
      BY <2>7 DEF Answer, To
    <3> QED  BY <2>7, <3>3, <3>4 DEF Answer
  <2>8. CASE BlockingReturn(d)  BY <2>8 DEF BlockingReturn, To
  <2> QED  BY <1>2, <2>1, <2>2, <2>3, <2>4, <2>5, <2>6, <2>7, <2>8 DEF Draining
<1>3. ASSUME NEW l \in Loops, RunCallback(l) PROVE TypeOK'
  <2>1. ready[l] \in Seq(Tasks \cup Drains) /\ ready[l] # <<>>
    BY <1>3 DEF RunCallback
  <2>2. Head(ready[l]) \in Tasks \cup Drains /\ Tail(ready[l]) \in Seq(Tasks \cup Drains)
    BY <2>1
  <2>3. ready' \in [Loops -> Seq(Tasks \cup Drains)]
    BY <1>3, <2>2 DEF RunCallback
  <2>4. CASE Head(ready[l]) \in Tasks
    <3>1. fut' \in [Tasks -> {"none", "pending", "done", "cancelled"}]
      BY <1>3, <2>4 DEF RunCallback
    <3> QED  BY <1>3, <2>3, <2>4, <3>1 DEF RunCallback
  <2>5. CASE Head(ready[l]) \notin Tasks
    <3>1. drain' \in [Drains -> {"idle", "arm", "check", "park", "wait", "answer",
                                 "enqueued", "discarded", "observed"}]
      BY <1>3, <2>2, <2>5 DEF RunCallback, To
    <3> QED  BY <1>3, <2>3, <2>5, <3>1 DEF RunCallback
  <2> QED  BY <2>4, <2>5
<1>4. ASSUME NEW l \in Loops, CloseLoop(l) PROVE TypeOK'
  BY <1>4 DEF CloseLoop
<1>5. CASE OtherGil  BY <1>5 DEF OtherGil, RunDecrefs, Stranded
<1>6. CASE UNCHANGED vars  BY <1>6 DEF vars
<1> QED  BY <1>1, <1>2, <1>3, <1>4, <1>5, <1>6 DEF Next

--------------------------------------------------------------------------------
\* Ownership and accounting

\* Each step hands a guard on exactly when it moves its crossing on.
LEMMA OwnershipStep == IInv /\ [Next]_vars => OwnershipFollowsTask'
<1> SUFFICES ASSUME IInv, [Next]_vars PROVE OwnershipFollowsTask'
  OBVIOUS
<1> USE DEF IInv, TypeOK, OwnershipFollowsTask, Stages, Holders,
            flightVars, loopVars, drainVars
<1>1. ASSUME NEW t \in Tasks, Crossing(t) PROVE OwnershipFollowsTask'
  <2>1. CASE Register(t)  BY <2>1 DEF Register
  <2>2. CASE SubmitFails(t)  BY <2>2 DEF SubmitFails, FreeGuard
  <2>3. CASE Spawn(t)  BY <2>3 DEF Spawn
  <2>4. CASE Complete(t)  BY <2>4 DEF Complete
  <2>5. ASSUME Panic(t) PROVE OwnershipFollowsTask'
    BY <2>5 DEF Panic, FreeGuard
  <2>6. CASE CancelFuture(t)  BY <2>6 DEF CancelFuture
  <2>7. CASE CancelNoticed(t)  BY <2>7, <2>5 DEF CancelNoticed
  <2>8. CASE SkipDelivery(t)  BY <2>8 DEF SkipDelivery
  <2>9. CASE EnterProxy(t)  BY <2>9 DEF EnterProxy
  <2>10. CASE Forward(t)  BY <2>10 DEF Forward, ForwardResults
  <2>11. CASE Return(t)  BY <2>11 DEF Return, FreeGuard
  <2>12. CASE FreeProxy(t)  BY <2>12 DEF FreeProxy, FreeGuard
  <2>13. CASE WakeWaiters(t)  BY <2>13 DEF WakeWaiters
  <2> QED  BY <1>1, <2>1, <2>2, <2>3, <2>4, <2>5, <2>6, <2>7, <2>8, <2>9,
              <2>10, <2>11, <2>12, <2>13 DEF Crossing
<1>2. ASSUME NEW d \in Drains, Draining(d) PROVE OwnershipFollowsTask'
  <2>1. CASE Tap(d)  BY <2>1 DEF Tap, RunDecrefs, Stranded
  <2>2. CASE ~Tap(d)
    <3>1. UNCHANGED <<holder, task>>
      BY <1>2, <2>2 DEF Draining, Call, Arm, Check, Park, Wake, Deadline, Answer,
                        BlockingReturn
    <3> QED  BY <3>1
  <2> QED  BY <2>1, <2>2
<1>3. ASSUME NEW l \in Loops, RunCallback(l) \/ CloseLoop(l)
      PROVE  OwnershipFollowsTask'
  BY <1>3 DEF RunCallback, CloseLoop
<1>4. CASE OtherGil  BY <1>4 DEF OtherGil, RunDecrefs, Stranded
<1>5. CASE UNCHANGED vars  BY <1>5 DEF vars
<1> QED  BY <1>1, <1>2, <1>3, <1>4, <1>5 DEF Next

\* Each step changes the count by what it does to the set of guards.
LEMMA AccountingStep == IInv /\ [Next]_vars => GuardAccounting'
<1> SUFFICES ASSUME IInv, [Next]_vars PROVE GuardAccounting'
  OBVIOUS
<1>1. ASSUME UNCHANGED count, Live' = Live PROVE GuardAccounting'
  BY <1>1 DEF IInv, GuardAccounting
<1>2. ASSUME NEW t \in Tasks, Crossing(t) PROVE GuardAccounting'
  <2>1. CASE Register(t)  BY <2>1, RegisterCounts
  <2>2. CASE SubmitFails(t) \/ Panic(t) \/ Return(t) \/ FreeProxy(t)
    BY <2>2, FreeingIsLegal, FreeGuardCounts
  <2>3. CASE CancelNoticed(t)
    BY <2>3, FreeingIsLegal, FreeGuardCounts DEF CancelNoticed
  <2>4. CASE Complete(t)
    <3>1. Live' = Live
      BY <2>4 DEF Complete, Live, IInv, TypeOK, OwnershipFollowsTask, Holders
    <3> QED  BY <3>1, <1>1, <2>4 DEF Complete
  <2>5. CASE EnterProxy(t)
    <3>1. Live' = Live
      BY <2>5 DEF EnterProxy, Live, IInv, TypeOK, OwnershipFollowsTask, Holders
    <3> QED  BY <3>1, <1>1, <2>5 DEF EnterProxy
  <2>6. CASE Spawn(t) \/ CancelFuture(t) \/ SkipDelivery(t) \/ Forward(t)
             \/ WakeWaiters(t)
    BY <2>6, <1>1 DEF Spawn, CancelFuture, SkipDelivery, Forward, WakeWaiters,
                      flightVars, Live
  <2> QED  BY <1>2, <2>1, <2>2, <2>3, <2>4, <2>5, <2>6 DEF Crossing
<1>3. ASSUME NEW d \in Drains, Draining(d) PROVE GuardAccounting'
  BY <1>1, <1>3 DEF Draining, Call, Arm, Check, Park, Wake, Tap, Deadline, Answer,
                    BlockingReturn, flightVars, Live
<1>4. ASSUME NEW l \in Loops, RunCallback(l) \/ CloseLoop(l)
      PROVE  GuardAccounting'
  BY <1>1, <1>4 DEF RunCallback, CloseLoop, flightVars, Live
<1>5. CASE OtherGil  BY <1>1, <1>5 DEF OtherGil, flightVars, Live
<1>6. CASE UNCHANGED vars  BY <1>1, <1>6 DEF vars, flightVars, Live
<1> QED  BY <1>2, <1>3, <1>4, <1>5, <1>6 DEF Next

\* The inductive invariant holds in every reachable state.
LEMMA IInvInductive == Spec => []IInv
<1>1. Init => IInv
  <2> SUFFICES ASSUME Init PROVE IInv
    OBVIOUS
  <2>1. TypeOK  BY DEF Init, TypeOK, Stages, Holders
  <2>2. OwnershipFollowsTask  BY DEF Init, OwnershipFollowsTask
  <2>3. Live = {}  BY DEF Init, Live
  <2>4. GuardAccounting  BY <2>3, FS_EmptySet DEF Init, GuardAccounting
  <2> QED  BY <2>1, <2>2, <2>4 DEF IInv
<1>2. IInv /\ [Next]_vars => IInv'
  BY TypeStep, OwnershipStep, AccountingStep DEF IInv
<1> QED  BY <1>1, <1>2, PTL DEF Spec

--------------------------------------------------------------------------------
\* The theorems

\* Every variable of the bridge keeps its type; in particular fetch_sub never
\* takes the count below zero.
THEOREM TypeCorrect == Spec => []TypeOK
BY IInvInductive, PTL DEF IInv

\* A guard has one owner, and which one follows from the crossing's progress.
THEOREM GuardsAreOwned == Spec => []OwnershipFollowsTask
BY IInvInductive, PTL DEF IInv

\* IN_FLIGHT.count is the number of guards alive, whatever fails and whoever
\* cancels.
THEOREM GuardsAreCounted == Spec => []GuardAccounting
BY IInvInductive, PTL DEF IInv

\* A count of zero leaves no guard anywhere.
LEMMA ZeroMeansNoGuard == IInv /\ count = 0 => \A t \in Tasks : holder[t] = "none"
<1> SUFFICES ASSUME IInv, count = 0 PROVE Live = {}
  BY DEF Live
<1>1. IsFiniteSet(Live)
  BY TasksAssumption, FS_Subset DEF Live
<1> QED  BY <1>1, FS_EmptySet DEF IInv, GuardAccounting

\* A drain that reads zero may rely on every completed result being in its
\* loop's queue or knowingly dropped.
THEOREM ZeroIsSettled == Spec => []ZeroMeansSettled
<1>1. IInv => ZeroMeansSettled
  <2> SUFFICES ASSUME IInv, count = 0, NEW t \in Tasks
               PROVE  task[t] \in {"new", "enqueued", "discarded", "raised", "dropped"}
    BY DEF ZeroMeansSettled
  <2>1. holder[t] = "none"  BY ZeroMeansNoGuard
  <2> QED  BY <2>1 DEF IInv, TypeOK, OwnershipFollowsTask, Stages
<1> QED  BY <1>1, IInvInductive, PTL

--------------------------------------------------------------------------------
\* Notifications

\* No step parks a drain at zero without a notification on its way.
LEMMA WakeupStep == IInv /\ NoLostWakeup /\ [Next]_vars => NoLostWakeup'
<1> SUFFICES ASSUME IInv, NoLostWakeup, [Next]_vars PROVE NoLostWakeup'
  OBVIOUS
<1> USE DEF NoLostWakeup, IInv, TypeOK
\* A step that can only move the count up, or announces that it reached zero.
<1>1. ASSUME UNCHANGED <<drain, notified>>, notifying \subseteq notifying',
             count' = 0 => count = 0 \/ notifying' # {}
      PROVE  NoLostWakeup'
  BY <1>1
<1>2. ASSUME NEW t \in Tasks, FreeGuard(t), UNCHANGED drainVars
      PROVE  NoLostWakeup'
  <2>1. count' = 0 => notifying' # {}
    BY <1>2 DEF FreeGuard
  <2>2. notifying \subseteq notifying'
    BY <1>2 DEF FreeGuard
  <2> QED  BY <1>1, <1>2, <2>1, <2>2 DEF drainVars
<1>3. ASSUME NEW t \in Tasks, Crossing(t) PROVE NoLostWakeup'
  <2>1. CASE Register(t)  BY <2>1, <1>1 DEF Register, drainVars
  <2>2. CASE SubmitFails(t) \/ Panic(t) \/ CancelNoticed(t) \/ Return(t) \/ FreeProxy(t)
    BY <2>2, <1>2 DEF SubmitFails, Panic, CancelNoticed, Return, FreeProxy
  <2>3. CASE Spawn(t) \/ Complete(t) \/ CancelFuture(t) \/ SkipDelivery(t)
             \/ EnterProxy(t) \/ Forward(t)
    BY <2>3, <1>1 DEF Spawn, Complete, CancelFuture, SkipDelivery, EnterProxy,
                      Forward, flightVars, drainVars
  <2>4. CASE WakeWaiters(t)  BY <2>4 DEF WakeWaiters, Listening
  <2> QED  BY <1>3, <2>1, <2>2, <2>3, <2>4 DEF Crossing
<1>4. ASSUME NEW d \in Drains, Draining(d) PROVE NoLostWakeup'
  <2>1. CASE Arm(d)  BY <2>1 DEF Arm, To, flightVars
  <2>2. CASE Check(d)  BY <2>2 DEF Check, To, PendingCount, flightVars
  <2>3. CASE Call(d) \/ Park(d) \/ Wake(d) \/ Tap(d) \/ Deadline(d) \/ Answer(d) \/ BlockingReturn(d)
    BY <2>3 DEF Call, Park, Wake, Tap, Deadline, Answer, BlockingReturn, To, flightVars
  <2> QED  BY <1>4, <2>1, <2>2, <2>3 DEF Draining
<1>5. ASSUME NEW l \in Loops, RunCallback(l) PROVE NoLostWakeup'
  BY <1>5 DEF RunCallback, To, flightVars
<1>6. ASSUME NEW l \in Loops, CloseLoop(l) PROVE NoLostWakeup'
  BY <1>6 DEF CloseLoop, flightVars, drainVars
<1>7. CASE OtherGil  BY <1>7 DEF OtherGil, flightVars, drainVars
<1>8. CASE UNCHANGED vars  BY <1>8 DEF vars, flightVars, drainVars
<1> QED  BY <1>3, <1>4, <1>5, <1>6, <1>7, <1>8 DEF Next

\* A drain parked while the count is zero has been or is being notified: the
\* order "register, then read" in drain() leaves no window.
THEOREM NoWakeupIsLost == Spec => []NoLostWakeup
<1>1. Init => NoLostWakeup
  BY DEF Init, NoLostWakeup
<1> QED  BY <1>1, WakeupStep, IInvInductive, PTL DEF Spec

--------------------------------------------------------------------------------
(* What the FIFO of the event loop adds to the counting invariants: the delivery
   guarantee of drain_pending, and the refinement of DrainContract. *)

\* The strengthening of DrainDelivers

\* A drain has its verdict exactly when its wait is over.
VerdictWhenOver ==
  \A d \in Drains :
    verdict[d] = "none" <=> drain[d] \in {"idle", "arm", "check", "park", "wait"}

\* Only open loops have callbacks; each is on its caller's loop, and a drain's
\* wake-up is scheduled at most once.
QueueOwned ==
  \A l \in Loops : \A i \in 1..Len(ready[l]) :
    /\ l \in open
    /\ Home[ready[l][i]] = l
    /\ ready[l][i] \in Drains =>
         /\ drain[ready[l][i]] = "enqueued"
         /\ \A j \in 1..Len(ready[l]) : ready[l][j] = ready[l][i] => j = i

\* Where a crossing that has been spawned left its result.
ResultPlaced ==
  \A t \in Tasks :
    /\ task[t] \notin {"new", "submitting", "dropped"} => fut[t] # "none"
    /\ task[t] = "discarded" => Home[t] \notin open
    /\ task[t] = "enqueued" /\ fut[t] = "pending" /\ Home[t] \in open =>
         \E i \in 1..Len(ready[Home[t]]) : ready[Home[t]][i] = t

Settled == {"enqueued", "discarded", "raised", "dropped"}

\* t's callback is in the queue of d's loop, before any wake-up of d.
Before(t, d) ==
  \E i \in 1..Len(ready[Home[d]]) :
    /\ ready[Home[d]][i] = t
    /\ \A j \in 1..i : ready[Home[d]][j] # d

\* When a drain saw zero, the results it covers had been placed; those still
\* to be seen by Python are ahead of its wake-up.
ResultsAhead ==
  \A d \in Drains : verdict[d] = "True" =>
    \A t \in covered[d] :
      /\ task[t] \in Settled
      /\ (/\ drain[d] = "enqueued" /\ Home[d] \in open /\ Home[t] = Home[d]
          /\ task[t] = "enqueued" /\ fut[t] = "pending") => Before(t, d)

DInv == VerdictWhenOver /\ QueueOwned /\ ResultPlaced /\ ResultsAhead /\ DrainDelivers

--------------------------------------------------------------------------------
\* Sequences

\* Appending leaves the existing positions alone.
LEMMA AppendIndex ==
  ASSUME NEW S, NEW q \in Seq(S), NEW x \in S
  PROVE  /\ Len(q) \in Nat /\ Len(Append(q, x)) = Len(q) + 1
         /\ \A i \in 1..Len(q) : Append(q, x)[i] = q[i]
         /\ Append(q, x)[Len(q) + 1] = x
OBVIOUS

\* Dropping the head moves every other position down by one.
LEMMA TailIndex ==
  ASSUME NEW S, NEW q \in Seq(S), q # <<>>
  PROVE  /\ Len(q) \in Nat \ {0} /\ Len(Tail(q)) = Len(q) - 1
         /\ \A i \in 1..(Len(q) - 1) : Tail(q)[i] = q[i + 1]
         /\ Head(q) = q[1]
OBVIOUS

--------------------------------------------------------------------------------
\* Each conjunct is preserved

\* A verdict is given when the wait ends and never changes the stage after.
LEMMA VerdictStep == TypeOK /\ DInv /\ [Next]_vars => VerdictWhenOver'
<1> SUFFICES ASSUME TypeOK, DInv, [Next]_vars PROVE VerdictWhenOver'
  OBVIOUS
<1> USE DEF TypeOK, DInv, VerdictWhenOver
<1>1. ASSUME UNCHANGED <<drain, verdict>> PROVE VerdictWhenOver'
  BY <1>1
<1>2. ASSUME NEW t \in Tasks, Crossing(t) PROVE VerdictWhenOver'
  BY <1>1, <1>2 DEF Crossing, Register, SubmitFails, Spawn, Complete, Panic,
     CancelFuture, CancelNoticed, SkipDelivery, EnterProxy, Forward, Return,
     FreeProxy, WakeWaiters, drainVars
<1>3. ASSUME NEW d \in Drains, Draining(d) PROVE VerdictWhenOver'
  <2>1. CASE Call(d) \/ Arm(d) \/ Park(d) \/ Wake(d) \/ Tap(d)
    BY <2>1 DEF Call, Arm, Park, Wake, Tap, To
  <2>2. CASE Check(d)  BY <2>2 DEF Check, To
  <2>3. CASE Deadline(d)  BY <2>3 DEF Deadline, To
  <2>4. CASE Answer(d)  BY <2>4 DEF Answer, To
  <2>5. CASE BlockingReturn(d)  BY <2>5 DEF BlockingReturn, To
  <2> QED  BY <1>3, <2>1, <2>2, <2>3, <2>4, <2>5 DEF Draining
<1>4. ASSUME NEW l \in Loops, RunCallback(l) PROVE VerdictWhenOver'
  <2>1. CASE Head(ready[l]) \in Tasks
    BY <1>1, <1>4, <2>1 DEF RunCallback
  <2>2. CASE Head(ready[l]) \notin Tasks
    <3>1. ready[l][1] = Head(ready[l]) /\ 1 \in 1..Len(ready[l]) /\ Head(ready[l]) \in Tasks \cup Drains
      BY <1>4, TailIndex DEF RunCallback
    <3>2. drain[Head(ready[l])] = "enqueued"
      BY <2>2, <3>1 DEF QueueOwned
    <3> QED  BY <1>4, <2>2, <3>1, <3>2 DEF RunCallback, To
  <2> QED  BY <2>1, <2>2
<1>5. ASSUME NEW l \in Loops, CloseLoop(l) PROVE VerdictWhenOver'
  BY <1>1, <1>5 DEF CloseLoop, drainVars
<1>6. CASE OtherGil  BY <1>1, <1>6 DEF OtherGil, drainVars
<1>7. CASE UNCHANGED vars  BY <1>1, <1>7 DEF vars, drainVars
<1> QED  BY <1>2, <1>3, <1>4, <1>5, <1>6, <1>7 DEF Next

\* Callbacks are only scheduled by their owner, once, on its open loop.
LEMMA QueueStep == TypeOK /\ DInv /\ [Next]_vars => QueueOwned'
<1> SUFFICES ASSUME TypeOK, DInv, [Next]_vars PROVE QueueOwned'
  OBVIOUS
<1> USE DEF TypeOK, DInv, QueueOwned
<1>1. ASSUME UNCHANGED <<loopVars, drain>> PROVE QueueOwned'
  BY <1>1 DEF loopVars
<1>2. ASSUME NEW t \in Tasks, Crossing(t) PROVE QueueOwned'
  <2>1. CASE Forward(t)
    <3>1. CASE UNCHANGED ready
      BY <1>1, <2>1, <3>1 DEF Forward, loopVars, drainVars
    <3>2. CASE /\ Home[t] \in open
               /\ ready' = [ready EXCEPT ![Home[t]] = Append(@, t)]
      <4> DEFINE q == ready[Home[t]]
      <4>1. Home[t] \in Loops /\ q \in Seq(Tasks \cup Drains)
        BY HomeAssumption
      <4>2. /\ Len(q) \in Nat /\ Len(Append(q, t)) = Len(q) + 1
            /\ \A i \in 1..Len(q) : Append(q, t)[i] = q[i]
            /\ Append(q, t)[Len(q) + 1] = t
        BY <4>1, AppendIndex
      <4>3. UNCHANGED <<open, drain>> /\ t \notin Drains
        BY <2>1, DrainsAssumption DEF Forward, drainVars
      <4> QED  BY <3>2, <4>1, <4>2, <4>3
    <3> QED  BY <2>1, <3>1, <3>2 DEF Forward, ForwardResults
  <2>2. CASE ~ Forward(t)
    BY <1>1, <1>2, <2>2 DEF Crossing, Register, SubmitFails, Spawn, Complete,
       Panic, CancelFuture, CancelNoticed, SkipDelivery, EnterProxy, Return,
       FreeProxy, WakeWaiters, drainVars
  <2> QED  BY <2>1, <2>2
<1>3. ASSUME NEW d \in Drains, Draining(d) PROVE QueueOwned'
  <2>1. CASE Answer(d) /\ Home[d] \in open
    <3> DEFINE q == ready[Home[d]]
    <3>1. Home[d] \in Loops /\ q \in Seq(Tasks \cup Drains)
      BY HomeAssumption
    <3>2. /\ Len(q) \in Nat /\ Len(Append(q, d)) = Len(q) + 1
          /\ \A i \in 1..Len(q) : Append(q, d)[i] = q[i]
          /\ Append(q, d)[Len(q) + 1] = d
      BY <3>1, AppendIndex
    <3>3. \A l \in Loops : \A i \in 1..Len(ready[l]) : ready[l][i] # d
      <4> SUFFICES ASSUME NEW l \in Loops, NEW i \in 1..Len(ready[l]), ready[l][i] = d
                   PROVE  FALSE
        OBVIOUS
      <4>1. drain[ready[l][i]] = "enqueued"  OBVIOUS
      <4> QED  BY <2>1, <4>1 DEF Answer
    <3>4. /\ ready' = [ready EXCEPT ![Home[d]] = Append(q, d)]
          /\ drain' = [drain EXCEPT ![d] = "enqueued"] /\ UNCHANGED open
      BY <2>1 DEF Answer, To
    <3>5. ASSUME NEW l \in Loops, NEW i \in 1..Len(ready'[l])
          PROVE  /\ l \in open'
                 /\ Home[ready'[l][i]] = l
                 /\ ready'[l][i] \in Drains =>
                      /\ drain'[ready'[l][i]] = "enqueued"
                      /\ \A j \in 1..Len(ready'[l]) : ready'[l][j] = ready'[l][i] => j = i
      <4>1. CASE l = Home[d]
        <5>1. ready'[l] = Append(q, d)  BY <3>1, <3>4, <4>1
        <5>2. CASE i = Len(q) + 1
          BY <2>1, <3>2, <3>3, <3>4, <4>1, <5>1, <5>2
        <5>3. CASE i \in 1..Len(q)
          BY <2>1, <3>2, <3>3, <3>4, <4>1, <5>1, <5>3
        <5> QED  BY <3>2, <5>1, <5>2, <5>3
      <4>2. CASE l # Home[d]
        BY <3>3, <3>4, <4>2
      <4> QED  BY <4>1, <4>2
    <3> QED  BY <3>5
  <2>2. CASE ~(Answer(d) /\ Home[d] \in open)
    <3>1. drain[d] # "enqueued" /\ UNCHANGED <<ready, open>>
      BY <1>3, <2>2 DEF Draining, Call, Arm, Check, Park, Wake, Tap, Deadline, Answer,
                        BlockingReturn, loopVars
    <3>2. \A e \in Drains \ {d} : drain'[e] = drain[e]
      BY <1>3 DEF Draining, Call, Arm, Check, Park, Wake, Tap, Deadline, Answer,
                  BlockingReturn, To
    <3>3. \A l \in Loops : \A i \in 1..Len(ready[l]) :
             ready[l][i] \in Drains => drain'[ready[l][i]] = "enqueued"
      BY <3>1, <3>2
    <3> QED  BY <3>1, <3>3
  <2> QED  BY <2>1, <2>2
<1>4. ASSUME NEW l \in Loops, RunCallback(l) PROVE QueueOwned'
  <2> DEFINE q == ready[l]  x == Head(q)
  <2>1. /\ Len(q) \in Nat \ {0} /\ Len(Tail(q)) = Len(q) - 1
        /\ \A i \in 1..(Len(q) - 1) : Tail(q)[i] = q[i + 1]
        /\ x = q[1]
    BY <1>4, TailIndex DEF RunCallback
  <2>2. ready' = [ready EXCEPT ![l] = Tail(q)] /\ UNCHANGED open
    BY <1>4 DEF RunCallback
  <2>3. ASSUME NEW k \in Loops, NEW i \in 1..Len(ready'[k])
        PROVE  /\ \E j \in 1..Len(ready[k]) : ready'[k][i] = ready[k][j]
               /\ x \in Drains => ready'[k][i] # x
    <3>1. CASE k = l
      <4>1. ready'[k] = Tail(q)  BY <2>2, <3>1
      <4>2. i + 1 \in 2..Len(q) /\ ready'[k][i] = q[i + 1]
        BY <2>1, <4>1
      <4>3. x \in Drains => q[i + 1] # x
        BY <2>1, <4>2
      <4> QED  BY <3>1, <4>2, <4>3, <2>1
    <3>2. CASE k # l
      <4>1. ready'[k] = ready[k]  BY <2>2, <3>2
      <4>2. Home[ready[k][i]] = k /\ Home[x] = l
        BY <2>1, <4>1
      <4> QED  BY <3>2, <4>1, <4>2
    <3> QED  BY <3>1, <3>2
  <2>4. x \notin Tasks => drain' = [drain EXCEPT ![x] = "observed"]
    BY <1>4 DEF RunCallback, To
  <2>5. x \in Tasks => UNCHANGED drain
    BY <1>4 DEF RunCallback
  <2>6. x \in Tasks \cup Drains
    BY <1>4, <2>1
  <2>7. \A k \in Loops : \A i \in 1..Len(ready'[k]) :
           ready'[k][i] \in Drains => drain'[ready'[k][i]] = "enqueued"
    <3> SUFFICES ASSUME NEW k \in Loops, NEW i \in 1..Len(ready'[k]),
                        ready'[k][i] \in Drains
                 PROVE  drain'[ready'[k][i]] = "enqueued"
      OBVIOUS
    <3>1. PICK j \in 1..Len(ready[k]) : ready'[k][i] = ready[k][j]
      BY <2>3
    <3>2. drain[ready[k][j]] = "enqueued"
      BY <3>1
    <3>3. x \in Drains => ready[k][j] # x
      BY <2>3, <3>1
    <3>4. ready[k][j] \in Drains  BY <3>1
    <3>5. CASE x \in Tasks  BY <2>5, <3>1, <3>2, <3>5
    <3>6. CASE x \notin Tasks
      <4>1. drain'[ready[k][j]] = drain[ready[k][j]]
        BY <2>4, <2>6, <3>3, <3>4, <3>6
      <4> QED  BY <3>1, <3>2, <4>1
    <3> QED  BY <3>5, <3>6
  <2>8. \A k \in Loops : \A i, j \in 1..Len(ready'[k]) :
           ready'[k][i] \in Drains /\ ready'[k][j] = ready'[k][i] => j = i
    <3> SUFFICES ASSUME NEW k \in Loops, NEW i \in 1..Len(ready'[k]),
                        NEW j \in 1..Len(ready'[k]),
                        ready'[k][i] \in Drains, ready'[k][j] = ready'[k][i]
                 PROVE  j = i
      OBVIOUS
    <3>1. CASE k = l
      <4>1. /\ i + 1 \in 1..Len(q) /\ j + 1 \in 1..Len(q)
            /\ ready'[k][i] = q[i + 1] /\ ready'[k][j] = q[j + 1]
        BY <2>1, <2>2, <3>1
      <4>2. j + 1 = i + 1  BY <4>1
      <4> QED  BY <4>2, <2>1, <2>2, <3>1
    <3>2. CASE k # l  BY <2>2, <3>2
    <3> QED  BY <3>1, <3>2
  <2>9. \A k \in Loops : \A i \in 1..Len(ready'[k]) : k \in open' /\ Home[ready'[k][i]] = k
    <3> SUFFICES ASSUME NEW k \in Loops, NEW i \in 1..Len(ready'[k])
                 PROVE  k \in open' /\ Home[ready'[k][i]] = k
      OBVIOUS
    <3>1. PICK j \in 1..Len(ready[k]) : ready'[k][i] = ready[k][j]
      BY <2>3
    <3>2. k \in open /\ Home[ready[k][j]] = k
      OBVIOUS
    <3> QED  BY <2>2, <3>1, <3>2
  <2> QED  BY <2>7, <2>8, <2>9
<1>5. ASSUME NEW l \in Loops, CloseLoop(l) PROVE QueueOwned'
  <2>1. ready' = [ready EXCEPT ![l] = <<>>] /\ open' = open \ {l} /\ UNCHANGED drain
    BY <1>5 DEF CloseLoop, drainVars
  <2> QED  BY <2>1
<1>6. CASE OtherGil  BY <1>1, <1>6 DEF OtherGil, drainVars
<1>7. CASE UNCHANGED vars  BY <1>1, <1>7 DEF vars, drainVars
<1> QED  BY <1>2, <1>3, <1>4, <1>5, <1>6, <1>7 DEF Next

\* A result that Python has not seen stays in the queue of its open loop.
LEMMA ResultStep == TypeOK /\ DInv /\ [Next]_vars => ResultPlaced'
<1> SUFFICES ASSUME TypeOK, DInv, [Next]_vars PROVE ResultPlaced'
  OBVIOUS
<1> USE HomeAssumption DEF TypeOK, DInv, ResultPlaced, Stages
<1>1. ASSUME UNCHANGED <<fut, loopVars>>, NEW t \in Tasks,
             \A u \in Tasks \ {t} : task'[u] = task[u],
             task'[t] \notin {"new", "submitting", "dropped"} => fut[t] # "none",
             task'[t] = "discarded" => task[t] = "discarded" \/ Home[t] \notin open,
             task'[t] = "enqueued" => task[t] = "enqueued"
      PROVE  ResultPlaced'
  BY <1>1 DEF loopVars
<1>2. ASSUME NEW t \in Tasks, Crossing(t) PROVE ResultPlaced'
  <2>1. CASE Register(t)  BY <1>1, <2>1 DEF Register
  <2>2. CASE SubmitFails(t)  BY <1>1, <2>2 DEF SubmitFails
  <2>3. CASE Spawn(t)  BY <2>3 DEF Spawn, loopVars
  <2>4. CASE Complete(t)  BY <1>1, <2>4 DEF Complete
  <2>5. CASE Panic(t) \/ CancelNoticed(t)  BY <1>1, <2>5 DEF Panic, CancelNoticed
  <2>6. CASE CancelFuture(t)  BY <2>6 DEF CancelFuture, loopVars
  <2>7. CASE SkipDelivery(t)  BY <1>1, <2>7 DEF SkipDelivery
  <2>8. CASE EnterProxy(t)  BY <1>1, <2>8 DEF EnterProxy
  <2>9. CASE Forward(t)
    <3>1. CASE task'[t] # "enqueued"
      <4>1. UNCHANGED ready
        BY <2>9, <3>1 DEF Forward
      <4> QED  BY <1>1, <2>9, <3>1, <4>1 DEF Forward, ForwardResults, loopVars
    <3>2. CASE task'[t] = "enqueued"
      <4> DEFINE q == ready[Home[t]]
      <4>1. Home[t] \in Loops /\ q \in Seq(Tasks \cup Drains)
        OBVIOUS
      <4>2. /\ Len(q) \in Nat /\ Len(Append(q, t)) = Len(q) + 1
            /\ \A i \in 1..Len(q) : Append(q, t)[i] = q[i]
            /\ Append(q, t)[Len(q) + 1] = t
        BY <4>1, AppendIndex
      <4>3. /\ ready' = [ready EXCEPT ![Home[t]] = Append(q, t)]
            /\ task' = [task EXCEPT ![t] = "enqueued"] /\ task[t] = "forwarding"
            /\ UNCHANGED <<fut, open>>
        BY <2>9, <3>2 DEF Forward
      <4>4. \A u \in Tasks :
               (\E i \in 1..Len(ready[Home[u]]) : ready[Home[u]][i] = u) \/ u = t
               => \E i \in 1..Len(ready'[Home[u]]) : ready'[Home[u]][i] = u
        <5> SUFFICES ASSUME NEW u \in Tasks,
                            (\E i \in 1..Len(ready[Home[u]]) : ready[Home[u]][i] = u) \/ u = t
                     PROVE  \E i \in 1..Len(ready'[Home[u]]) : ready'[Home[u]][i] = u
          OBVIOUS
        <5>1. CASE u = t
          <6>1. ready'[Home[u]] = Append(q, t)  BY <4>1, <4>3, <5>1
          <6> QED  BY <4>2, <5>1, <6>1
        <5>2. CASE u # t
          <6>1. PICK i \in 1..Len(ready[Home[u]]) : ready[Home[u]][i] = u  BY <5>2
          <6>2. CASE Home[u] = Home[t]
            <7>1. ready'[Home[u]] = Append(q, t)  BY <4>1, <4>3, <6>2
            <7> QED  BY <4>2, <6>1, <6>2, <7>1
          <6>3. CASE Home[u] # Home[t]
            <7>1. ready'[Home[u]] = ready[Home[u]]  BY <4>1, <4>3, <6>3
            <7> QED  BY <6>1, <7>1
          <6> QED  BY <6>2, <6>3
        <5> QED  BY <5>1, <5>2
      <4>5. \A u \in Tasks \ {t} : task'[u] = task[u]
        BY <4>3
      <4>6. \A u \in Tasks : task'[u] \notin {"new", "submitting", "dropped"} => fut'[u] # "none"
        BY <4>3, <4>5
      <4>7. \A u \in Tasks : task'[u] = "discarded" => Home[u] \notin open'
        BY <4>3, <4>5
      <4>8. \A u \in Tasks :
               task'[u] = "enqueued" /\ fut'[u] = "pending" /\ Home[u] \in open' =>
                 \E i \in 1..Len(ready'[Home[u]]) : ready'[Home[u]][i] = u
        BY <4>3, <4>4, <4>5
      <4> QED  BY <4>6, <4>7, <4>8
    <3> QED  BY <3>1, <3>2
  <2>10. CASE Return(t)  BY <1>1, <2>10 DEF Return
  <2>11. CASE FreeProxy(t)  BY <1>1, <2>11 DEF FreeProxy
  <2>12. CASE WakeWaiters(t)  BY <1>1, <2>12 DEF WakeWaiters
  <2> QED  BY <1>2, <2>1, <2>2, <2>3, <2>4, <2>5, <2>6, <2>7, <2>8, <2>9,
              <2>10, <2>11, <2>12 DEF Crossing
<1>3. ASSUME NEW d \in Drains, Draining(d) PROVE ResultPlaced'
  <2>1. CASE Tap(d)  BY <2>1 DEF Tap, RunDecrefs, Stranded, loopVars
  <2>2. CASE Answer(d) /\ Home[d] \in open
    <3> DEFINE q == ready[Home[d]]
    <3>1. Home[d] \in Loops /\ q \in Seq(Tasks \cup Drains)
      OBVIOUS
    <3>2. /\ Len(q) \in Nat /\ Len(Append(q, d)) = Len(q) + 1
          /\ \A i \in 1..Len(q) : Append(q, d)[i] = q[i]
      BY <3>1, AppendIndex
    <3>3. /\ ready' = [ready EXCEPT ![Home[d]] = Append(q, d)]
          /\ UNCHANGED <<task, fut, open>>
      BY <2>2 DEF Answer
    <3>4. ASSUME NEW u \in Tasks, NEW i \in 1..Len(ready[Home[u]]), ready[Home[u]][i] = u
          PROVE  i \in 1..Len(ready'[Home[u]]) /\ ready'[Home[u]][i] = u
      <4>1. CASE Home[u] = Home[d]
        <5>1. ready'[Home[u]] = Append(q, d)  BY <3>1, <3>3, <4>1
        <5> QED  BY <3>2, <3>4, <4>1, <5>1
      <4>2. CASE Home[u] # Home[d]
        <5>1. ready'[Home[u]] = ready[Home[u]]  BY <3>1, <3>3, <4>2
        <5> QED  BY <3>4, <5>1
      <4> QED  BY <4>1, <4>2
    <3> QED  BY <3>3, <3>4
  <2>3. CASE ~Tap(d) /\ ~(Answer(d) /\ Home[d] \in open)
    <3>1. UNCHANGED <<task, fut, ready, open>>
      BY <1>3, <2>3 DEF Draining, Call, Arm, Check, Park, Wake, Deadline, Answer,
                        BlockingReturn, loopVars
    <3> QED  BY <3>1
  <2> QED  BY <2>1, <2>2, <2>3
<1>4. ASSUME NEW l \in Loops, RunCallback(l) PROVE ResultPlaced'
  <2> DEFINE q == ready[l]  x == Head(q)
  <2>1. /\ Len(q) \in Nat \ {0} /\ Len(Tail(q)) = Len(q) - 1
        /\ \A i \in 1..(Len(q) - 1) : Tail(q)[i] = q[i + 1]
        /\ x = q[1]
    BY <1>4, TailIndex DEF RunCallback
  <2>2. ready' = [ready EXCEPT ![l] = Tail(q)] /\ UNCHANGED <<task, open>>
    BY <1>4 DEF RunCallback
  <2>3. \A u \in Tasks : /\ fut'[u] = "pending" => fut[u] = "pending" /\ u # x
                         /\ fut'[u] = "none" => fut[u] = "none"
    BY <1>4 DEF RunCallback
  <2>4. ASSUME NEW u \in Tasks, u # x, NEW i \in 1..Len(ready[Home[u]]), ready[Home[u]][i] = u
        PROVE  \E j \in 1..Len(ready'[Home[u]]) : ready'[Home[u]][j] = u
    <3>1. CASE Home[u] = l
      <4>1. ready'[Home[u]] = Tail(q)  BY <2>2, <3>1
      <4>2. i \in 2..Len(q)  BY <2>1, <2>4, <3>1
      <4>3. i - 1 \in 1..(Len(q) - 1) /\ Tail(q)[i - 1] = q[i]  BY <2>1, <4>2
      <4> QED  BY <2>1, <2>4, <3>1, <4>1, <4>3
    <3>2. CASE Home[u] # l
      <4>1. ready'[Home[u]] = ready[Home[u]]  BY <2>2, <3>2
      <4> QED  BY <2>4, <4>1
    <3> QED  BY <3>1, <3>2
  <2> QED  BY <2>2, <2>3, <2>4
<1>5. ASSUME NEW l \in Loops, CloseLoop(l) PROVE ResultPlaced'
  <2>1. /\ ready' = [ready EXCEPT ![l] = <<>>] /\ open' = open \ {l}
        /\ UNCHANGED <<task, fut>>
    BY <1>5 DEF CloseLoop
  <2> QED  BY <2>1
<1>6. CASE OtherGil  BY <1>6 DEF OtherGil, RunDecrefs, Stranded, loopVars
<1>7. CASE UNCHANGED vars  BY <1>7 DEF vars, loopVars
<1> QED  BY <1>2, <1>3, <1>4, <1>5, <1>6, <1>7 DEF Next

\* A crossing whose result has been placed never moves again, and a future that
\* is done or cancelled stays so.
LEMMA SettledStable ==
  ASSUME TypeOK, [Next]_vars, NEW t \in Tasks, task[t] \in Settled
  PROVE  /\ task'[t] = task[t]
         /\ fut'[t] = "pending" => fut[t] = "pending"
         /\ fut[t] \in {"done", "cancelled"} => fut'[t] \in {"done", "cancelled"}
<1> USE DEF TypeOK, Stages, Settled
<1>1. ASSUME NEW u \in Tasks, Crossing(u)
      PROVE  /\ task'[t] = task[t]
             /\ fut'[t] = "pending" => fut[t] = "pending"
             /\ fut[t] \in {"done", "cancelled"} => fut'[t] \in {"done", "cancelled"}
  BY <1>1 DEF Crossing, Register, SubmitFails, Spawn, Complete, Panic, CancelFuture,
     CancelNoticed, SkipDelivery, EnterProxy, Forward, Return, FreeProxy, WakeWaiters
<1>2. ASSUME NEW d \in Drains, Draining(d) PROVE task'[t] = task[t] /\ fut' = fut
  BY <1>2 DEF Draining, Call, Arm, Check, Park, Wake, Tap, Deadline, Answer,
              BlockingReturn, RunDecrefs, Stranded
<1>3. ASSUME NEW l \in Loops, RunCallback(l)
      PROVE  /\ task'[t] = task[t]
             /\ fut'[t] = "pending" => fut[t] = "pending"
             /\ fut[t] \in {"done", "cancelled"} => fut'[t] \in {"done", "cancelled"}
  BY <1>3 DEF RunCallback
<1>4. ASSUME NEW l \in Loops, CloseLoop(l) PROVE UNCHANGED <<task, fut>>
  BY <1>4 DEF CloseLoop
<1>5. CASE OtherGil  BY <1>5 DEF OtherGil, RunDecrefs, Stranded
<1>6. CASE UNCHANGED vars  BY <1>6 DEF vars
<1> QED  BY <1>1, <1>2, <1>3, <1>4, <1>5, <1>6 DEF Next

\* Only a check that reads zero gives a drain the verdict True, and with it the
\* set of crossings it covers.
LEMMA VerdictOrigin ==
  ASSUME TypeOK, DInv, [Next]_vars, NEW d \in Drains, verdict'[d] = "True"
  PROVE  \/ verdict[d] = "True" /\ covered'[d] = covered[d]
         \/ /\ Check(d) /\ count = 0 /\ drain'[d] = "answer"
            /\ covered'[d] = {t \in Tasks : task[t] # "new"}
<1> USE DEF TypeOK
<1>1. ASSUME UNCHANGED <<verdict, covered>> PROVE verdict[d] = "True" /\ covered'[d] = covered[d]
  BY <1>1
<1>2. ASSUME NEW t \in Tasks, Crossing(t) PROVE UNCHANGED <<verdict, covered>>
  BY <1>2 DEF Crossing, Register, SubmitFails, Spawn, Complete, Panic, CancelFuture,
     CancelNoticed, SkipDelivery, EnterProxy, Forward, Return, FreeProxy, WakeWaiters,
     drainVars
<1>3. ASSUME NEW e \in Drains, Check(e)
      PROVE  \/ verdict[d] = "True" /\ covered'[d] = covered[d]
             \/ /\ Check(d) /\ count = 0 /\ drain'[d] = "answer"
                /\ covered'[d] = {t \in Tasks : task[t] # "new"}
  <2>1. CASE d = e /\ count = 0
    BY <1>3, <2>1 DEF Check, To, PendingCount
  <2>2. CASE d # e /\ count = 0
    BY <1>3, <2>2 DEF Check, To, PendingCount
  <2>3. CASE count # 0
    BY <1>1, <1>3, <2>3 DEF Check, PendingCount
  <2> QED  BY <2>1, <2>2, <2>3
<1>4. ASSUME NEW e \in Drains, Deadline(e) PROVE verdict[d] = "True" /\ covered'[d] = covered[d]
  BY <1>4 DEF Deadline
<1>5. ASSUME NEW e \in Drains, Draining(e), ~Check(e), ~Deadline(e)
      PROVE  UNCHANGED <<verdict, covered>>
  BY <1>5 DEF Draining, Call, Arm, Park, Wake, Tap, Answer, BlockingReturn
<1>6. ASSUME NEW l \in Loops, RunCallback(l) \/ CloseLoop(l) PROVE UNCHANGED <<verdict, covered>>
  BY <1>6 DEF RunCallback, CloseLoop, drainVars
<1>7. CASE OtherGil  BY <1>1, <1>7 DEF OtherGil, drainVars
<1>8. CASE UNCHANGED vars  BY <1>1, <1>8 DEF vars, drainVars
<1> QED  BY <1>1, <1>2, <1>3, <1>4, <1>5, <1>6, <1>7, <1>8 DEF Next

\* Callbacks keep their order: what the loop of a still-scheduled drain runs or
\* schedules in a step leaves a pending result ahead of it.
LEMMA BeforeStable ==
  ASSUME TypeOK, DInv, [Next]_vars, NEW d \in Drains, NEW t \in Tasks,
         drain[d] = "enqueued", drain'[d] = "enqueued", Home[d] \in open',
         Before(t, d), task[t] \in Settled, fut'[t] = "pending"
  PROVE  Before(t, d)'
<1> USE HomeAssumption DEF TypeOK, DInv
<1> DEFINE l == Home[d]  q == ready[l]
<1>1. PICK i \in 1..Len(q) : q[i] = t /\ \A j \in 1..i : q[j] # d
  BY DEF Before
<1>2. l \in Loops /\ q \in Seq(Tasks \cup Drains) /\ Len(q) \in Nat
  OBVIOUS
<1>3. CASE ready'[l] = q
  BY <1>1, <1>3 DEF Before
<1>4. ASSUME NEW x \in Tasks \cup Drains, ready'[l] = Append(q, x) PROVE Before(t, d)'
  <2>1. /\ Len(ready'[l]) = Len(q) + 1
        /\ \A j \in 1..Len(q) : ready'[l][j] = q[j]
    BY <1>2, <1>4, AppendIndex
  <2>2. i \in 1..Len(ready'[l]) /\ ready'[l][i] = t
    BY <1>1, <1>2, <2>1
  <2>3. ASSUME NEW j \in 1..i PROVE ready'[l][j] # d
    <3>1. j \in 1..Len(q) /\ q[j] # d
      BY <1>1, <1>2, <2>3
    <3> QED  BY <2>1, <3>1
  <2> QED  BY <2>2, <2>3 DEF Before
<1>5. ASSUME NEW k \in Loops, RunCallback(k) PROVE Before(t, d)'
  <2>1. CASE k # l
    <3>1. ready'[l] = q  BY <1>5, <2>1 DEF RunCallback
    <3> QED  BY <1>3, <3>1
  <2>2. CASE k = l
    <3>1. /\ Len(q) \in Nat \ {0} /\ Len(Tail(q)) = Len(q) - 1
          /\ \A j \in 1..(Len(q) - 1) : Tail(q)[j] = q[j + 1]
          /\ Head(q) = q[1]
      BY <1>2, <1>5, <2>2, TailIndex DEF RunCallback
    <3>2. ready'[l] = Tail(q)
      BY <1>5, <2>2, <1>2 DEF RunCallback
    <3>3. q[1] # t
      <4> SUFFICES ASSUME q[1] = t PROVE FALSE
        OBVIOUS
      <4>1. fut'[t] # "pending"
        BY <1>5, <2>2, <3>1 DEF RunCallback
      <4> QED  BY <4>1
    <3>4. i \in 2..Len(q)
      BY <1>1, <3>1, <3>3
    <3>5. i - 1 \in 1..Len(ready'[l]) /\ ready'[l][i - 1] = t
      BY <1>1, <3>1, <3>2, <3>4
    <3>6. ASSUME NEW j \in 1..(i - 1) PROVE ready'[l][j] # d
      <4>1. j \in 1..(Len(q) - 1) /\ j + 1 \in 1..i
        BY <3>1, <3>4
      <4> QED  BY <1>1, <3>1, <3>2, <4>1
    <3> QED  BY <3>5, <3>6 DEF Before
  <2> QED  BY <2>1, <2>2
<1>6. ASSUME NEW k \in Loops, CloseLoop(k) PROVE ready'[l] = q
  BY <1>6 DEF CloseLoop
<1>7. ASSUME NEW u \in Tasks, Forward(u) PROVE Before(t, d)'
  <2>1. ready'[l] = q \/ ready'[l] = Append(q, u)
    BY <1>7 DEF Forward
  <2> QED  BY <1>3, <1>4, <2>1
<1>8. ASSUME NEW u \in Tasks, Crossing(u), ~Forward(u) PROVE UNCHANGED ready
  BY <1>8 DEF Crossing, Register, SubmitFails, Spawn, Complete, Panic, CancelFuture,
     CancelNoticed, SkipDelivery, EnterProxy, Return, FreeProxy, WakeWaiters, loopVars
<1>9. ASSUME NEW e \in Drains, Answer(e) PROVE Before(t, d)'
  <2>1. ready'[l] = q \/ ready'[l] = Append(q, e)
    BY <1>9 DEF Answer
  <2> QED  BY <1>3, <1>4, <2>1
<1>10. ASSUME NEW e \in Drains, Draining(e), ~Answer(e) PROVE UNCHANGED ready
  BY <1>10 DEF Draining, Call, Arm, Check, Park, Wake, Tap, Deadline, BlockingReturn, loopVars
<1>11. CASE OtherGil \/ UNCHANGED vars
  BY <1>3, <1>11 DEF OtherGil, vars, loopVars
<1> QED  BY <1>3, <1>5, <1>6, <1>7, <1>8, <1>9, <1>10, <1>11 DEF Next

\* Reading zero means every covered result was placed, hence ahead in the FIFO.
LEMMA AheadStep == IInv /\ DInv /\ [Next]_vars => ResultsAhead'
<1> SUFFICES ASSUME IInv, DInv, [Next]_vars, NEW d \in Drains, verdict'[d] = "True",
                    NEW t \in covered'[d]
             PROVE  /\ task'[t] \in Settled
                    /\ (/\ drain'[d] = "enqueued" /\ Home[d] \in open' /\ Home[t] = Home[d]
                        /\ task'[t] = "enqueued" /\ fut'[t] = "pending") => Before(t, d)'
  BY DEF ResultsAhead
<1>0. TypeOK /\ VerdictWhenOver /\ QueueOwned /\ ResultPlaced /\ ResultsAhead
  BY DEF IInv, DInv
<1>1. CASE /\ Check(d) /\ count = 0 /\ drain'[d] = "answer"
           /\ covered'[d] = {u \in Tasks : task[u] # "new"}
  <2>1. t \in Tasks /\ holder[t] = "none" /\ task[t] # "new"
    BY <1>1, ZeroMeansNoGuard
  <2>2. task[t] \in Settled
    BY <2>1 DEF IInv, TypeOK, OwnershipFollowsTask, Stages, Settled
  <2>3. task'[t] \in Settled
    BY <1>0, <2>1, <2>2, SettledStable
  <2> QED  BY <1>1, <2>3
<1>2. CASE verdict[d] = "True" /\ covered'[d] = covered[d]
  <2>1. t \in Tasks /\ task[t] \in Settled
    BY <1>0, <1>2 DEF ResultsAhead, TypeOK
  <2>2. task'[t] = task[t] /\ (fut'[t] = "pending" => fut[t] = "pending")
    BY <1>0, <2>1, SettledStable
  <2>3. ASSUME drain'[d] = "enqueued", Home[d] \in open', Home[t] = Home[d],
               task'[t] = "enqueued", fut'[t] = "pending"
        PROVE  Before(t, d)'
    <3>1. open' \subseteq open
      <4>1. ASSUME NEW u \in Tasks, Crossing(u) PROVE UNCHANGED open
        BY <4>1 DEF Crossing, Register, SubmitFails, Spawn, Complete, Panic,
           CancelFuture, CancelNoticed, SkipDelivery, EnterProxy, Forward, Return,
           FreeProxy, WakeWaiters, loopVars
      <4>2. ASSUME NEW e \in Drains, Draining(e) PROVE UNCHANGED open
        BY <4>2 DEF Draining, Call, Arm, Check, Park, Wake, Tap, Deadline, Answer,
           BlockingReturn, loopVars
      <4>3. ASSUME NEW l \in Loops, RunCallback(l) \/ CloseLoop(l) PROVE open' \subseteq open
        BY <4>3 DEF RunCallback, CloseLoop
      <4> QED  BY <4>1, <4>2, <4>3 DEF Next, OtherGil, vars, loopVars
    <3>2. CASE drain[d] = "enqueued"
      <4>1. Before(t, d)
        BY <1>0, <1>2, <2>1, <2>2, <2>3, <3>1, <3>2 DEF ResultsAhead
      <4> QED  BY <1>0, <2>1, <2>3, <3>2, <4>1, BeforeStable
    <3>3. CASE drain[d] # "enqueued"
      <4>1. Answer(d)
        <5> USE DEF TypeOK
        <5>1. ASSUME NEW u \in Tasks, Crossing(u) PROVE UNCHANGED drain
          BY <5>1 DEF Crossing, Register, SubmitFails, Spawn, Complete, Panic,
             CancelFuture, CancelNoticed, SkipDelivery, EnterProxy, Forward, Return,
             FreeProxy, WakeWaiters, drainVars
        <5>2. ASSUME NEW e \in Drains, Draining(e) PROVE Answer(d)
          BY <1>0, <2>3, <3>3, <5>2 DEF Draining, Call, Arm, Check, Park, Wake, Tap,
             Deadline, Answer, BlockingReturn, To
        <5>3. ASSUME NEW l \in Loops, RunCallback(l) \/ CloseLoop(l) PROVE drain'[d] = drain[d] \/ drain'[d] = "observed"
          BY <1>0, <5>3 DEF RunCallback, CloseLoop, To, drainVars
        <5> QED  BY <2>3, <3>3, <5>1, <5>2, <5>3 DEF Next, OtherGil, vars, drainVars
      <4> DEFINE q == ready[Home[d]]
      <4>2. Home[d] \in Loops /\ q \in Seq(Tasks \cup Drains) /\ Home[d] \in open
        BY <1>0, <2>3, <3>1, HomeAssumption DEF TypeOK
      <4>3. ready'[Home[d]] = Append(q, d) /\ drain[d] = "answer"
        BY <1>0, <4>1, <4>2 DEF Answer, TypeOK
      <4>4. /\ Len(q) \in Nat /\ Len(Append(q, d)) = Len(q) + 1
            /\ \A j \in 1..Len(q) : Append(q, d)[j] = q[j]
        BY <4>2, AppendIndex
      <4>5. PICK i \in 1..Len(q) : q[i] = t
        BY <1>0, <2>1, <2>2, <2>3, <4>2 DEF ResultPlaced
      <4>6. ASSUME NEW j \in 1..i PROVE q[j] # d
        <5>1. j \in 1..Len(q)  BY <4>4
        <5>2. q[j] \in Drains => drain[q[j]] = "enqueued"
          BY <1>0, <4>2, <5>1 DEF QueueOwned
        <5> QED  BY <4>3, <5>2
      <4> QED  BY <4>3, <4>4, <4>5, <4>6 DEF Before
    <3> QED  BY <3>2, <3>3
  <2> QED  BY <2>1, <2>2, <2>3
<1> QED  BY <1>0, <1>1, <1>2, VerdictOrigin

\* When a wake-up reaches the head of the queue nothing it covers is behind it.
LEMMA DeliversStep == IInv /\ DInv /\ [Next]_vars => DrainDelivers'
<1> SUFFICES ASSUME IInv, DInv, [Next]_vars, NEW d \in Drains \ Blocking,
                    drain'[d] = "observed", verdict'[d] = "True",
                    NEW t \in covered'[d], Home[t] = Home[d]
             PROVE  fut'[t] \in {"done", "cancelled"} \/ task'[t] \in {"dropped", "raised"}
  BY DEF DrainDelivers
<1>0. /\ TypeOK /\ VerdictWhenOver /\ QueueOwned /\ ResultPlaced /\ ResultsAhead
      /\ DrainDelivers
  BY DEF IInv, DInv
<1>1. verdict[d] = "True" /\ covered'[d] = covered[d]
  BY <1>0, VerdictOrigin
<1>2. t \in Tasks /\ task[t] \in Settled
  BY <1>0, <1>1 DEF ResultsAhead, TypeOK
<1>3. task'[t] = task[t] /\ (fut[t] \in {"done", "cancelled"} => fut'[t] \in {"done", "cancelled"})
  BY <1>0, <1>2, SettledStable
<1>4. CASE drain[d] = "observed"
  BY <1>0, <1>1, <1>3, <1>4 DEF DrainDelivers
<1>5. CASE drain[d] # "observed"
  <2>1. PICK l \in Loops : RunCallback(l) /\ Head(ready[l]) = d
    <3> USE DEF TypeOK
    <3>1. ASSUME NEW u \in Tasks, Crossing(u) PROVE UNCHANGED drain
      BY <3>1 DEF Crossing, Register, SubmitFails, Spawn, Complete, Panic,
         CancelFuture, CancelNoticed, SkipDelivery, EnterProxy, Forward, Return,
         FreeProxy, WakeWaiters, drainVars
    <3>2. ASSUME NEW e \in Drains, Draining(e) PROVE FALSE
      BY <1>0, <1>5, <3>2 DEF Draining, Call, Arm, Check, Park, Wake, Tap, Deadline,
         Answer, BlockingReturn, To
    <3>3. ASSUME NEW l \in Loops, CloseLoop(l) PROVE UNCHANGED drain
      BY <3>3 DEF CloseLoop, drainVars
    <3>4. ASSUME NEW l \in Loops, RunCallback(l) PROVE Head(ready[l]) = d
      BY <1>0, <1>5, <3>4 DEF RunCallback, To
    <3> QED  BY <1>5, <3>1, <3>2, <3>3, <3>4 DEF Next, OtherGil, vars, drainVars
  <2>2. /\ Len(ready[l]) \in Nat \ {0} /\ ready[l][1] = d /\ l \in open
    BY <1>0, <2>1, TailIndex DEF RunCallback, TypeOK
  <2>3. Home[d] = l /\ drain[d] = "enqueued"
    BY <1>0, <2>2 DEF QueueOwned
  <2>4. CASE task[t] = "enqueued"
    <3>1. fut[t] # "none"
      BY <1>0, <1>2, <2>4 DEF ResultPlaced
    <3>2. fut[t] # "pending"
      <4> SUFFICES ASSUME fut[t] = "pending" PROVE FALSE
        OBVIOUS
      <4>1. Before(t, d)
        BY <1>0, <1>1, <1>2, <2>2, <2>3, <2>4 DEF ResultsAhead
      <4> QED  BY <2>2, <2>3, <4>1 DEF Before
    <3> QED  BY <1>0, <1>2, <1>3, <3>1, <3>2 DEF TypeOK
  <2>5. task[t] # "discarded"
    BY <1>0, <1>2, <2>2, <2>3 DEF ResultPlaced
  <2> QED  BY <1>2, <1>3, <2>4, <2>5 DEF Settled
<1> QED  BY <1>4, <1>5

\* The strengthened delivery invariant holds in every reachable state.
LEMMA DInvInductive == Spec => []DInv
<1>1. Init => DInv
  BY DEF Init, DInv, VerdictWhenOver, QueueOwned, ResultPlaced, ResultsAhead, DrainDelivers
<1>2. IInv /\ DInv /\ [Next]_vars => DInv'
  BY VerdictStep, QueueStep, ResultStep, AheadStep, DeliversStep DEF DInv, IInv
<1> QED  BY <1>1, <1>2, IInvInductive, PTL DEF Spec

\* When drain_pending() is seen to return True, every future of the same loop
\* that it covers is done or cancelled: the guarantee of bridge.rs, for any
\* number of crossings, drains and loops.
THEOREM DeliveryGuarantee == Spec => []DrainDelivers
BY DInvInductive, PTL DEF DInv

--------------------------------------------------------------------------------
\* Refinement of DrainContract

\* The parts of the mapped state a step leaves alone follow from what it leaves
\* alone here.
LEMMA ContractStutter ==
  UNCHANGED <<task, holder, drain, verdict>> => UNCHANGED Contract!vars
BY DEF Contract!vars, Live

\* A drain that is asked and gets no verdict in this step, in a step that
\* changes no task and no guard, is a stutter of the contract.
LEMMA ContractDrainStutter ==
  ASSUME TypeOK, NEW d \in Drains, drain[d] # "idle",
         UNCHANGED <<holder, verdict>>,
         \A t \in Tasks : task[t] = "new" <=> task'[t] = "new",
         \E s \in {"arm", "check", "park", "wait", "enqueued", "discarded", "observed"} : To(d, s)
  PROVE  UNCHANGED Contract!vars
<1>1. \A e \in Drains : drain'[e] = "idle" <=> drain[e] = "idle"
  BY DEF TypeOK, To
<1> QED  BY <1>1 DEF Contract!vars, Live

\* Every step of the bridge is a step of the contract or a stutter.
LEMMA ContractStep == IInv /\ DInv /\ [Next]_vars => [Contract!Next]_(Contract!vars)
<1> SUFFICES ASSUME IInv, DInv, [Next]_vars PROVE [Contract!Next]_(Contract!vars)
  OBVIOUS
<1> USE DEF IInv, TypeOK, Stages, Holders
<1>1. ASSUME NEW t \in Tasks, holder[t] # "none", task[t] # "new", FreeGuard(t),
             task'[t] # "new", \A u \in Tasks \ {t} : task'[u] = task[u],
             UNCHANGED <<drain, verdict>>
      PROVE  Contract!Settle(t)
  <2>1. Live' = Live \ {t} /\ t \in Live
    BY <1>1 DEF FreeGuard, Live
  <2>2. {u \in Tasks : task[u] # "new"}' = {u \in Tasks : task[u] # "new"}
    BY <1>1
  <2> QED  BY <1>1, <2>1, <2>2 DEF Contract!Settle
<1>2. ASSUME NEW t \in Tasks, task[t] # "new", task'[t] # "new",
             \A u \in Tasks \ {t} : task'[u] = task[u],
             Live' = Live, UNCHANGED <<drain, verdict>>
      PROVE  UNCHANGED Contract!vars
  <2>1. {u \in Tasks : task[u] # "new"}' = {u \in Tasks : task[u] # "new"}
    BY <1>2
  <2> QED  BY <1>2, <2>1 DEF Contract!vars
<1>3. ASSUME NEW t \in Tasks, Crossing(t) PROVE [Contract!Next]_(Contract!vars)
  <2>1. CASE Register(t)
    <3>1. Live' = Live \cup {t}
      BY <2>1 DEF Register, Live
    <3>2. {u \in Tasks : task[u] # "new"}' = {u \in Tasks : task[u] # "new"} \cup {t}
      BY <2>1 DEF Register
    <3>3. t \notin {u \in Tasks : task[u] # "new"}
      BY <2>1 DEF Register
    <3>4. Contract!Begin(t)
      BY <2>1, <3>1, <3>2, <3>3 DEF Register, drainVars, Contract!Begin
    <3> QED  BY <3>4 DEF Contract!Next
  <2>2. CASE SubmitFails(t) \/ Panic(t) \/ CancelNoticed(t) \/ Return(t) \/ FreeProxy(t)
    <3>1. holder[t] # "none" /\ FreeGuard(t)
      BY <2>2, FreeingIsLegal DEF CancelNoticed
    <3>2. task[t] # "new" /\ task'[t] # "new" /\ \A u \in Tasks \ {t} : task'[u] = task[u]
      BY <2>2 DEF SubmitFails, Panic, CancelNoticed, Return, FreeProxy, OwnershipFollowsTask
    <3>3. UNCHANGED <<drain, verdict>>
      BY <2>2 DEF SubmitFails, Panic, CancelNoticed, Return, FreeProxy, drainVars
    <3> QED  BY <1>1, <3>1, <3>2, <3>3 DEF Contract!Next
  <2>3. CASE Spawn(t) \/ SkipDelivery(t) \/ Forward(t)
    <3>1. task[t] # "new" /\ task'[t] # "new" /\ \A u \in Tasks \ {t} : task'[u] = task[u]
      BY <2>3 DEF Spawn, SkipDelivery, Forward, ForwardResults
    <3>2. UNCHANGED <<holder, drain, verdict>>
      BY <2>3 DEF Spawn, SkipDelivery, Forward, flightVars, drainVars
    <3>3. Live' = Live  BY <3>2 DEF Live
    <3> QED  BY <1>2, <3>1, <3>2, <3>3
  <2>4. CASE Complete(t) \/ EnterProxy(t)
    <3>1. Live' = Live
      BY <2>4 DEF Complete, EnterProxy, Live, OwnershipFollowsTask
    <3> QED  BY <2>4, <3>1, <1>2 DEF Complete, EnterProxy, drainVars
  <2>5. CASE CancelFuture(t) \/ WakeWaiters(t)
    <3>1. UNCHANGED <<task, holder, drain, verdict>>
      BY <2>5 DEF CancelFuture, WakeWaiters, flightVars, drainVars
    <3> QED  BY <3>1, ContractStutter
  <2> QED  BY <1>3, <2>1, <2>2, <2>3, <2>4, <2>5 DEF Crossing
<1>4. ASSUME NEW d \in Drains, Draining(d) PROVE [Contract!Next]_(Contract!vars)
  <2>1. CASE Call(d)
    <3>1. drain' = [drain EXCEPT ![d] = "arm"] /\ drain[d] = "idle"
          /\ UNCHANGED <<task, holder, verdict>>
      BY <2>1 DEF Call, To, flightVars
    <3>2. verdict[d] = "none"
      BY <3>1 DEF DInv, VerdictWhenOver
    <3>3. Contract!Ask(d)
      BY <3>1, <3>2 DEF Live, Contract!Ask
    <3> QED  BY <3>3 DEF Contract!Next
  <2>2. CASE Check(d) /\ count = 0
    <3>1. Live = {}
      BY <2>2, ZeroMeansNoGuard DEF Live
    <3>2. /\ drain' = [drain EXCEPT ![d] = "answer"] /\ drain[d] = "check"
          /\ verdict' = [verdict EXCEPT ![d] = "True"]
          /\ UNCHANGED <<task, holder>>
      BY <2>2 DEF Check, PendingCount, To, flightVars
    <3>3. verdict[d] = "none"
      BY <3>2 DEF DInv, VerdictWhenOver
    <3>4. Contract!AnswerYes(d)
      BY <3>1, <3>2, <3>3 DEF Live, Contract!AnswerYes
    <3> QED  BY <3>4 DEF Contract!Next
  <2>3. CASE Deadline(d)
    <3>1. /\ drain' = [drain EXCEPT ![d] = "answer"] /\ drain[d] = "wait"
          /\ verdict' = [verdict EXCEPT ![d] = "False"]
          /\ UNCHANGED <<task, holder>>
      BY <2>3 DEF Deadline, To, flightVars
    <3>2. verdict[d] = "none"
      BY <3>1 DEF DInv, VerdictWhenOver
    <3>3. Contract!AnswerNo(d)
      BY <3>1, <3>2 DEF Live, Contract!AnswerNo
    <3> QED  BY <3>3 DEF Contract!Next
  <2>4. CASE Arm(d) \/ Park(d) \/ Wake(d) \/ Answer(d) \/ BlockingReturn(d) \/ Tap(d)
             \/ (Check(d) /\ count # 0)
    <3>1. \A t \in Tasks : task[t] = "new" <=> task'[t] = "new"
      BY <2>4 DEF Arm, Park, Wake, Answer, BlockingReturn, Tap, Check, RunDecrefs, Stranded
    <3>2. drain[d] # "idle" /\ UNCHANGED <<holder, verdict>>
      BY <2>4 DEF Arm, Park, Wake, Answer, BlockingReturn, Tap, Check, PendingCount, flightVars
    <3>3. \E s \in {"arm", "check", "park", "wait", "enqueued", "discarded", "observed"} : To(d, s)
      BY <2>4 DEF Arm, Park, Wake, Answer, BlockingReturn, Tap, Check, PendingCount
    <3> QED  BY <3>1, <3>2, <3>3, ContractDrainStutter
  <2> QED  BY <1>4, <2>1, <2>2, <2>3, <2>4 DEF Draining
<1>5. ASSUME NEW l \in Loops, RunCallback(l) PROVE UNCHANGED Contract!vars
  <2>1. UNCHANGED <<task, holder, verdict>>
    BY <1>5 DEF RunCallback, flightVars
  <2>2. CASE Head(ready[l]) \in Tasks
    BY <1>5, <2>1, <2>2, ContractStutter DEF RunCallback
  <2>3. CASE Head(ready[l]) \notin Tasks
    <3>1. ready[l][1] = Head(ready[l]) /\ 1 \in 1..Len(ready[l]) /\ Head(ready[l]) \in Tasks \cup Drains
      BY <1>5, TailIndex DEF RunCallback
    <3>2. drain[Head(ready[l])] = "enqueued"
      BY <2>3, <3>1 DEF DInv, QueueOwned
    <3>3. To(Head(ready[l]), "observed")
      BY <1>5, <2>3 DEF RunCallback
    <3> QED  BY <2>1, <2>3, <3>1, <3>2, <3>3, ContractDrainStutter
  <2> QED  BY <2>2, <2>3
<1>6. ASSUME NEW l \in Loops, CloseLoop(l) PROVE UNCHANGED Contract!vars
  BY <1>6, ContractStutter DEF CloseLoop, flightVars, drainVars
<1>7. CASE OtherGil
  <2>1. \A t \in Tasks : task[t] = "new" <=> task'[t] = "new"
    BY <1>7 DEF OtherGil, RunDecrefs, Stranded
  <2> QED  BY <1>7, <2>1 DEF OtherGil, flightVars, drainVars, Contract!vars, Live
<1>8. CASE UNCHANGED vars
  BY <1>8, ContractStutter DEF vars, flightVars, drainVars
<1> QED  BY <1>3, <1>4, <1>5, <1>6, <1>7, <1>8 DEF Next

\* The counter and its guards refine the promise of drain_pending: a drain
\* answers True only at an instant at which no crossing is live.
THEOREM BridgeRefinesContract == Spec => Contract!Safety
<1>1. Init => Contract!Init
  <2> SUFFICES ASSUME Init PROVE Contract!Init
    OBVIOUS
  <2>1. Live = {} /\ {t \in Tasks : task[t] # "new"} = {}
    BY DEF Init, Live
  <2> QED  BY <2>1 DEF Init, Contract!Init
<1>2. IInv /\ DInv /\ [Next]_vars => [Contract!Next]_(Contract!vars)
  BY ContractStep
<1>3. Spec => []DInv
  BY DInvInductive
<1> QED  BY <1>1, <1>2, <1>3, IInvInductive, PTL DEF Spec, Contract!Safety
================================================================================
