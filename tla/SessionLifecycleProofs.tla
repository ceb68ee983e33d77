------------------------- MODULE SessionLifecycleProofs -------------------------
(***************************************************************************)
(* Proofs about SessionLifecycle, for any set of requests, hooks, handles  *)
(* and close() calls.                                                      *)
(***************************************************************************)
EXTENDS SessionLifecycle, SequenceTheorems, TLAPS

\* A request has a chain to go through, or a snapshot of a hook list.
TodoIsOne ==
  \A r \in Requests :
    IF stage[r] \in {"firing", "answering"} THEN todo[r] \in Seq(Hooks)
    ELSE stage[r] \in {"passing", "asking", "returning", "asking back"} => todo[r] \in Seq(Middleware)

\* A check that found a slot full stands before a middleware.
AskedIsThere ==
  \A r \in Requests : stage[r] \in {"asking", "asking back"} => todo[r] # <<>>

\* A close() that is among the slots has some left.
RestIsThere ==
  \A c \in Closers : closer[c] \in {"releasing", "half released"} => rest[c] # <<>>

TInv == TypeOK /\ TodoIsOne /\ AskedIsThere /\ RestIsThere

\* What every close() has achieved so far, whatever the others do.
Flagged == \A c \in Closers : closer[c] # "idle" => closed
RequestHooksGone ==
  \A c \in Closers : closer[c] \notin {"idle", "flagged"} => requestHooks = <<>>
ResponseHooksGone ==
  \A c \in Closers : closer[c] \notin {"idle", "flagged", "responses"} => responseHooks = <<>>
SlotsGo ==
  \A c \in Closers :
    /\ closer[c] = "releasing" =>
         onRequest \cup onResponse \subseteq ToSet(rest[c])
    /\ closer[c] = "half released" =>
         /\ onResponse \subseteq ToSet(rest[c])
         /\ onRequest \subseteq ToSet(Tail(rest[c]))
    /\ closer[c] \in {"pool", "returned"} => onRequest = {} /\ onResponse = {}
SlotsOfChain == onRequest \cup onResponse \subseteq ToSet(Chain)

CInv == Flagged /\ RequestHooksGone /\ ResponseHooksGone /\ SlotsGo /\ SlotsOfChain

\* Where the hooks that were there when a request was made are, as long as the
\* session is open and not collected: called, in the snapshot, or still in the list.
Waits(r) ==
  ~closed /\ ~collected /\ Kind[r] = "buffered" =>
    /\ stage[r] = "accepted" =>
         early[r] \subseteq ToSet(requestHooks) \cup ToSet(responseHooks)
    /\ stage[r] = "firing" =>
         early[r] \subseteq ran[r] \cup ToSet(todo[r]) \cup ToSet(responseHooks)
    /\ stage[r] \in {"passing", "asking", "waiting", "returning", "asking back", "received"} =>
         early[r] \subseteq ran[r] \cup ToSet(responseHooks)
    /\ stage[r] = "answering" => early[r] \subseteq ran[r] \cup ToSet(todo[r])
    /\ stage[r] = "done" => early[r] \subseteq ran[r]

HooksWait == \A r \in Requests : Waits(r)

\* Why the channel outlives the handle: whatever stage a request in flight is at,
\* the sender that its Closing owns has moved along with it.
InFlightOwns ==
  \A r \in Requests : stage[r] \notin Over \cup {"new"} => r \in senders

--------------------------------------------------------------------------------
(* Sequences *)

LEMMA EmptyToSet == ToSet(<<>>) = {}
BY DEF ToSet

LEMMA AppendToSet ==
  ASSUME NEW S, NEW s \in Seq(S), NEW e \in S
  PROVE  Append(s, e) \in Seq(S) /\ ToSet(s) \subseteq ToSet(Append(s, e))
BY DEF ToSet

LEMMA TailToSet ==
  ASSUME NEW S, NEW s \in Seq(S), s # <<>>
  PROVE  /\ Tail(s) \in Seq(S) /\ Head(s) \in S
         /\ ToSet(s) = {Head(s)} \cup ToSet(Tail(s))
         /\ Len(s) = 1 => Tail(s) = <<>>
         /\ Len(s) # 1 => Tail(s) # <<>>
<1> DEFINE t == Tail(s)
<1>1. /\ t \in Seq(S) /\ Head(s) \in S /\ Len(t) = Len(s) - 1
      /\ \A i \in 1 .. Len(t) : t[i] = s[i + 1]
  BY HeadTailProperties
<1>2. Len(s) \in Nat \ {0} /\ Head(s) = s[1] /\ DOMAIN s = 1 .. Len(s)
  BY EmptySeq, LenProperties
<1>3. Len(t) \in Nat /\ DOMAIN t = 1 .. Len(t)
  BY <1>1, LenProperties
<1> HIDE DEF t
<1>4. ToSet(s) = {Head(s)} \cup ToSet(t)
  <2>1. ASSUME NEW i \in DOMAIN s PROVE s[i] \in {Head(s)} \cup ToSet(t)
    <3>1. CASE i = 1
      BY <3>1, <1>2
    <3>2. CASE i # 1
      <4>1. i - 1 \in 1 .. Len(t) /\ (i - 1) + 1 = i
        BY <3>2, <1>1, <1>2, <1>3
      <4> QED  BY <4>1, <1>1, <1>3 DEF ToSet
    <3> QED  BY <3>1, <3>2
  <2>2. ASSUME NEW i \in DOMAIN t PROVE t[i] \in ToSet(s)
    <3>1. i + 1 \in 1 .. Len(s)
      BY <2>2, <1>1, <1>2, <1>3
    <3> QED  BY <3>1, <2>2, <1>1, <1>2, <1>3 DEF ToSet
  <2>3. Head(s) \in ToSet(s)
    BY <1>2 DEF ToSet
  <2>4. ToSet(s) \subseteq {Head(s)} \cup ToSet(t)
    BY <2>1 DEF ToSet
  <2>5. ToSet(t) \subseteq ToSet(s)
    BY <2>2 DEF ToSet
  <2> QED  BY <2>3, <2>4, <2>5
<1>5. Len(s) = 1 => t = <<>>
  BY <1>1, EmptySeq
<1>6. Len(s) # 1 => t # <<>>
  BY <1>1, <1>2, EmptySeq
<1> QED  BY <1>1, <1>4, <1>5, <1>6 DEF t

LEMMA ReverseIsSeq == ASSUME NEW S, NEW s \in Seq(S) PROVE Reverse(s) \in Seq(S)
BY DEF Reverse

LEMMA SeqInclusion ==
  ASSUME NEW S, NEW T, S \subseteq T, NEW s \in Seq(S) PROVE s \in Seq(T)
OBVIOUS

LEMMA ToSetIn == ASSUME NEW S, NEW s \in Seq(S) PROVE ToSet(s) \subseteq S
BY DEF ToSet

--------------------------------------------------------------------------------
(* Types *)

LEMMA HandleFacts ==
  ASSUME handle \in Handles
  PROVE  /\ Chain \in Seq(Middleware)
         /\ \A r \in Requests : Kind[r] \in {"buffered", "streaming", "connect"}
BY HandlesAssumption DEF Chain, Kind

LEMMA InitTypes == Init => TInv
<1> SUFFICES ASSUME Init PROVE TInv
  OBVIOUS
<1>1. ToSet(Chain) \subseteq Middleware
  BY HandleFacts, ToSetIn DEF Init
<1>2. onRequest \subseteq Middleware /\ onResponse \subseteq Middleware
  BY <1>1 DEF Init
<1>3. /\ todo \in [Requests -> Seq(Hooks \cup Middleware)] /\ rest \in [Closers -> Seq(Middleware)]
      /\ requestHooks \in Seq(RequestHooks) /\ responseHooks \in Seq(ResponseHooks)
  BY EmptySeq DEF Init
<1>4. TypeOK
  BY <1>2, <1>3 DEF Init, TypeOK, Stages
<1> QED  BY <1>4 DEF Init, TInv, TodoIsOne, AskedIsThere, RestIsThere

\* A step of a session, not of a request.
LEMMA SessionTypes ==
  ASSUME TInv, UNCHANGED reqVars, TypeOK', RestIsThere'
  PROVE  TInv'
BY DEF reqVars, stageVars, TInv, TodoIsOne, AskedIsThere

LEMMA RegisterTypes ==
  ASSUME TInv, NEW h,
         \/ h \in RequestHooks /\ RegisterRequestHook(h)
         \/ h \in ResponseHooks /\ RegisterResponseHook(h)
  PROVE  TInv'
<1>1. requestHooks' \in Seq(RequestHooks) /\ responseHooks' \in Seq(ResponseHooks)
  <2>1. CASE h \in RequestHooks /\ RegisterRequestHook(h)
    BY <2>1, AppendToSet DEF RegisterRequestHook, TInv, TypeOK
  <2>2. CASE h \in ResponseHooks /\ RegisterResponseHook(h)
    BY <2>2, AppendToSet DEF RegisterResponseHook, TInv, TypeOK
  <2> QED  BY <2>1, <2>2
<1>2. UNCHANGED <<closeVars, handleVars, slotVars, reqVars>>
  BY DEF RegisterRequestHook, RegisterResponseHook
<1>3. TypeOK' /\ RestIsThere'
  BY <1>1, <1>2 DEF TInv, TypeOK, RestIsThere, closeVars, handleVars, slotVars, reqVars, stageVars
<1> QED  BY <1>2, <1>3, SessionTypes

LEMMA CloseTypes ==
  ASSUME TInv, NEW c \in Closers, CloseFlag(c) \/ CloseGoesOn(c)
  PROVE  TInv'
<1> USE DEF TInv, TypeOK, RestIsThere, handleVars, hookVars, slotVars, reqVars, stageVars
<1>1. CASE CloseFlag(c)
  <2>1. TypeOK' /\ RestIsThere'
    BY <1>1 DEF CloseFlag
  <2> QED  BY <1>1, <2>1, SessionTypes DEF CloseFlag
<1>2. CASE ClearRequestHooks(c)
  <2>1. TypeOK' /\ RestIsThere'
    BY <1>2, EmptySeq DEF ClearRequestHooks
  <2> QED  BY <1>2, <2>1, SessionTypes DEF ClearRequestHooks
<1>3. CASE ClearResponseHooks(c)
  <2>1. TypeOK' /\ RestIsThere'
    BY <1>3, EmptySeq, HandleFacts DEF ClearResponseHooks
  <2> QED  BY <1>3, <2>1, SessionTypes DEF ClearResponseHooks
<1>4. CASE TakeOnRequest(c)
  <2>1. TypeOK' /\ RestIsThere'
    BY <1>4 DEF TakeOnRequest
  <2> QED  BY <1>4, <2>1, SessionTypes DEF TakeOnRequest
<1>5. CASE TakeOnResponse(c)
  <2>1. Tail(rest[c]) \in Seq(Middleware) /\ (Len(rest[c]) # 1 => Tail(rest[c]) # <<>>)
    BY <1>5, TailToSet DEF TakeOnResponse
  <2>2. TypeOK' /\ RestIsThere'
    BY <1>5, <2>1 DEF TakeOnResponse
  <2> QED  BY <1>5, <2>2, SessionTypes DEF TakeOnResponse
<1>6. CASE PoolClear(c)
  <2>1. TypeOK' /\ RestIsThere'
    BY <1>6 DEF PoolClear
  <2> QED  BY <1>6, <2>1, SessionTypes DEF PoolClear
<1> QED  BY <1>1, <1>2, <1>3, <1>4, <1>5, <1>6 DEF CloseGoesOn

\* A step of one request: the facts that only concern the session stay.
LEMMA RequestTypes ==
  ASSUME TInv, NEW r \in Requests, UNCHANGED <<closeVars, handleVars, hookVars, slotVars>>,
         NEW s \in Stages, stage' = [stage EXCEPT ![r] = s],
         NEW steps \in Seq(Hooks \cup Middleware), todo' = [todo EXCEPT ![r] = steps],
         s \in {"firing", "answering"} => steps \in Seq(Hooks),
         s \in {"passing", "asking", "returning", "asking back"} => steps \in Seq(Middleware),
         s \in {"asking", "asking back"} => steps # <<>>,
         ran' \in [Requests -> SUBSET Callbacks],
         early' \in [Requests -> SUBSET Hooks],
         senders' \subseteq Requests
  PROVE  TInv'
<1> USE DEF closeVars, handleVars, hookVars, slotVars, TInv
<1>1. TypeOK' /\ RestIsThere'
  BY DEF TypeOK, RestIsThere
<1>2. \A q \in Requests : q # r => stage'[q] = stage[q] /\ todo'[q] = todo[q]
  BY DEF TypeOK
<1>3. stage'[r] = s /\ todo'[r] = steps
  BY DEF TypeOK
<1>4. TodoIsOne'
  BY <1>2, <1>3 DEF TodoIsOne
<1>5. AskedIsThere'
  BY <1>2, <1>3 DEF AskedIsThere
<1> QED  BY <1>1, <1>4, <1>5

\* The form in which most steps satisfy it: the request goes on and calls nothing.
LEMMA QuietTypes ==
  ASSUME TInv, NEW r \in Requests, UNCHANGED <<closeVars, handleVars, hookVars, slotVars, ran, early>>,
         NEW s \in Stages, Goto(r, s), Through(r, todo'[r]) \/ UNCHANGED todo,
         s \in {"firing", "answering"} => todo'[r] \in Seq(Hooks),
         s \in {"passing", "asking", "returning", "asking back"} => todo'[r] \in Seq(Middleware),
         s \in {"asking", "asking back"} => todo'[r] # <<>>,
         todo'[r] \in Seq(Hooks \cup Middleware)
  PROVE  TInv'
<1>1. todo' = [todo EXCEPT ![r] = todo'[r]]
  BY DEF Through, TInv, TypeOK
<1>2. ran' \in [Requests -> SUBSET Callbacks] /\ early' \in [Requests -> SUBSET Hooks]
  BY DEF TInv, TypeOK
<1>3. senders' \subseteq Requests
  BY DEF Goto, TInv, TypeOK
<1> QED  BY <1>1, <1>2, <1>3, RequestTypes DEF Goto

LEMMA AcceptTypes ==
  ASSUME TInv, NEW r \in Requests,
         BadArguments(r) \/ Submit(r) \/ SubmitStreaming(r) \/ SubmitConnect(r)
  PROVE  TInv'
<1> USE DEF Accept, Goto
<1>1. PICK s \in {"refused", "preparing", "accepted"} : stage' = [stage EXCEPT ![r] = s]
  BY DEF BadArguments, Submit, SubmitStreaming, SubmitConnect
<1>2. todo' = [todo EXCEPT ![r] = todo[r]] /\ todo[r] \in Seq(Hooks \cup Middleware)
  BY DEF BadArguments, Submit, SubmitStreaming, SubmitConnect, TInv, TypeOK
<1>3. ran' \in [Requests -> SUBSET Callbacks]
  BY DEF BadArguments, Submit, SubmitStreaming, SubmitConnect, TInv, TypeOK
<1>4. ToSet(requestHooks) \cup ToSet(responseHooks) \subseteq Hooks
  BY ToSetIn DEF TInv, TypeOK, Hooks
<1>5. early' \in [Requests -> SUBSET Hooks]
  BY <1>4 DEF BadArguments, Submit, SubmitStreaming, SubmitConnect, TInv, TypeOK
<1>6. UNCHANGED <<closeVars, handleVars, hookVars, slotVars>>
  BY DEF BadArguments, Submit, SubmitStreaming, SubmitConnect
<1>7. s \in Stages
  BY DEF Stages
<1>8. senders' \subseteq Requests
  BY DEF BadArguments, Submit, SubmitStreaming, SubmitConnect, Closing, TInv, TypeOK
<1> QED  BY <1>1, <1>2, <1>3, <1>5, <1>6, <1>7, <1>8, RequestTypes

LEMMA WorkTypes ==
  ASSUME TInv, NEW r \in Requests,
         Work(r) \/ Answered(r) \/ Abandon(r) \/ Cancelled(r)
  PROVE  TInv'
<1> DEFINE Callees == Hooks \cup Middleware
<1>1. /\ todo[r] \in Seq(Callees) /\ requestHooks \in Seq(Hooks) /\ responseHooks \in Seq(Hooks)
      /\ Chain \in Seq(Middleware) /\ Reverse(Chain) \in Seq(Middleware)
  BY SeqMonotonic, HandleFacts, ReverseIsSeq DEF TInv, TypeOK, Hooks
<1>2. \A s : (s \in Seq(Hooks) \/ s \in Seq(Middleware)) => s \in Seq(Callees)
  BY SeqMonotonic
<1>3. todo[r] # <<>> => /\ Tail(todo[r]) \in Seq(Callees) /\ Head(todo[r]) \in Callees
                        /\ todo[r] \in Seq(Hooks) => Tail(todo[r]) \in Seq(Hooks) /\ Head(todo[r]) \in Hooks
                        /\ todo[r] \in Seq(Middleware) => /\ Tail(todo[r]) \in Seq(Middleware)
                                                          /\ Head(todo[r]) \in Middleware
  BY <1>1, HeadTailProperties
<1>4. ASSUME NEW steps, Through(r, steps) PROVE todo'[r] = steps
  BY <1>4 DEF Through, TInv, TypeOK
<1>5. ASSUME NEW callback \in Callbacks, Record(r, callback)
      PROVE  ran' \in [Requests -> SUBSET Callbacks]
  BY <1>5 DEF Record, TInv, TypeOK
<1>6. early \in [Requests -> SUBSET Hooks] /\ ran \in [Requests -> SUBSET Callbacks]
  BY DEF TInv, TypeOK
<1>0. CASE Prepared(r)
  <2>1. PICK s \in {"accepted", "refused"} : Goto(r, s)
    BY <1>0 DEF Prepared
  <2> QED  BY <1>0, <2>1, <1>1, QuietTypes DEF Prepared, Stages
<1>7. CASE FireRequest(r)
  BY <1>7, <1>1, <1>2, <1>4, QuietTypes DEF FireRequest, Stages
<1>8. CASE StartStreaming(r)
  <2>1. CASE Goto(r, "passing") /\ Through(r, Chain)
    BY <1>8, <2>1, <1>1, <1>2, <1>4, QuietTypes DEF StartStreaming, Stages
  <2>2. CASE Goto(r, "failed") /\ UNCHANGED todo
    BY <1>8, <2>2, <1>1, QuietTypes DEF StartStreaming, Stages
  <2> QED  BY <1>8, <2>1, <2>2 DEF StartStreaming
<1>9. CASE StartConnect(r)
  BY <1>9, <1>1, QuietTypes DEF StartConnect, Stages
<1>10. CASE CallHook(r)
  <2>1. todo[r] \in Seq(Hooks) /\ stage[r] \in Stages
    BY <1>10 DEF CallHook, TInv, TodoIsOne, Stages
  <2>2. Head(todo[r]) \in Callbacks
    BY <1>10, <2>1, <1>3 DEF CallHook, Callbacks
  <2>3. stage' = [stage EXCEPT ![r] = stage[r]] /\ early' = early /\ senders' \subseteq Requests
    BY <1>10 DEF CallHook, stageVars, TInv, TypeOK
  <2>4. ran' \in [Requests -> SUBSET Callbacks] /\ todo' = [todo EXCEPT ![r] = Tail(todo[r])]
    BY <1>10, <2>2, <1>5 DEF CallHook, Through
  <2>5. stage[r] \notin {"passing", "asking", "returning", "asking back"}
    BY <1>10 DEF CallHook
  <2> QED  BY <1>10, <2>1, <2>3, <2>4, <2>5, <1>2, <1>3, <1>6, RequestTypes DEF CallHook
<1>11. CASE Build(r)
  <2>1. CASE Goto(r, "passing") /\ Through(r, Chain)
    BY <1>11, <2>1, <1>1, <1>2, <1>4, QuietTypes DEF Build, Stages
  <2>2. CASE Goto(r, "failed") /\ UNCHANGED todo
    BY <1>11, <2>2, <1>1, QuietTypes DEF Build, Stages
  <2> QED  BY <1>11, <2>1, <2>2 DEF Build
<1>12. CASE CheckOnRequest(r) \/ CheckOnResponse(r)
  <2>1. /\ UNCHANGED <<closeVars, handleVars, hookVars, slotVars, ran, early>>
        /\ todo[r] \in Seq(Middleware) /\ stage[r] \in {"passing", "returning"}
    BY <1>12 DEF CheckOnRequest, CheckOnResponse, TInv, TodoIsOne
  <2>2. \/ /\ UNCHANGED todo /\ \E s \in {"waiting", "received", "done"} : Goto(r, s)
        \/ /\ todo[r] # <<>> /\ UNCHANGED todo /\ \E s \in {"asking", "asking back"} : Goto(r, s)
        \/ /\ todo[r] # <<>> /\ Through(r, Tail(todo[r])) /\ UNCHANGED stageVars
    BY <1>12 DEF CheckOnRequest, CheckOnResponse
  <2>3. ASSUME NEW s \in {"waiting", "received", "done"}, Goto(r, s), UNCHANGED todo
        PROVE  TInv'
    BY <2>1, <2>3, <1>1, QuietTypes DEF Stages
  <2>4. ASSUME NEW s \in {"asking", "asking back"}, Goto(r, s), UNCHANGED todo, todo[r] # <<>>
        PROVE  TInv'
    BY <2>1, <2>4, <1>1, QuietTypes DEF Stages
  <2>5. ASSUME todo[r] # <<>>, Through(r, Tail(todo[r])), UNCHANGED stageVars PROVE TInv'
    <3>1. Goto(r, stage[r]) /\ stage[r] \in Stages
      BY <2>1, <2>5 DEF Goto, Over, stageVars, TInv, TypeOK
    <3>2. todo'[r] = Tail(todo[r]) /\ todo'[r] \in Seq(Middleware) /\ todo'[r] \in Seq(Callees)
      BY <2>1, <2>5, <1>3, <1>4
    <3>3. Through(r, todo'[r])
      BY <2>5, <3>2
    <3> QED  BY <2>1, <3>1, <3>2, <3>3, QuietTypes
  <2> QED  BY <2>2, <2>3, <2>4, <2>5
<1>13. CASE RunOnRequest(r) \/ RunOnResponse(r)
  <2>1. /\ UNCHANGED <<closeVars, handleVars, hookVars, slotVars, early>>
        /\ todo' = [todo EXCEPT ![r] = Tail(todo[r])]
        /\ stage[r] \in {"asking", "asking back"}
    BY <1>13 DEF RunOnRequest, RunOnResponse, Through
  <2>2. todo[r] # <<>> /\ todo[r] \in Seq(Middleware)
    BY <2>1 DEF TInv, TodoIsOne, AskedIsThere
  <2>3. Head(todo[r]) \in Middleware /\ Tail(todo[r]) \in Seq(Middleware)
    BY <2>2, <1>3
  <2>4. \A way \in {"request", "response"} : <<Head(todo[r]), way>> \in Callbacks
    BY <2>3 DEF Callbacks
  <2>5. ran' \in [Requests -> SUBSET Callbacks]
    BY <1>13, <2>4, <1>5, <1>6 DEF RunOnRequest, RunOnResponse
  <2>6. PICK s \in {"passing", "returning", "failed"} : Goto(r, s)
    BY <1>13 DEF RunOnRequest, RunOnResponse
  <2>7. s \in Stages /\ senders' \subseteq Requests
    BY <2>6 DEF Goto, Stages, TInv, TypeOK
  <2> QED  BY <2>1, <2>3, <2>5, <2>6, <2>7, <1>2, <1>6, RequestTypes DEF Goto
<1>14. CASE FireResponse(r)
  BY <1>14, <1>1, <1>2, <1>4, QuietTypes DEF FireResponse, Stages
<1>15. CASE Finish(r) \/ Abandon(r) \/ Cancelled(r)
  <2>1. PICK s \in {"done", "abandoned", "cancelled"} : Goto(r, s)
    BY <1>15 DEF Finish, Abandon, Cancelled
  <2> QED  BY <1>15, <2>1, <1>1, QuietTypes DEF Finish, Abandon, Cancelled, Stages
<1>16. CASE Answered(r)
  <2>1. CASE Goto(r, "returning") /\ Through(r, Reverse(Chain))
    BY <1>16, <2>1, <1>1, <1>2, <1>4, QuietTypes DEF Answered, Stages
  <2>2. ASSUME NEW s \in {"done", "failed"}, Goto(r, s), UNCHANGED todo PROVE TInv'
    BY <1>16, <2>2, <1>1, QuietTypes DEF Answered, Stages
  <2> QED  BY <1>16, <2>1, <2>2 DEF Answered
<1> QED
  BY <1>0, <1>7, <1>8, <1>9, <1>10, <1>11, <1>12, <1>13, <1>14, <1>15, <1>16 DEF Work

LEMMA TypeStep == TInv /\ [Next]_vars => TInv'
<1> SUFFICES ASSUME TInv, [Next]_vars PROVE TInv'
  OBVIOUS
<1>1. CASE DropHandle \/ Collect \/ Free
  <2>1. /\ UNCHANGED <<handle, closeVars, slotVars, reqVars>>
        /\ life' \in {"held", "loose", "freed"} /\ collected' \in BOOLEAN
        /\ requestHooks' \in Seq(RequestHooks) /\ responseHooks' \in Seq(ResponseHooks)
    BY <1>1, EmptySeq DEF DropHandle, Collect, Free, TInv, TypeOK, hookVars
  <2>2. TypeOK' /\ RestIsThere'
    BY <2>1 DEF TInv, TypeOK, RestIsThere, closeVars, slotVars, reqVars, stageVars
  <2> QED  BY <2>1, <2>2, SessionTypes
<1>2. CASE UNCHANGED vars
  BY <1>2 DEF vars, closeVars, handleVars, hookVars, slotVars, reqVars, stageVars, TInv, TypeOK,
     TodoIsOne, AskedIsThere, RestIsThere
<1> QED  BY <1>1, <1>2, RegisterTypes, CloseTypes, AcceptTypes, WorkTypes DEF Next

--------------------------------------------------------------------------------
(* close() *)

\* Whatever a request does, it leaves the session as it is.
RequestStep(r) ==
  \/ BadArguments(r) \/ Submit(r) \/ SubmitStreaming(r) \/ SubmitConnect(r)
  \/ Work(r) \/ Answered(r) \/ Abandon(r) \/ Cancelled(r)

LEMMA RequestsLeaveTheSession ==
  ASSUME NEW r, RequestStep(r)
  PROVE  UNCHANGED <<closeVars, handleVars, hookVars, slotVars>>
<1>1. CASE BadArguments(r) \/ Submit(r) \/ SubmitStreaming(r) \/ SubmitConnect(r)
  BY <1>1 DEF BadArguments, Submit, SubmitStreaming, SubmitConnect, Accept
<1>2. CASE Answered(r) \/ Abandon(r) \/ Cancelled(r)
  BY <1>2 DEF Answered, Abandon, Cancelled
<1>3. CASE FireRequest(r) \/ StartStreaming(r) \/ StartConnect(r) \/ CallHook(r) \/ Build(r) \/ Prepared(r)
  BY <1>3 DEF FireRequest, StartStreaming, StartConnect, CallHook, Build, Prepared
<1>4. CASE \/ CheckOnRequest(r) \/ RunOnRequest(r) \/ CheckOnResponse(r) \/ RunOnResponse(r)
           \/ FireResponse(r) \/ Finish(r)
  BY <1>4 DEF CheckOnRequest, RunOnRequest, CheckOnResponse, RunOnResponse, FireResponse, Finish
<1> QED  BY <1>1, <1>2, <1>3, <1>4 DEF RequestStep, Work

LEMMA InitClose == Init => CInv
<1> SUFFICES ASSUME Init PROVE CInv
  OBVIOUS
<1>1. \A c \in Closers : closer[c] = "idle"
  BY DEF Init
<1> QED
  BY <1>1 DEF Init, CInv, Flagged, RequestHooksGone, ResponseHooksGone, SlotsGo, SlotsOfChain

\* Once the flag is set no registration gets through; what a close() has emptied
\* stays empty.
LEMMA CloseStep == TInv /\ CInv /\ [Next]_vars => CInv'
<1> SUFFICES ASSUME TInv, CInv, [Next]_vars PROVE CInv'
  OBVIOUS
<1> USE DEF CInv, Flagged, RequestHooksGone, ResponseHooksGone, SlotsGo, SlotsOfChain, Chain,
            closeVars, handleVars, hookVars, slotVars
<1>1. ASSUME NEW r \in Requests, RequestStep(r) PROVE CInv'
  BY <1>1, RequestsLeaveTheSession
<1>2. ASSUME NEW h, RegisterRequestHook(h) \/ RegisterResponseHook(h) PROVE CInv'
  BY <1>2 DEF RegisterRequestHook, RegisterResponseHook
<1>3. ASSUME NEW c \in Closers, CloseFlag(c) PROVE CInv'
  BY <1>3 DEF CloseFlag, TInv, TypeOK
<1>4. ASSUME NEW c \in Closers, ClearRequestHooks(c) PROVE CInv'
  BY <1>4 DEF ClearRequestHooks, TInv, TypeOK
<1>5. ASSUME NEW c \in Closers, ClearResponseHooks(c) PROVE CInv'
  <2>1. Chain = <<>> => onRequest = {} /\ onResponse = {}
    BY EmptyToSet
  <2> QED  BY <1>5, <2>1 DEF ClearResponseHooks, TInv, TypeOK
<1>6. ASSUME NEW c \in Closers, TakeOnRequest(c) PROVE CInv'
  <2>1. ToSet(rest[c]) = {Head(rest[c])} \cup ToSet(Tail(rest[c]))
    BY <1>6, TailToSet DEF TakeOnRequest, TInv, TypeOK, RestIsThere
  <2>2. /\ closer'[c] = "half released" /\ closer[c] = "releasing"
        /\ \A d \in Closers : d # c => closer'[d] = closer[d]
    BY <1>6 DEF TakeOnRequest, TInv, TypeOK
  <2>3. /\ onRequest' = onRequest \ {Head(rest[c])} /\ onRequest' \subseteq ToSet(Tail(rest[c]))
        /\ UNCHANGED <<closed, rest, handleVars, hookVars, onResponse>>
    BY <1>6, <2>1, <2>2 DEF TakeOnRequest
  <2>4. SlotsGo'
    BY <2>1, <2>2, <2>3
  <2>5. Flagged' /\ RequestHooksGone' /\ ResponseHooksGone' /\ SlotsOfChain'
    BY <2>2, <2>3
  <2> QED  BY <2>4, <2>5
<1>7. ASSUME NEW c \in Closers, TakeOnResponse(c) PROVE CInv'
  <2>1. /\ ToSet(rest[c]) = {Head(rest[c])} \cup ToSet(Tail(rest[c]))
        /\ Len(rest[c]) = 1 => ToSet(Tail(rest[c])) = {}
    BY <1>7, TailToSet, EmptyToSet DEF TakeOnResponse, TInv, TypeOK, RestIsThere
  <2>2. rest'[c] = Tail(rest[c]) /\ \A d \in Closers : d # c => rest'[d] = rest[d]
    BY <1>7 DEF TakeOnResponse, TInv, TypeOK
  <2>3. /\ closer'[c] = IF Len(rest[c]) = 1 THEN "pool" ELSE "releasing"
        /\ \A d \in Closers : d # c => closer'[d] = closer[d]
    BY <1>7 DEF TakeOnResponse, TInv, TypeOK
  <2>4. /\ onResponse' = onResponse \ {Head(rest[c])}
        /\ onRequest \cup onResponse' \subseteq ToSet(Tail(rest[c]))
        /\ UNCHANGED <<closed, handleVars, hookVars, onRequest>>
        /\ closer[c] = "half released"
    BY <1>7, <2>1 DEF TakeOnResponse
  <2>5. ASSUME NEW d \in Closers, d # c
        PROVE  /\ closer'[d] = "releasing" => onRequest' \cup onResponse' \subseteq ToSet(rest'[d])
               /\ closer'[d] = "half released" =>
                    onResponse' \subseteq ToSet(rest'[d]) /\ onRequest' \subseteq ToSet(Tail(rest'[d]))
               /\ closer'[d] \in {"pool", "returned"} => onRequest' = {} /\ onResponse' = {}
    BY <2>2, <2>3, <2>4, <2>5
  <2>6. /\ closer'[c] = "releasing" => onRequest' \cup onResponse' \subseteq ToSet(rest'[c])
        /\ closer'[c] = "pool" => onRequest' = {} /\ onResponse' = {}
        /\ closer'[c] \in {"pool", "releasing"}
    BY <2>1, <2>2, <2>3, <2>4
  <2>7. SlotsGo'
    BY <2>5, <2>6
  <2>8. Flagged' /\ RequestHooksGone' /\ ResponseHooksGone' /\ SlotsOfChain'
    BY <2>3, <2>4
  <2> QED  BY <2>7, <2>8
<1>8. ASSUME NEW c \in Closers, PoolClear(c) PROVE CInv'
  BY <1>8 DEF PoolClear, TInv, TypeOK
<1>9. CASE DropHandle \/ Collect \/ Free
  <2>1. /\ UNCHANGED <<closed, closer, rest, handle, onRequest, onResponse>>
        /\ requestHooks' = requestHooks \/ requestHooks' = <<>>
        /\ responseHooks' = responseHooks \/ responseHooks' = <<>>
    BY <1>9 DEF DropHandle, Collect, Free
  <2>2. SlotsGo' /\ SlotsOfChain' /\ Flagged'
    BY <2>1
  <2>3. RequestHooksGone' /\ ResponseHooksGone'
    BY <2>1
  <2> QED  BY <2>2, <2>3
<1>10. CASE UNCHANGED vars
  BY <1>10 DEF vars
<1> HIDE DEF CInv
<1> QED
  BY <1>1, <1>2, <1>3, <1>4, <1>5, <1>6, <1>7, <1>8, <1>9, <1>10
     DEF Next, CloseGoesOn, RequestStep

--------------------------------------------------------------------------------
(* Hooks *)

\* The other requests do not notice.
LEMMA OthersStay ==
  ASSUME TInv, NEW r \in Requests, RequestStep(r), NEW q \in Requests, q # r
  PROVE  stage'[q] = stage[q] /\ todo'[q] = todo[q] /\ ran'[q] = ran[q] /\ early'[q] = early[q]
<1> USE DEF TInv, TypeOK, Goto, Through, Record, stageVars
<1>1. CASE BadArguments(r) \/ Submit(r) \/ SubmitStreaming(r) \/ SubmitConnect(r)
  BY <1>1 DEF BadArguments, Submit, SubmitStreaming, SubmitConnect, Accept
<1>2. CASE Answered(r) \/ Abandon(r) \/ Cancelled(r)
  BY <1>2 DEF Answered, Abandon, Cancelled
<1>3. CASE FireRequest(r) \/ StartStreaming(r) \/ StartConnect(r) \/ CallHook(r) \/ Build(r) \/ Prepared(r)
  BY <1>3 DEF FireRequest, StartStreaming, StartConnect, CallHook, Build, Prepared
<1>4. CASE CheckOnRequest(r) \/ CheckOnResponse(r) \/ FireResponse(r) \/ Finish(r)
  BY <1>4 DEF CheckOnRequest, CheckOnResponse, FireResponse, Finish
<1>5. CASE RunOnRequest(r) \/ RunOnResponse(r)
  BY <1>5 DEF RunOnRequest, RunOnResponse
<1> QED  BY <1>1, <1>2, <1>3, <1>4, <1>5 DEF RequestStep, Work

\* A step of its own keeps the account of a request's hooks.
LEMMA OwnHooks ==
  ASSUME TInv, NEW r \in Requests, Waits(r), RequestStep(r)
  PROVE  Waits(r)'
<1> SUFFICES ASSUME ~closed, ~collected, Kind[r] = "buffered" PROVE Waits(r)'
  BY RequestsLeaveTheSession DEF Waits, Kind, closeVars, handleVars
<1>0. closed' = closed /\ collected' = collected /\ Kind' = Kind /\ UNCHANGED <<requestHooks, responseHooks>>
  BY RequestsLeaveTheSession DEF closeVars, handleVars, hookVars, Kind
<1> USE DEF Waits, Goto, Through, Record, stageVars, TInv, TypeOK
<1>1. CASE BadArguments(r) \/ Submit(r)
  BY <1>0, <1>1 DEF BadArguments, Submit, Accept
<1>2. CASE FireRequest(r)
  BY <1>0, <1>2 DEF FireRequest
<1>3. CASE CallHook(r)
  <2>1. ToSet(todo[r]) = {Head(todo[r])} \cup ToSet(Tail(todo[r]))
    BY <1>3, TailToSet DEF CallHook
  <2>2. ran'[r] = ran[r] \cup {Head(todo[r])} /\ todo'[r] = Tail(todo[r])
        /\ stage' = stage /\ early' = early
    BY <1>3 DEF CallHook
  <2>3. stage[r] \in {"firing", "answering"}
    BY <1>3 DEF CallHook
  <2> QED  BY <1>0, <2>1, <2>2, <2>3
<1>4. CASE Build(r) \/ Finish(r)
  BY <1>0, <1>4, EmptyToSet DEF Build, Finish
<1>5. CASE CheckOnRequest(r) \/ CheckOnResponse(r)
  <2>1. ran' = ran /\ early' = early
    BY <1>5 DEF CheckOnRequest, CheckOnResponse
  <2>2. /\ stage[r] \in {"passing", "returning"}
        /\ stage'[r] \in {"passing", "returning", "waiting", "received", "asking", "asking back"}
    BY <1>5 DEF CheckOnRequest, CheckOnResponse
  <2> QED  BY <1>0, <2>1, <2>2
<1>6. CASE RunOnRequest(r) \/ RunOnResponse(r)
  <2>1. ran[r] \subseteq ran'[r]
    <3>1. (\E callback : Record(r, callback)) \/ UNCHANGED ran
      BY <1>6 DEF RunOnRequest, RunOnResponse
    <3> QED  BY <3>1
  <2>2. /\ stage[r] \in {"asking", "asking back"}
        /\ stage'[r] \in {"passing", "returning", "failed"}
        /\ early' = early
    BY <1>6 DEF RunOnRequest, RunOnResponse
  <2> QED  BY <1>0, <2>1, <2>2
<1>7. CASE FireResponse(r)
  BY <1>0, <1>7 DEF FireResponse
<1>8. CASE Answered(r)
  BY <1>0, <1>8 DEF Answered
<1>9. CASE Abandon(r) \/ Cancelled(r)
  BY <1>0, <1>9 DEF Abandon, Cancelled
<1>11. CASE Prepared(r)
  BY <1>0, <1>11 DEF Prepared
<1>10. CASE SubmitStreaming(r) \/ SubmitConnect(r) \/ StartStreaming(r) \/ StartConnect(r)
  BY <1>10 DEF SubmitStreaming, SubmitConnect, StartStreaming, StartConnect
<1> QED
  BY <1>1, <1>2, <1>3, <1>4, <1>5, <1>6, <1>7, <1>8, <1>9, <1>10, <1>11
     DEF RequestStep, Work

\* Until close() is called or the handle is collected, a list only grows.
LEMMA HooksStep == TInv /\ CInv /\ HooksWait /\ [Next]_vars => HooksWait'
<1> SUFFICES ASSUME TInv, CInv, HooksWait, [Next]_vars, NEW q \in Requests PROVE Waits(q)'
  BY DEF HooksWait
<1>1. Waits(q)
  BY DEF HooksWait
<1>2. ASSUME NEW r \in Requests, RequestStep(r) PROVE Waits(q)'
  <2>1. CASE r = q
    BY <1>1, <1>2, <2>1, OwnHooks
  <2>2. CASE r # q
    BY <1>1, <1>2, <2>2, OthersStay, RequestsLeaveTheSession
       DEF Waits, Kind, closeVars, handleVars, hookVars
  <2> QED  BY <2>1, <2>2
<1>3. ASSUME UNCHANGED <<closed, collected, handle, reqVars>>,
             ToSet(requestHooks) \subseteq ToSet(requestHooks'),
             ToSet(responseHooks) \subseteq ToSet(responseHooks')
      PROVE  Waits(q)'
  BY <1>1, <1>3 DEF Waits, Kind, reqVars, stageVars
<1>4. ASSUME NEW h \in RequestHooks, RegisterRequestHook(h) PROVE Waits(q)'
  BY <1>3, <1>4, AppendToSet DEF RegisterRequestHook, closeVars, handleVars, TInv, TypeOK
<1>5. ASSUME NEW h \in ResponseHooks, RegisterResponseHook(h) PROVE Waits(q)'
  BY <1>3, <1>5, AppendToSet DEF RegisterResponseHook, closeVars, handleVars, TInv, TypeOK
<1>6. ASSUME NEW c \in Closers, CloseFlag(c) \/ CloseGoesOn(c) PROVE Waits(q)'
  <2>1. CASE CloseFlag(c)
    BY <2>1 DEF CloseFlag, Waits
  <2>2. CASE CloseGoesOn(c)
    <3>1. closer[c] # "idle" /\ closed' = closed
      BY <2>2 DEF CloseGoesOn, ClearRequestHooks, ClearResponseHooks, TakeOnRequest,
         TakeOnResponse, PoolClear
    <3> QED  BY <3>1 DEF CInv, Flagged, Waits
  <2> QED  BY <1>6, <2>1, <2>2
<1>7. CASE DropHandle \/ Free
  BY <1>3, <1>7 DEF DropHandle, Free, closeVars, hookVars
<1>8. CASE Collect
  BY <1>8 DEF Collect, Waits
<1>9. CASE UNCHANGED vars
  BY <1>3, <1>9 DEF vars, closeVars, handleVars, hookVars
<1> QED  BY <1>2, <1>4, <1>5, <1>6, <1>7, <1>8, <1>9 DEF Next, RequestStep

--------------------------------------------------------------------------------
(* Who hears close() *)

\* How a step of a request changes its stage, and what becomes of its sender.
LEMMA RequestStages ==
  ASSUME NEW r, RequestStep(r)
  PROVE  \/ UNCHANGED stageVars
         \/ Abandon(r)
         \/ stage[r] = "new" /\ Goto(r, "refused")
         \/ \E s \in {"accepted", "preparing"} :
              stage' = [stage EXCEPT ![r] = s] /\ senders' = senders \cup {r}
         \/ stage[r] \notin Over \cup {"new"} /\ \E s \in Stages \ {"abandoned"} : Goto(r, s)
<1> USE DEF Over, Stages
<1>1. CASE BadArguments(r) \/ Submit(r) \/ SubmitStreaming(r) \/ SubmitConnect(r)
  BY <1>1 DEF BadArguments, Submit, SubmitStreaming, SubmitConnect, Accept, Closing
<1>2. CASE Prepared(r) \/ Answered(r) \/ Cancelled(r)
  BY <1>2 DEF Prepared, Answered, Cancelled, Awaiting
<1>3. CASE FireRequest(r) \/ StartStreaming(r) \/ StartConnect(r) \/ CallHook(r) \/ Build(r)
  BY <1>3 DEF FireRequest, StartStreaming, StartConnect, CallHook, Build
<1>4. CASE CheckOnRequest(r) \/ CheckOnResponse(r)
  BY <1>4 DEF CheckOnRequest, CheckOnResponse
<1>5. CASE RunOnRequest(r) \/ RunOnResponse(r) \/ FireResponse(r) \/ Finish(r)
  BY <1>5 DEF RunOnRequest, RunOnResponse, FireResponse, Finish
<1> QED  BY <1>1, <1>2, <1>3, <1>4, <1>5 DEF RequestStep, Work

\* Nothing but a request changes stages and senders, and closed never falls back.
LEMMA SessionStages ==
  ASSUME [Next]_vars
  PROVE  /\ UNCHANGED stageVars \/ \E r \in Requests : RequestStep(r)
         /\ closed => closed'
<1>1. ASSUME NEW r \in Requests, RequestStep(r) PROVE closed' = closed
  BY <1>1, RequestsLeaveTheSession DEF closeVars
<1>2. ASSUME NEW c \in Closers, CloseFlag(c) \/ CloseGoesOn(c)
      PROVE  UNCHANGED stageVars /\ (closed => closed')
  <2>1. UNCHANGED reqVars
    BY <1>2 DEF CloseFlag, CloseGoesOn, ClearRequestHooks, ClearResponseHooks, TakeOnRequest,
       TakeOnResponse, PoolClear
  <2>2. closed' = TRUE \/ closed' = closed
    BY <1>2 DEF CloseFlag, CloseGoesOn, ClearRequestHooks, ClearResponseHooks, TakeOnRequest,
       TakeOnResponse, PoolClear
  <2> QED  BY <2>1, <2>2 DEF reqVars, stageVars
<1>3. ASSUME NEW h, RegisterRequestHook(h) \/ RegisterResponseHook(h)
      PROVE  UNCHANGED <<stageVars, closed>>
  BY <1>3 DEF RegisterRequestHook, RegisterResponseHook, reqVars, stageVars, closeVars
<1>4. CASE DropHandle \/ Collect \/ Free \/ UNCHANGED vars
  BY <1>4 DEF DropHandle, Collect, Free, vars, reqVars, stageVars, closeVars
<1> QED  BY <1>1, <1>2, <1>3, <1>4 DEF Next, RequestStep

\* A sender goes only with the request that owns it.
LEMMA OwnersStep == TInv /\ InFlightOwns /\ [Next]_vars => InFlightOwns'
<1> SUFFICES ASSUME TInv, InFlightOwns, [Next]_vars PROVE InFlightOwns'
  OBVIOUS
<1>1. CASE UNCHANGED stageVars
  BY <1>1 DEF InFlightOwns, stageVars
<1>2. ASSUME NEW r \in Requests, RequestStep(r), NEW q \in Requests,
             stage'[q] \notin Over \cup {"new"}
      PROVE  q \in senders'
  <2> USE DEF InFlightOwns, TInv, TypeOK
  <2>1. CASE UNCHANGED stageVars
    BY <1>2, <2>1 DEF stageVars
  <2>2. ASSUME NEW s \in Stages, Goto(r, s), s \in Over \/ stage[r] \notin Over \cup {"new"}
        PROVE  q \in senders'
    BY <1>2, <2>2 DEF Goto
  <2>3. CASE Abandon(r)
    BY <2>2, <2>3 DEF Abandon, Stages, Over
  <2>4. ASSUME NEW s, stage' = [stage EXCEPT ![r] = s], senders' = senders \cup {r}
        PROVE  q \in senders'
    BY <1>2, <2>4
  <2> QED  BY <1>2, <2>1, <2>2, <2>3, <2>4, RequestStages DEF Stages, Over
<1> QED  BY <1>1, <1>2, SessionStages DEF InFlightOwns

\* A request that is abandoned is in flight, so that a sender is left, and what its
\* wait_for returned for is the value.
LEMMA AbandonStep ==
  TInv /\ InFlightOwns /\ OnlyCloseAbandons /\ [Next]_vars => OnlyCloseAbandons'
<1> SUFFICES ASSUME TInv, InFlightOwns, OnlyCloseAbandons, [Next]_vars,
                    NEW q \in Requests, stage'[q] = "abandoned"
             PROVE  closed'
  BY DEF OnlyCloseAbandons
<1>1. CASE stage[q] = "abandoned"
  BY <1>1, SessionStages DEF OnlyCloseAbandons
<1>2. CASE stage[q] # "abandoned"
  <2>1. PICK r \in Requests : RequestStep(r) /\ ~ UNCHANGED stageVars
    BY <1>2, SessionStages DEF stageVars
  <2>2. Abandon(r)
    BY <1>2, <2>1, RequestStages DEF Goto, TInv, TypeOK
  <2>3. r \in senders
    BY <2>2 DEF Abandon, Awaiting, Over, InFlightOwns
  <2> QED  BY <2>2, <2>3, SessionStages DEF Abandon, CloseHeard
<1> QED  BY <1>1, <1>2

SInv == TInv /\ CInv /\ HooksWait /\ InFlightOwns /\ OnlyCloseAbandons

LEMMA Always == Spec => []SInv
<1>1. Init => SInv
  BY InitTypes, InitClose DEF Init, SInv, HooksWait, Waits, InFlightOwns, OnlyCloseAbandons
<1>2. SInv /\ [Next]_vars => SInv'
  BY TypeStep, CloseStep, HooksStep, OwnersStep, AbandonStep DEF SInv
<1> QED  BY <1>1, <1>2, PTL DEF Spec

--------------------------------------------------------------------------------
(* The theorems. *)

\* Types.
THEOREM TypeCorrect == Spec => []TypeOK
BY Always, PTL DEF SInv, TInv

\* When close() has returned, no callback is left, whatever is registered, released
\* or collected meanwhile and however many close() calls overlap.
THEOREM NothingIsLeft == Spec => []CloseLeavesNothing
<1>1. SInv => CloseLeavesNothing
  BY DEF SInv, CInv, RequestHooksGone, ResponseHooksGone, SlotsGo, CloseReturned,
     CloseLeavesNothing
<1> QED  BY <1>1, Always, PTL

\* A request is abandoned only by a close(), not because its handle is freed: the
\* watch channel has a sender as long as any request is in flight.
THEOREM AbandonedByClose == Spec => []OnlyCloseAbandons
BY Always, PTL DEF SInv

\* A buffered request calls every hook that was registered when it was made, unless
\* the session is closed or its handle collected.
THEOREM EveryHookIsHeard == Spec => []HooksAreHeard
<1>1. SInv => HooksAreHeard
  BY DEF SInv, HooksWait, Waits, HooksAreHeard, HeardItsHooks
<1> QED  BY <1>1, Always, PTL

\* No middleware callback begins once close() has returned (the slot is read again
\* under the GIL).
THEOREM MiddlewareEndsWithClose == Spec => NoMiddlewareAfterClose
<1> DEFINE Silent == CloseReturned => \A r \in Requests : ran'[r] \ ran[r] \subseteq Hooks
<1>1. SInv /\ [Next]_vars => [Silent]_vars
  <2> SUFFICES ASSUME SInv, Next, CloseReturned, NEW q \in Requests
               PROVE  ran'[q] \ ran[q] \subseteq Hooks
    BY DEF vars
  <2> USE DEF SInv, TInv, TypeOK
  <2>1. onRequest = {} /\ onResponse = {}
    BY DEF CInv, SlotsGo, CloseReturned
  <2>2. ASSUME ran' = ran PROVE ran'[q] \ ran[q] \subseteq Hooks
    BY <2>2
  <2>3. ASSUME NEW r \in Requests, RequestStep(r) PROVE ran' = ran \/ CallHook(r)
    <3>1. CASE BadArguments(r) \/ Submit(r) \/ SubmitStreaming(r) \/ SubmitConnect(r)
      BY <3>1 DEF BadArguments, Submit, SubmitStreaming, SubmitConnect, Accept
    <3>2. CASE Answered(r) \/ Abandon(r) \/ Cancelled(r)
      BY <3>2 DEF Answered, Abandon, Cancelled
    <3>3. CASE FireRequest(r) \/ StartStreaming(r) \/ StartConnect(r) \/ CallHook(r) \/ Build(r)
      BY <3>3 DEF FireRequest, StartStreaming, StartConnect, Build
    <3>6. CASE Prepared(r)
      BY <3>6 DEF Prepared
    <3>4. CASE CheckOnRequest(r) \/ CheckOnResponse(r) \/ FireResponse(r) \/ Finish(r)
      BY <3>4 DEF CheckOnRequest, CheckOnResponse, FireResponse, Finish
    <3>5. CASE RunOnRequest(r) \/ RunOnResponse(r)
      BY <2>1, <3>5 DEF RunOnRequest, RunOnResponse
    <3> QED  BY <2>3, <3>1, <3>2, <3>3, <3>4, <3>5, <3>6 DEF RequestStep, Work
  <2>4. ASSUME NEW r \in Requests, CallHook(r) PROVE ran'[q] \ ran[q] \subseteq Hooks
    <3>1. todo[r] \in Seq(Hooks) /\ todo[r] # <<>>
      BY <2>4 DEF CallHook, TodoIsOne
    <3>2. Head(todo[r]) \in Hooks
      BY <3>1, HeadTailProperties
    <3> QED  BY <2>4, <3>2 DEF CallHook, Record
  <2>5. ASSUME NEW c \in Closers, CloseFlag(c) \/ CloseGoesOn(c) PROVE ran' = ran
    BY <2>5 DEF CloseFlag, CloseGoesOn, ClearRequestHooks, ClearResponseHooks, TakeOnRequest,
       TakeOnResponse, PoolClear, reqVars
  <2>6. ASSUME NEW h, RegisterRequestHook(h) \/ RegisterResponseHook(h) PROVE ran' = ran
    BY <2>6 DEF RegisterRequestHook, RegisterResponseHook, reqVars
  <2>7. CASE DropHandle \/ Collect \/ Free
    BY <2>7 DEF DropHandle, Collect, Free, reqVars
  <2> QED  BY <2>2, <2>3, <2>4, <2>5, <2>6, <2>7 DEF Next, RequestStep
<1> QED  BY <1>1, Always, PTL DEF Spec, NoMiddlewareAfterClose
================================================================================
