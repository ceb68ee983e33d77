------------------------------ MODULE SessionLease ------------------------------
(***************************************************************************)
(* session_pool.rs: leases on the sessions of a pool.                      *)
(*                                                                         *)
(* A SessionGuard object holds a lease in an Option: __exit__, dropping    *)
(* the object and acquire_fresh empty it, which gives the session back.    *)
(* Each call is a future that runs some time after it was made (asyncio)   *)
(* or a method that runs to its end on the caller's thread (blocking).     *)
(* The pool itself is upstream code: it leases a session to one guard at a *)
(* time and replaces one that was marked bad.                              *)
(***************************************************************************)
EXTENDS Naturals, FiniteSets

CONSTANTS
  Sessions,   \* the sessions of the pool
  Guards,     \* guard objects that live at once
  Callers,    \* tasks or threads
  None

ASSUME NoneAssumption == None \notin Sessions \cup Guards
ASSUME SessionsAssumption == IsFiniteSet(Sessions) /\ Sessions \cap {"empty", "unborn"} = {}

VARIABLES
  async,    \* SessionPool, or BlockingSessionPool
  limit,    \* max_sessions
  slot,     \* each guard's Option: a session, "empty", or "unborn"
  bad,      \* sessions marked bad and not yet replaced
  stage,    \* what each caller is at
  on,       \* the guard it was called with
  into,     \* the guard it is to return
  hand,     \* the lease acquire() gave it, before the guard is returned
  left,     \* the session that its acquire_fresh gave back
  seen      \* what `on` held when the call was made

callVars == <<stage, on, into, hand, left, seen>>
setup == <<async, limit>>
vars == <<setup, slot, bad, callVars>>

Init ==
  /\ async \in BOOLEAN
  /\ limit \in 1..Cardinality(Sessions)
  /\ slot = [g \in Guards |-> "unborn"]
  /\ bad = {}
  /\ stage = [c \in Callers |-> "idle"]
  /\ on = [c \in Callers |-> None]
  /\ into = [c \in Callers |-> None]
  /\ hand = [c \in Callers |-> None]
  /\ left = [c \in Callers |-> None]
  /\ seen = [c \in Callers |-> None]

Leased == {slot[g] : g \in Guards} \cup {hand[c] : c \in Callers}

Over(c) ==
  /\ stage' = [stage EXCEPT ![c] = "idle"]
  /\ on' = [on EXCEPT ![c] = None]
  /\ into' = [into EXCEPT ![c] = None]
  /\ hand' = [hand EXCEPT ![c] = None]
  /\ left' = [left EXCEPT ![c] = None]
  /\ seen' = [seen EXCEPT ![c] = None]

--------------------------------------------------------------------------------
(* The calls. *)

NewGuard(g) == slot[g] = "unborn" /\ \A c \in Callers : into[c] # g

Ask(c, what, g) ==
  /\ stage[c] = "idle"
  /\ slot[g] # "unborn"
  /\ stage' = [stage EXCEPT ![c] = what]
  /\ on' = [on EXCEPT ![c] = g]
  /\ seen' = [seen EXCEPT ![c] = slot[g]]
  /\ UNCHANGED <<setup, slot, bad, hand, left>>

Acquire(c) ==
  /\ stage[c] = "idle"
  /\ stage' = [stage EXCEPT ![c] = "wait"]
  /\ \E g \in Guards : NewGuard(g) /\ into' = [into EXCEPT ![c] = g]
  /\ UNCHANGED <<setup, slot, bad, on, hand, left, seen>>

AskFresh(c) ==
  /\ \E g \in Guards : Ask(c, "fresh", g)
  /\ \E g \in Guards : NewGuard(g) /\ into' = [into EXCEPT ![c] = g]

AskMarkBad(c) == (\E g \in Guards : Ask(c, "mark", g)) /\ UNCHANGED into

AskExit(c) == (\E g \in Guards : Ask(c, "exit", g)) /\ UNCHANGED into

\* The blocking acquire_fresh holds its guard by &mut while it waits: pyo3 refuses
\* every other call with that guard.
Borrowed(g) == ~async /\ \E c \in Callers : stage[c] \in {"wait", "got"} /\ on[c] = g

Refused(c) ==
  /\ stage[c] \in {"fresh", "mark", "exit"}
  /\ Borrowed(on[c])
  /\ Over(c)
  /\ UNCHANGED <<setup, slot, bad>>

Release(g) == slot' = [slot EXCEPT ![g] = "empty"]

Marked(g) == bad \cup ({slot[g]} \cap Sessions)

\* Mutant: the old lease goes first, and a released guard marks nothing.
FreshReleaseUnmarked(c) ==
  /\ stage[c] = "fresh"
  /\ ~Borrowed(on[c])
  /\ Release(on[c])
  /\ left' = [left EXCEPT ![c] = IF slot[on[c]] \in Sessions THEN slot[on[c]] ELSE None]
  /\ stage' = [stage EXCEPT ![c] = "wait"]
  /\ UNCHANGED <<setup, bad, on, into, hand, seen>>

\* Mutant: the asyncio twin keeps the old lease until it has the new one.
FreshReleaseLate(c) ==
  /\ stage[c] = "fresh"
  /\ ~Borrowed(on[c])
  /\ bad' = Marked(on[c])
  /\ IF async THEN UNCHANGED slot ELSE Release(on[c])
  /\ stage' = [stage EXCEPT ![c] = "wait"]
  /\ UNCHANGED <<setup, on, into, hand, left, seen>>

\* acquire_fresh, first half: mark the old session, if the guard still holds it,
\* and give it back; both before the pool is asked for another.
FreshRelease(c) ==
  /\ stage[c] = "fresh"
  /\ ~Borrowed(on[c])
  /\ bad' = Marked(on[c])
  /\ Release(on[c])
  /\ left' = [left EXCEPT ![c] = IF slot[on[c]] \in Sessions THEN slot[on[c]] ELSE None]
  /\ stage' = [stage EXCEPT ![c] = "wait"]
  /\ UNCHANGED <<setup, on, into, hand, seen>>

\* Mutant: the session is read when the call is made and marked when it runs.
MarkBadSeen(c) ==
  /\ stage[c] = "mark"
  /\ ~Borrowed(on[c])
  /\ bad' = bad \cup ({seen[c]} \cap Sessions)
  /\ Over(c)
  /\ UNCHANGED <<setup, slot>>

\* mark_bad looks at the Option when it runs.
MarkBad(c) ==
  /\ stage[c] = "mark"
  /\ ~Borrowed(on[c])
  /\ bad' = Marked(on[c])
  /\ Over(c)
  /\ UNCHANGED <<setup, slot>>

\* __aexit__, __exit__
Exit(c) ==
  /\ stage[c] = "exit"
  /\ ~Borrowed(on[c])
  /\ Release(on[c])
  /\ Over(c)
  /\ UNCHANGED <<setup, bad>>

\* The guard object is made around the lease and returned.
Deliver(c) ==
  /\ stage[c] = "got"
  /\ slot' = [slot EXCEPT ![into[c]] = hand[c]]
  /\ Over(c)
  /\ UNCHANGED <<setup, bad>>

--------------------------------------------------------------------------------
(* The pool, pyo3 and the callers' references. *)

\* The upstream pool completes an acquire(), unless it is at its limit.
PoolGives(c) ==
  /\ stage[c] = "wait"
  /\ Cardinality(Leased \cap Sessions) < limit
  /\ \E s \in Sessions \ (Leased \cup bad) : hand' = [hand EXCEPT ![c] = s]
  /\ stage' = [stage EXCEPT ![c] = "got"]
  /\ UNCHANGED <<setup, slot, bad, on, into, left, seen>>

\* The upstream pool puts a new session in the place of a bad one it has back.
PoolReplaces(s) ==
  /\ s \in bad \ Leased
  /\ bad' = bad \ {s}
  /\ left' = [c \in Callers |-> IF left[c] = s THEN None ELSE left[c]]
  /\ UNCHANGED <<setup, slot, stage, on, into, hand, seen>>

\* The future of an asyncio call is dropped: what it held is given back, and what
\* it had not done yet is not done.
Cancel(c) ==
  /\ async
  /\ stage[c] # "idle"
  /\ Over(c)
  /\ UNCHANGED <<setup, slot, bad>>

\* The last reference to a guard goes.
DropGuard(g) ==
  /\ slot[g] # "unborn"
  /\ \A c \in Callers : on[c] # g
  /\ slot' = [slot EXCEPT ![g] = "unborn"]
  /\ UNCHANGED <<setup, bad, callVars>>

Runs(c) ==
  Refused(c) \/ FreshRelease(c) \/ MarkBad(c) \/ Exit(c) \/ Deliver(c)

Next ==
  \/ \E c \in Callers :
       \/ Acquire(c) \/ AskFresh(c) \/ AskMarkBad(c) \/ AskExit(c)
       \/ Runs(c) \/ PoolGives(c) \/ Cancel(c)
  \/ \E s \in Sessions : PoolReplaces(s)
  \/ \E g \in Guards : DropGuard(g)

Spec == Init /\ [][Next]_vars

\* The runtime runs what it was given, the pool serves its callers and replaces
\* bad sessions, and the application does not use a guard forever.
FairSpec ==
  /\ Spec
  /\ \A c \in Callers : WF_vars(Runs(c)) /\ SF_vars(PoolGives(c))
  /\ \A s \in Sessions : WF_vars(PoolReplaces(s))
  /\ \A g \in Guards : SF_vars(DropGuard(g))

--------------------------------------------------------------------------------
(* Properties *)

\* The state keeps its types, and a session is leased in one place: however calls
\* overlap, are cancelled or fail, no lease is in two guards or beyond the limit
\* (PySessionGuard, session_pool.rs:131).
TypeOK ==
  /\ async \in BOOLEAN
  /\ limit \in 1..Cardinality(Sessions)
  /\ Cardinality(Leased \cap Sessions) <= limit
  /\ slot \in [Guards -> Sessions \cup {"empty", "unborn"}]
  /\ bad \subseteq Sessions
  /\ stage \in [Callers -> {"idle", "fresh", "mark", "exit", "wait", "got"}]
  /\ on \in [Callers -> Guards \cup {None}]
  /\ into \in [Callers -> Guards \cup {None}]
  /\ hand \in [Callers -> Sessions \cup {None}]
  /\ \A c \in Callers : hand[c] # None <=> stage[c] = "got"
  /\ \A s \in Sessions :
       Cardinality({g \in Guards : slot[g] = s} \cup {c \in Callers : hand[c] = s}) <= 1

\* acquire_fresh never comes back with the session its caller asked to be rid of:
\* that one was marked before it was given back (session_pool.rs:84-90 and
\* 254-257).
FreshIsFresh ==
  \A c \in Callers : hand[c] # None => hand[c] # left[c]

\* A mark_bad or acquire_fresh that runs late condemns no session that another
\* guard leases by then: a session becomes bad only while the guard the call was
\* made with holds it (session_pool.rs:107-110).
MarksOwnLeaseOnly ==
  [][\A s \in bad' \ bad : \E c \in Callers : on[c] # None /\ slot[on[c]] = s]_vars

\* acquire_fresh comes to an end even if every session is leased: its caller's own
\* lease is back in the pool before it waits (session_pool.rs:88-90).
FreshReturns ==
  \A c \in Callers : (stage[c] = "fresh") ~> (stage[c] = "idle")
================================================================================
