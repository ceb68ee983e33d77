--------------------------- MODULE SessionLeaseProofs ---------------------------
(***************************************************************************)
(* Proofs about SessionLease for any set of sessions, guards and callers.  *)
(***************************************************************************)
EXTENDS SessionLease, FiniteSetTheorems, TLAPS

Types ==
  /\ async \in BOOLEAN
  /\ limit \in 1 .. Cardinality(Sessions)
  /\ slot \in [Guards -> Sessions \cup {"empty", "unborn"}]
  /\ bad \subseteq Sessions
  /\ stage \in [Callers -> {"idle", "fresh", "mark", "exit", "wait", "got"}]
  /\ on \in [Callers -> Guards \cup {None}]
  /\ into \in [Callers -> Guards \cup {None}]
  /\ hand \in [Callers -> Sessions \cup {None}]
  /\ left \in [Callers -> Sessions \cup {None}]

\* A call is made with a guard, and a lease is in a hand only on its way into one.
CalledWithGuard ==
  \A c \in Callers :
    /\ stage[c] \in {"fresh", "mark", "exit"} => on[c] \in Guards
    /\ stage[c] \in {"wait", "got"} => into[c] \in Guards
    /\ stage[c] = "fresh" => into[c] \in Guards
    /\ hand[c] # None <=> stage[c] = "got"

\* What acquire_fresh gave back is marked until the pool has replaced it.
LeftIsMarked ==
  \A c \in Callers :
    /\ stage[c] = "wait" => left[c] \in bad \cup {None}
    /\ left[c] # None => stage[c] \in {"wait", "got"}
    /\ hand[c] # None => hand[c] # left[c]

LInv == Types /\ CalledWithGuard /\ LeftIsMarked

LEMMA Initially == Init => LInv
BY DEF Init, LInv, Types, CalledWithGuard, LeftIsMarked

LEMMA OverKeeps ==
  ASSUME LInv, NEW c \in Callers, Over(c), bad' = bad, UNCHANGED setup,
         slot' \in [Guards -> Sessions \cup {"empty", "unborn"}]
  PROVE  LInv'
BY DEF LInv, Types, CalledWithGuard, LeftIsMarked, Over, setup

LEMMA Step == LInv /\ [Next]_vars => LInv'
<1> SUFFICES ASSUME LInv, [Next]_vars PROVE LInv'
  OBVIOUS
<1> USE NoneAssumption DEF LInv, Types, CalledWithGuard, LeftIsMarked, setup, callVars
<1>1. ASSUME NEW c \in Callers, Acquire(c) PROVE LInv'
  BY <1>1 DEF Acquire
<1>2. ASSUME NEW c \in Callers, AskFresh(c) PROVE LInv'
  BY <1>2 DEF AskFresh, Ask
<1>3. ASSUME NEW c \in Callers, AskMarkBad(c) \/ AskExit(c) PROVE LInv'
  BY <1>3 DEF AskMarkBad, AskExit, Ask
<1>4. ASSUME NEW c \in Callers, Refused(c) \/ Cancel(c) PROVE LInv'
  BY <1>4, OverKeeps DEF Refused, Cancel
<1>5. ASSUME NEW c \in Callers, FreshRelease(c) PROVE LInv'
  <2>1. bad' \subseteq Sessions /\ bad \subseteq bad'
    BY <1>5 DEF FreshRelease, Marked
  <2>2. left'[c] \in bad' \cup {None} /\ \A d \in Callers : d # c => left'[d] = left[d]
    BY <1>5 DEF FreshRelease, Marked
  <2>3. Types'
    BY <1>5, <2>1 DEF FreshRelease, Release
  <2>4. CalledWithGuard'
    BY <1>5 DEF FreshRelease
  <2>5. LeftIsMarked'
    BY <1>5, <2>1, <2>2 DEF FreshRelease
  <2> QED  BY <2>3, <2>4, <2>5
<1>6. ASSUME NEW c \in Callers, MarkBad(c) PROVE LInv'
  <2>1. bad' \subseteq Sessions /\ bad \subseteq bad'
    BY <1>6 DEF MarkBad, Marked
  <2> QED  BY <1>6, <2>1 DEF MarkBad, Over
<1>7. ASSUME NEW c \in Callers, Exit(c) \/ Deliver(c) PROVE LInv'
  <2>1. slot' \in [Guards -> Sessions \cup {"empty", "unborn"}]
    <3>1. CASE Exit(c)
      BY <3>1 DEF Exit, Release
    <3>2. CASE Deliver(c)
      <4>1. slot' = [slot EXCEPT ![into[c]] = hand[c]] /\ hand[c] # None
        BY <3>2 DEF Deliver
      <4> QED  BY <4>1
    <3> QED  BY <1>7, <3>1, <3>2
  <2> QED  BY <1>7, <2>1, OverKeeps DEF Exit, Deliver
<1>8. ASSUME NEW c \in Callers, PoolGives(c) PROVE LInv'
  <2>1. PICK s \in Sessions \ (Leased \cup bad) : hand' = [hand EXCEPT ![c] = s]
    BY <1>8 DEF PoolGives
  <2> QED  BY <1>8, <2>1 DEF PoolGives
<1>9. ASSUME NEW s \in Sessions, PoolReplaces(s) PROVE LInv'
  BY <1>9 DEF PoolReplaces
<1>10. ASSUME NEW g \in Guards, DropGuard(g) PROVE LInv'
  BY <1>10 DEF DropGuard
<1>11. CASE UNCHANGED vars
  BY <1>11 DEF vars
<1> HIDE DEF LInv
<1> QED
  BY <1>1, <1>2, <1>3, <1>4, <1>5, <1>6, <1>7, <1>8, <1>9, <1>10, <1>11 DEF Next, Runs

LEMMA Always == Spec => []LInv
BY Initially, Step, PTL DEF Spec

--------------------------------------------------------------------------------
(* Leases *)

\* A session is leased in one place.
InOneGuard == \A g, h \in Guards : slot[g] = slot[h] /\ slot[g] \in Sessions => g = h
InOneHand  == \A c, d \in Callers : hand[c] = hand[d] /\ hand[c] \in Sessions => c = d
InOneKind  == \A g \in Guards, c \in Callers : slot[g] = hand[c] => slot[g] \notin Sessions

LeasedSessions == Leased \cap Sessions
WithinLimit == Cardinality(LeasedSessions) <= limit

EInv == InOneGuard /\ InOneHand /\ InOneKind /\ WithinLimit

LEMMA LeasedIsFinite == IsFiniteSet(LeasedSessions) /\ Cardinality(LeasedSessions) \in Nat
<1>1. LeasedSessions \subseteq Sessions
  BY DEF LeasedSessions
<1> QED  BY <1>1, SessionsAssumption, FS_Subset, FS_CardinalityType

LEMMA InitLeases == Init => EInv
<1> SUFFICES ASSUME Init PROVE EInv
  OBVIOUS
<1>1. \A g \in Guards : slot[g] \notin Sessions
  BY SessionsAssumption DEF Init
<1>2. \A c \in Callers : hand[c] \notin Sessions
  BY NoneAssumption DEF Init
<1>3. LeasedSessions = {}
  BY <1>1, <1>2 DEF LeasedSessions, Leased
<1>4. Cardinality(LeasedSessions) = 0
  BY <1>3, FS_EmptySet
<1>5. limit \in Nat
  BY SessionsAssumption, FS_CardinalityType DEF Init
<1> QED
  BY <1>1, <1>2, <1>4, <1>5 DEF EInv, InOneGuard, InOneHand, InOneKind, WithinLimit

\* A step that only ends leases.
LEMMA FewerLeases ==
  ASSUME LInv, EInv, limit' = limit,
         \A g \in Guards : slot'[g] \in Sessions => slot'[g] = slot[g],
         \A c \in Callers : hand'[c] \in Sessions => hand'[c] = hand[c]
  PROVE  EInv'
<1>1. LeasedSessions' \subseteq LeasedSessions
  BY DEF LeasedSessions, Leased
<1>2. Cardinality(LeasedSessions') <= Cardinality(LeasedSessions)
  BY <1>1, LeasedIsFinite, FS_Subset
<1>3. IsFiniteSet(LeasedSessions') /\ Cardinality(LeasedSessions') \in Nat
  BY <1>1, LeasedIsFinite, FS_Subset, FS_CardinalityType
<1>4. WithinLimit'
  <2>1. limit \in Nat
    BY SessionsAssumption, FS_CardinalityType DEF LInv, Types
  <2> QED  BY <1>2, <1>3, <2>1, LeasedIsFinite DEF EInv, WithinLimit
<1>5. InOneGuard' /\ InOneHand' /\ InOneKind'
  BY DEF EInv, InOneGuard, InOneHand, InOneKind
<1> QED  BY <1>4, <1>5 DEF EInv

\* The pool leases what nobody has, and the guard gets what was in the hand.
LEMMA LeaseStep == LInv /\ EInv /\ [Next]_vars => EInv'
<1> SUFFICES ASSUME LInv, EInv, [Next]_vars PROVE EInv'
  OBVIOUS
<1> USE NoneAssumption, SessionsAssumption DEF setup, callVars
<1>1. ASSUME NEW c \in Callers, Acquire(c) \/ AskFresh(c) \/ AskMarkBad(c) \/ AskExit(c)
      PROVE  EInv'
  BY <1>1, FewerLeases DEF Acquire, AskFresh, AskMarkBad, AskExit, Ask
<1>2. ASSUME NEW c \in Callers, Refused(c) \/ MarkBad(c) \/ Cancel(c) PROVE EInv'
  BY <1>2, FewerLeases DEF Refused, MarkBad, Cancel, Over, LInv, Types
<1>3. ASSUME NEW c \in Callers, FreshRelease(c) \/ Exit(c) PROVE EInv'
  BY <1>3, FewerLeases DEF FreshRelease, Exit, Release, Over, LInv, Types
<1>4. ASSUME NEW c \in Callers, Deliver(c) PROVE EInv'
  <2>1. /\ into[c] \in Guards /\ hand[c] \in Sessions
        /\ slot'[into[c]] = hand[c] /\ \A g \in Guards : g # into[c] => slot'[g] = slot[g]
        /\ hand'[c] = None /\ \A d \in Callers : d # c => hand'[d] = hand[d]
        /\ limit' = limit
    BY <1>4 DEF Deliver, Over, LInv, Types, CalledWithGuard
  <2>2. InOneGuard'
    BY <2>1 DEF EInv, InOneGuard, InOneKind
  <2>3. InOneHand'
    BY <2>1 DEF EInv, InOneHand
  <2>4. InOneKind'
    BY <2>1 DEF EInv, InOneHand, InOneKind
  <2>5. LeasedSessions' \subseteq LeasedSessions
    BY <2>1 DEF LeasedSessions, Leased
  <2>6. WithinLimit'
    <3>1. /\ Cardinality(LeasedSessions') <= Cardinality(LeasedSessions)
          /\ IsFiniteSet(LeasedSessions') /\ Cardinality(LeasedSessions') \in Nat
      BY <2>5, LeasedIsFinite, FS_Subset, FS_CardinalityType
    <3>2. limit \in Nat
      BY FS_CardinalityType DEF LInv, Types
    <3> QED  BY <2>1, <3>1, <3>2, LeasedIsFinite DEF EInv, WithinLimit
  <2> QED  BY <2>2, <2>3, <2>4, <2>6 DEF EInv
<1>5. ASSUME NEW c \in Callers, PoolGives(c) PROVE EInv'
  <2>1. PICK s \in Sessions \ (Leased \cup bad) : hand' = [hand EXCEPT ![c] = s]
    BY <1>5 DEF PoolGives
  <2>2. /\ slot' = slot /\ limit' = limit
        /\ hand'[c] = s /\ \A d \in Callers : d # c => hand'[d] = hand[d]
        /\ \A g \in Guards : slot[g] # s
        /\ \A d \in Callers : hand[d] # s
    BY <1>5, <2>1 DEF PoolGives, LInv, Types, Leased
  <2>3. InOneGuard' /\ InOneHand' /\ InOneKind'
    BY <2>2 DEF EInv, InOneGuard, InOneHand, InOneKind
  <2>4. LeasedSessions' \subseteq LeasedSessions \cup {s}
    BY <2>2 DEF LeasedSessions, Leased
  <2>5. /\ IsFiniteSet(LeasedSessions \cup {s})
        /\ Cardinality(LeasedSessions \cup {s}) <= Cardinality(LeasedSessions) + 1
        /\ Cardinality(LeasedSessions \cup {s}) \in Nat
    <3>1. IsFiniteSet(LeasedSessions \cup {s})
      BY LeasedIsFinite, FS_AddElement
    <3>2. Cardinality(LeasedSessions \cup {s}) \in Nat
      BY <3>1, FS_CardinalityType
    <3>3. Cardinality(LeasedSessions \cup {s})
            = IF s \in LeasedSessions THEN Cardinality(LeasedSessions) ELSE Cardinality(LeasedSessions) + 1
      BY LeasedIsFinite, FS_AddElement
    <3> QED  BY <3>1, <3>2, <3>3, LeasedIsFinite
  <2>6. /\ Cardinality(LeasedSessions') <= Cardinality(LeasedSessions \cup {s})
        /\ Cardinality(LeasedSessions') \in Nat
    BY <2>4, <2>5, FS_Subset, FS_CardinalityType
  <2>7. Cardinality(LeasedSessions) < limit /\ limit \in Nat
    BY <1>5, FS_CardinalityType DEF PoolGives, LeasedSessions, LInv, Types
  <2>8. WithinLimit'
    BY <2>2, <2>5, <2>6, <2>7, LeasedIsFinite DEF WithinLimit
  <2> QED  BY <2>3, <2>8 DEF EInv
<1>6. ASSUME NEW s \in Sessions, PoolReplaces(s) PROVE EInv'
  BY <1>6, FewerLeases DEF PoolReplaces
<1>7. ASSUME NEW g \in Guards, DropGuard(g) PROVE EInv'
  BY <1>7, FewerLeases DEF DropGuard, LInv, Types
<1>8. CASE UNCHANGED vars
  BY <1>8, FewerLeases DEF vars
<1> QED  BY <1>1, <1>2, <1>3, <1>4, <1>5, <1>6, <1>7, <1>8 DEF Next, Runs

LEMMA AlwaysLeased == Spec => []EInv
BY InitLeases, LeaseStep, Always, PTL DEF Spec

--------------------------------------------------------------------------------
(* The theorems. *)

\* Types; and that no session is leased twice, nor more of them than the pool may
\* lease, however calls overlap, are cancelled or fail.
THEOREM TypeCorrect == Spec => []TypeOK
<1>1. LInv /\ EInv => TypeOK
  <2> SUFFICES ASSUME LInv, EInv PROVE TypeOK
    OBVIOUS
  <2>1. ASSUME NEW s \in Sessions
        PROVE  Cardinality({g \in Guards : slot[g] = s} \cup {c \in Callers : hand[c] = s}) <= 1
    <3> DEFINE places == {g \in Guards : slot[g] = s} \cup {c \in Callers : hand[c] = s}
    <3>1. \A x, y \in places : x = y
      BY DEF EInv, InOneGuard, InOneHand, InOneKind
    <3>2. CASE places = {}
      BY <3>2, FS_EmptySet
    <3>3. ASSUME NEW x \in places PROVE Cardinality(places) <= 1
      <4>1. places = {x}
        BY <3>1, <3>3
      <4>2. Cardinality({x}) = 1
        BY FS_Singleton
      <4> HIDE DEF places
      <4> QED  BY <4>1, <4>2
    <3> QED  BY <3>2, <3>3
  <2>2. \A c \in Callers : hand[c] # None <=> stage[c] = "got"
    BY DEF LInv, CalledWithGuard
  <2>3. Cardinality(Leased \cap Sessions) <= limit
    BY DEF EInv, WithinLimit, LeasedSessions
  <2> QED  BY <2>1, <2>2, <2>3 DEF LInv, Types, TypeOK
<1> QED  BY <1>1, Always, AlwaysLeased, PTL

\* acquire_fresh never comes back with the session it was called to be rid of.
THEOREM FreshIsAnother == Spec => []FreshIsFresh
<1>1. LInv => FreshIsFresh
  BY DEF LInv, LeftIsMarked, FreshIsFresh
<1> QED  BY <1>1, Always, PTL

\* mark_bad and acquire_fresh condemn only what their guard leases when they run.
THEOREM OwnLeaseMarked == Spec => MarksOwnLeaseOnly
<1> DEFINE Own == \A s \in bad' \ bad : \E c \in Callers : on[c] # None /\ slot[on[c]] = s
<1>1. LInv /\ [Next]_vars => [Own]_vars
  <2> SUFFICES ASSUME LInv, Next, NEW s \in bad' \ bad
               PROVE  \E c \in Callers : on[c] # None /\ slot[on[c]] = s
    BY DEF vars
  <2>1. ASSUME NEW c \in Callers, FreshRelease(c) \/ MarkBad(c)
        PROVE  on[c] # None /\ slot[on[c]] = s
    <3>1. on[c] \in Guards
      BY <2>1 DEF FreshRelease, MarkBad, LInv, CalledWithGuard
    <3>2. s = slot[on[c]]
      BY <2>1 DEF FreshRelease, MarkBad, Marked
    <3> QED  BY <3>1, <3>2, NoneAssumption
  <2>2. ASSUME NEW c \in Callers,
               \/ Acquire(c) \/ AskFresh(c) \/ AskMarkBad(c) \/ AskExit(c)
               \/ Refused(c) \/ Exit(c) \/ Deliver(c) \/ PoolGives(c) \/ Cancel(c)
        PROVE  FALSE
    BY <2>2 DEF Acquire, AskFresh, AskMarkBad, AskExit, Ask, Refused, Exit, Deliver,
       PoolGives, Cancel
  <2>3. ASSUME NEW t \in Sessions, PoolReplaces(t) PROVE FALSE
    BY <2>3 DEF PoolReplaces
  <2>4. ASSUME NEW g \in Guards, DropGuard(g) PROVE FALSE
    BY <2>4 DEF DropGuard
  <2> QED  BY <2>1, <2>2, <2>3, <2>4 DEF Next, Runs
<1> QED  BY <1>1, Always, PTL DEF Spec, MarksOwnLeaseOnly
================================================================================
