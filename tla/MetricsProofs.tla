------------------------------ MODULE MetricsProofs ------------------------------
(***************************************************************************)
(* Proofs about Metrics for any number of requests, hosts, buckets and     *)
(* resets: what the counters of a host come to, at every instant.          *)
(***************************************************************************)
EXTENDS Metrics, FiniteSetTheorems, WellFoundedInduction, TLAPS

\* A recording is at a stage from which the host's counters ...
AfterHost      == {"host error", "buckets", "load", "swap", "done"}  \* ... count it
AfterHostError == {"buckets", "load", "swap", "done"}  \* ... count its error, if it is one
Holding        == {"host"} \cup AfterHost
AfterGlobal    == {"global error", "lookup"} \cup Holding
AfterGlobalError == {"lookup"} \cup Holding

\* The requests that have got into the counters of one HostMetrics.
Counted(a)     == {r \in Requests : mine[r] = a /\ pc[r] \in AfterHost}
CountedErrors(a) == {r \in Requests : mine[r] = a /\ IsError(r) /\ pc[r] \in AfterHostError}
InBucket(a, b) == {r \in Counted(a) : Elapsed[r] <= b /\ b \notin rest[r]}
Summed(a)      == {r \in Requests : mine[r] = a /\ pc[r] = "done"}

\* And into the global counters, if there was no reset.
Begun       == {r \in Requests : Fails[r] # "transport" /\ pc[r] \in AfterGlobal}
BegunErrors == {r \in Requests : IsError(r) /\ pc[r] \in AfterGlobalError}

TotalElapsed(R) == MapThenSumSet(LAMBDA r : Elapsed[r], R)

\* A request has an Arc from the lookup on, of its own host; transport failures
\* have none.
HoldsItsHost ==
  \A r \in Requests :
    /\ mine[r] # None <=> pc[r] \in Holding /\ Fails[r] # "transport"
    /\ mine[r] # None => Host[mine[r]] = Host[r]
    /\ Fails[r] = "transport" => pc[r] \in {"sent", "done"}
EntryIsOfHost == \A h \in Hosts : entry[h] # None => Host[entry[h]] = h

ErrorStages == \A r \in Requests : pc[r] \in {"global error", "host error"} => IsError(r)

\* What a recording still has to count: all its buckets, some, or none.
RestIsOpen ==
  \A r \in Requests :
    /\ pc[r] \notin {"host error", "buckets"} => rest[r] = {}
    /\ \A b \in rest[r] : Elapsed[r] <= b

\* The counters of each HostMetrics, in the middle of recordings too.
RequestsAddUp == \A a \in Requests : metrics[a].requests = Cardinality(Counted(a))
ErrorsAddUp   == \A a \in Requests : metrics[a].errors = Cardinality(CountedErrors(a))
BucketsAddUp  ==
  \A a \in Requests, b \in Buckets : metrics[a].counts[b] = Cardinality(InBucket(a, b))
SumAddsUp     == \A a \in Requests : metrics[a].sum = TotalElapsed(Summed(a))

\* Without a reset, the global counters and the map know of everybody.
NothingForgotten ==
  NeverReset =>
    /\ total.requests = Cardinality(Begun)
    /\ total.errors = Cardinality(BegunErrors)
    /\ \A r \in Requests : mine[r] # None => entry[Host[r]] = mine[r]

MInv == /\ TypeOK /\ HoldsItsHost /\ EntryIsOfHost /\ ErrorStages /\ RestIsOpen
        /\ RequestsAddUp /\ ErrorsAddUp /\ BucketsAddUp /\ SumAddsUp /\ NothingForgotten

--------------------------------------------------------------------------------
(* Numbers, finite sets and sums over them *)

LEMMA LeastNumber ==
  ASSUME NEW T \in SUBSET Nat, T # {}
  PROVE  \E m \in T : \A n \in T : m <= n
<1>1. PICK m \in T : \A n \in T : ~(<<n, m>> \in OpToRel(<, Nat))
  BY NatLessThanWellFounded, WFMin
<1>2. \A n \in T : ~ (n < m)
  BY <1>1 DEF OpToRel
<1> QED  BY <1>2

LEMMA MinIsMember ==
  ASSUME NEW T \in SUBSET Nat, T # {}
  PROVE  Min(T) \in T
BY LeastNumber DEF Min

LEMMA OneMore ==
  ASSUME NEW S \in SUBSET Requests, NEW r \in Requests, r \notin S
  PROVE  Cardinality(S \cup {r}) = Cardinality(S) + 1
BY RequestsAssumption, FS_Subset, FS_AddElement

LEMMA SubsetsAreFinite ==
  ASSUME NEW S \in SUBSET Requests
  PROVE  IsFiniteSet(S) /\ Cardinality(S) \in Nat
BY RequestsAssumption, FS_Subset, FS_CardinalityType

\* A sum of durations is the number of the ticks that they lasted.
Ticks(R) == UNION {{r} \X (1 .. Elapsed[r]) : r \in R}

LEMMA TicksOfOne ==
  ASSUME NEW r \in Requests
  PROVE  IsFiniteSet({r} \X (1 .. Elapsed[r])) /\ Cardinality({r} \X (1 .. Elapsed[r])) = Elapsed[r]
<1>1. Elapsed[r] \in Nat
  BY ElapsedAssumption
<1>2. IsFiniteSet(1 .. Elapsed[r]) /\ Cardinality(1 .. Elapsed[r]) = Elapsed[r]
  BY <1>1, FS_Interval
<1>3. IsFiniteSet({r}) /\ Cardinality({r}) = 1
  BY FS_Singleton
<1>4. /\ IsFiniteSet({r} \X (1 .. Elapsed[r]))
      /\ Cardinality({r} \X (1 .. Elapsed[r])) = Cardinality({r}) * Cardinality(1 .. Elapsed[r])
  BY <1>2, <1>3, FS_Product
<1>5. 1 * Elapsed[r] = Elapsed[r]
  BY <1>1
<1> QED  BY <1>2, <1>3, <1>4, <1>5

LEMMA TicksFinite ==
  ASSUME NEW S \in SUBSET Requests
  PROVE  IsFiniteSet(Ticks(S)) /\ Cardinality(Ticks(S)) \in Nat
<1>1. IsFiniteSet({{r} \X (1 .. Elapsed[r]) : r \in S})
  <2> DEFINE f == [r \in S |-> {r} \X (1 .. Elapsed[r])]
  <2>1. {{r} \X (1 .. Elapsed[r]) : r \in S} = {f[r] : r \in S}
    OBVIOUS
  <2>2. f \in Surjection(S, {f[r] : r \in S})
    BY DEF Surjection
  <2> QED  BY <2>1, <2>2, SubsetsAreFinite, FS_Surjection
<1>2. IsFiniteSet(Ticks(S))
  BY <1>1, TicksOfOne, FS_UNION DEF Ticks
<1> QED  BY <1>2, FS_CardinalityType

LEMMA TicksOfOneMore ==
  ASSUME NEW S \in SUBSET Requests, NEW r \in Requests, r \notin S
  PROVE  Cardinality(Ticks(S \cup {r})) = Cardinality(Ticks(S)) + Elapsed[r]
<1>1. Ticks(S \cup {r}) = Ticks(S) \cup ({r} \X (1 .. Elapsed[r]))
  BY DEF Ticks
<1>2. Ticks(S) \cap ({r} \X (1 .. Elapsed[r])) = {}
  BY DEF Ticks
<1>3. Elapsed[r] \in Nat
  BY ElapsedAssumption
<1> DEFINE A == Ticks(S)
           B == {r} \X (1 .. Elapsed[r])
<1>4. /\ IsFiniteSet(A) /\ Cardinality(A) \in Nat
      /\ IsFiniteSet(B) /\ Cardinality(B) = Elapsed[r]
  BY TicksFinite, TicksOfOne
<1> HIDE DEF A, B
<1>5. Cardinality(A \cup B) = Cardinality(A) + Cardinality(B) - Cardinality(A \cap B)
  BY <1>4, FS_Union
<1>6. Cardinality(A \cap B) = 0
  BY <1>2, FS_EmptySet DEF A, B
<1>7. Cardinality(A \cup B) = Cardinality(A) + Elapsed[r]
  BY <1>3, <1>4, <1>5, <1>6
<1> QED  BY <1>1, <1>7 DEF A, B

\* The equation of the fold: it is solved by the number of ticks, and has, on
\* finite sets, no other solution.
Folds(iter, S) ==
  iter = [s \in SUBSET S |-> IF s = {} THEN 0
                             ELSE Elapsed[CHOOSE x \in s : TRUE] + iter[s \ {CHOOSE x \in s : TRUE}]]

LEMMA TicksFold ==
  ASSUME NEW S \in SUBSET Requests
  PROVE  Folds([s \in SUBSET S |-> Cardinality(Ticks(s))], S)
<1>1. Cardinality(Ticks({})) = 0
  BY FS_EmptySet DEF Ticks
<1>2. ASSUME NEW s \in SUBSET S, s # {}
      PROVE  LET x == CHOOSE x \in s : TRUE
             IN  Cardinality(Ticks(s)) = Elapsed[x] + Cardinality(Ticks(s \ {x}))
  <2> DEFINE x == CHOOSE x \in s : TRUE
  <2>1. x \in s
    BY <1>2
  <2> HIDE DEF x
  <2>2. s = (s \ {x}) \cup {x} /\ x \notin s \ {x} /\ s \ {x} \in SUBSET Requests /\ x \in Requests
    BY <2>1
  <2>3. Cardinality(Ticks(s)) = Cardinality(Ticks(s \ {x})) + Elapsed[x]
    BY <2>2, TicksOfOneMore
  <2>4. Elapsed[x] \in Nat /\ Cardinality(Ticks(s \ {x})) \in Nat
    BY <2>2, TicksFinite, ElapsedAssumption
  <2> QED  BY <2>3, <2>4 DEF x
<1> QED  BY <1>1, <1>2 DEF Folds

LEMMA FoldsAlike ==
  ASSUME NEW S \in SUBSET Requests, NEW f, NEW g, Folds(f, S), Folds(g, S)
  PROVE  f = g
<1> DEFINE Apart == {s \in SUBSET S : f[s] # g[s]}
           sizes == {Cardinality(s) : s \in Apart}
<1>1. SUFFICES Apart = {}
  <2>1. \A s \in SUBSET S : f[s] = g[s]
    BY <1>1
  <2>2. f = [s \in SUBSET S |-> f[s]] /\ g = [s \in SUBSET S |-> g[s]]
    BY DEF Folds
  <2> HIDE DEF Apart
  <2>3. [s \in SUBSET S |-> f[s]] = [s \in SUBSET S |-> g[s]]
    BY <2>1
  <2> QED  BY <2>2, <2>3
<1>2. SUFFICES ASSUME Apart # {} PROVE FALSE
  OBVIOUS
<1>3. sizes \in SUBSET Nat /\ sizes # {}
  BY <1>2, SubsetsAreFinite
<1>4. PICK s \in Apart : \A t \in Apart : Cardinality(s) <= Cardinality(t)
  <2>1. PICK n \in sizes : \A k \in sizes : n <= k
    <3> HIDE DEF sizes
    <3> QED  BY <1>3, LeastNumber
  <2> QED  BY <2>1
<1> DEFINE x == CHOOSE x \in s : TRUE
<1>5. s # {}
  BY <1>4 DEF Folds
<1>6. x \in s /\ s \ {x} \in SUBSET S
  BY <1>5
<1>7. /\ f[s] = Elapsed[x] + f[s \ {x}]
      /\ g[s] = Elapsed[x] + g[s \ {x}]
  BY <1>5 DEF Folds
<1> HIDE DEF x
<1>8. s \ {x} \in Apart
  BY <1>4, <1>6, <1>7
<1>9. Cardinality(s \ {x}) = Cardinality(s) - 1 /\ Cardinality(s) \in Nat
  BY <1>6, SubsetsAreFinite, FS_RemoveElement
<1> QED  BY <1>4, <1>8, <1>9

LEMMA SumIsTicks ==
  ASSUME NEW S \in SUBSET Requests
  PROVE  TotalElapsed(S) = Cardinality(Ticks(S))
<1> DEFINE ticks == [s \in SUBSET S |-> Cardinality(Ticks(s))]
           iter  == CHOOSE iter : Folds(iter, S)
<1>1. TotalElapsed(S) = iter[S]
  BY Zenon DEF TotalElapsed, MapThenSumSet, MapThenFoldSet, Folds
<1>2. Folds(ticks, S)
  BY TicksFold
<1>3. Folds(iter, S)
  BY <1>2
<1>4. iter = ticks
  <2> HIDE DEF ticks, iter
  <2> QED  BY <1>2, <1>3, FoldsAlike
<1> QED  BY <1>1, <1>4

LEMMA SumOfNone == TotalElapsed({}) = 0
BY SumIsTicks, FS_EmptySet DEF Ticks

LEMMA SumOfOneMore ==
  ASSUME NEW S \in SUBSET Requests, NEW r \in Requests, r \notin S
  PROVE  TotalElapsed(S \cup {r}) = TotalElapsed(S) + Elapsed[r]
<1>1. S \cup {r} \in SUBSET Requests
  OBVIOUS
<1> QED  BY <1>1, SumIsTicks, TicksOfOneMore

LEMMA SumType == ASSUME NEW S \in SUBSET Requests PROVE TotalElapsed(S) \in Nat
BY SumIsTicks, TicksFinite

--------------------------------------------------------------------------------
LEMMA Initially == Init => MInv
<1> SUFFICES ASSUME Init PROVE MInv
  OBVIOUS
<1> USE DEF Init, Zero
<1>1. TypeOK
  <2>1. Zero \in [requests : Nat, errors : Nat, counts : [Buckets -> Nat], sum : Nat]
    OBVIOUS
  <2>2. total \in [requests : Nat, errors : Nat] /\ seen \in [Requests -> Nat]
    OBVIOUS
  <2>3. /\ entry \in [Hosts -> Arcs] /\ mine \in [Requests -> Arcs]
        /\ rest \in [Requests -> SUBSET Buckets]
        /\ resetting \in [Resets -> {"idle", "errors", "map", "returned"}]
    BY DEF Arcs
  <2>4. metrics \in [Requests -> [requests : Nat, errors : Nat, counts : [Buckets -> Nat], sum : Nat]]
    <3> HIDE DEF Zero
    <3> QED  BY <2>1
  <2>5. \A r \in Requests : pc[r] = "sent"
    OBVIOUS
  <2>6. pc \in [Requests -> {"sent", "global", "global error", "lookup", "host",
                            "host error", "buckets", "load", "swap", "done"}]
    OBVIOUS
  <2> HIDE DEF Zero, Init
  <2> QED  BY <2>1, <2>2, <2>3, <2>4, <2>5, <2>6 DEF TypeOK
<1>2. HoldsItsHost /\ EntryIsOfHost /\ ErrorStages /\ RestIsOpen
  BY DEF HoldsItsHost, EntryIsOfHost, ErrorStages, RestIsOpen, Holding, AfterHost
<1>3. \A a \in Requests : /\ Counted(a) = {} /\ CountedErrors(a) = {} /\ Summed(a) = {}
                         /\ \A b \in Buckets : InBucket(a, b) = {}
  BY DEF Counted, CountedErrors, InBucket, Summed, AfterHost, AfterHostError
<1>4. Begun = {} /\ BegunErrors = {}
  BY DEF Begun, BegunErrors, AfterGlobal, AfterGlobalError, Holding, AfterHost
<1>5. RequestsAddUp /\ ErrorsAddUp /\ BucketsAddUp /\ SumAddsUp
  BY <1>3, FS_EmptySet, SumOfNone DEF RequestsAddUp, ErrorsAddUp, BucketsAddUp, SumAddsUp
<1>6. NothingForgotten
  BY <1>4, FS_EmptySet DEF NothingForgotten
<1> QED  BY <1>1, <1>2, <1>5, <1>6 DEF MInv

\* A step that counts nothing leaves the account of the HostMetrics as it is.
LEMMA HostsUntouched ==
  ASSUME MInv, metrics' = metrics,
         \A a \in Requests : Counted(a)' = Counted(a) /\ CountedErrors(a)' = CountedErrors(a)
                             /\ Summed(a)' = Summed(a),
         \A a \in Requests, b \in Buckets : InBucket(a, b)' = InBucket(a, b)
  PROVE  RequestsAddUp' /\ ErrorsAddUp' /\ BucketsAddUp' /\ SumAddsUp'
BY DEF MInv, RequestsAddUp, ErrorsAddUp, BucketsAddUp, SumAddsUp

\* A step in which no recording moves.
LEMMA NobodyMoves ==
  ASSUME MInv, UNCHANGED <<metrics, pc, locals>>
  PROVE  /\ HoldsItsHost' /\ ErrorStages' /\ RestIsOpen'
         /\ RequestsAddUp' /\ ErrorsAddUp' /\ BucketsAddUp' /\ SumAddsUp'
         /\ Begun' = Begun /\ BegunErrors' = BegunErrors
<1> USE DEF locals
<1>1. \A a \in Requests : Counted(a)' = Counted(a) /\ CountedErrors(a)' = CountedErrors(a)
                          /\ Summed(a)' = Summed(a)
  BY DEF Counted, CountedErrors, Summed
<1>2. \A a \in Requests, b \in Buckets : InBucket(a, b)' = InBucket(a, b)
  BY DEF InBucket, Counted
<1> QED
  BY <1>1, <1>2, HostsUntouched DEF MInv, HoldsItsHost, ErrorStages, RestIsOpen, Begun, BegunErrors

--------------------------------------------------------------------------------
(* One step, by the part of MInv that it can disturb. *)

Stages == {"sent", "global", "global error", "lookup", "host",
           "host error", "buckets", "load", "swap", "done"}
Numbers == [requests : Nat, errors : Nat, counts : [Buckets -> Nat], sum : Nat]

\* A recording goes on to its next stage, with an Arc where it needs one.
LEMMA StageTyped ==
  ASSUME TypeOK, NEW r \in Requests, NEW to \in Stages,
         pc' = [pc EXCEPT ![r] = to], mine' \in [Requests -> Arcs],
         \A q \in Requests : q # r => mine'[q] = mine[q],
         to \in {"host", "host error", "buckets", "load", "swap"} => mine'[r] # None
  PROVE  /\ pc' \in [Requests -> Stages]
         /\ \A q \in Requests :
              pc'[q] \in {"host", "host error", "buckets", "load", "swap"} => mine'[q] # None
<1>1. pc \in [Requests -> Stages]
  BY DEF TypeOK, Stages
<1>2. pc' \in [Requests -> Stages] /\ \A q \in Requests : pc'[q] = IF q = r THEN to ELSE pc[q]
  BY <1>1
<1> QED  BY <1>2 DEF TypeOK

\* Whoever updates the metrics of a host holds them.
LEMMA UpdatesItsArc ==
  ASSUME TypeOK, NEW r \in Requests,
         pc[r] \in {"host", "host error", "buckets", "load", "swap"}
  PROVE  /\ mine[r] \in Requests
         /\ metrics[mine[r]] \in Numbers
         /\ \A m \in Numbers : [metrics EXCEPT ![mine[r]] = m] \in [Requests -> Numbers]
<1>1. metrics \in [Requests -> Numbers]
  BY DEF TypeOK, Numbers
<1>2. mine[r] \in Requests
  BY DEF TypeOK, Arcs
<1> QED  BY <1>1, <1>2

LEMMA TypesKept == MInv /\ Next => TypeOK'
<1> SUFFICES ASSUME MInv, Next PROVE TypeOK'
  OBVIOUS
<1> USE ElapsedAssumption DEF MInv
<1>0. /\ pc \in [Requests -> Stages] /\ metrics \in [Requests -> Numbers]
      /\ mine \in [Requests -> Arcs] /\ rest \in [Requests -> SUBSET Buckets]
      /\ seen \in [Requests -> Nat] /\ total \in [requests : Nat, errors : Nat]
  BY DEF TypeOK, Stages, Numbers
<1>1. ASSUME NEW r \in Requests, End(r) \/ CountGlobal(r) \/ CountGlobalError(r) PROVE TypeOK'
  <2>1. \E to \in {"done", "global", "global error", "lookup"} : pc' = [pc EXCEPT ![r] = to]
    BY <1>1 DEF End, CountGlobal, CountGlobalError, Step
  <2>2. UNCHANGED <<entry, metrics, mine, rest, seen, resetting>>
    BY <1>1 DEF End, CountGlobal, CountGlobalError, locals
  <2>3. total' \in [requests : Nat, errors : Nat]
    <3>0. /\ [total EXCEPT !.requests = @ + 1] \in [requests : Nat, errors : Nat]
          /\ [total EXCEPT !.errors = @ + 1] \in [requests : Nat, errors : Nat]
      BY <1>0
    <3>1. CASE End(r)
      BY <1>0, <3>1 DEF End
    <3>2. CASE CountGlobal(r)
      BY <3>0, <3>2 DEF CountGlobal
    <3>3. CASE CountGlobalError(r)
      BY <3>0, <3>3 DEF CountGlobalError
    <3> QED  BY <1>1, <3>1, <3>2, <3>3
  <2> QED  BY <1>0, <2>1, <2>2, <2>3, StageTyped DEF TypeOK, Stages
<1>2. ASSUME NEW r \in Requests, GetHostMetrics(r) PROVE TypeOK'
  <2>1. Host[r] \in Hosts /\ r # None
    BY RequestsAssumption DEF Hosts, None
  <2>2. entry' \in [Hosts -> Arcs] /\ mine' \in [Requests -> Arcs] /\ mine'[r] # None
    BY <1>2, <2>1 DEF GetHostMetrics, Arcs, TypeOK
  <2>3. \A q \in Requests : q # r => mine'[q] = mine[q]
    BY <1>2 DEF GetHostMetrics, TypeOK
  <2>4. pc' = [pc EXCEPT ![r] = "host"] /\ UNCHANGED <<total, metrics, rest, seen, resetting>>
    BY <1>2 DEF GetHostMetrics, Step
  <2> QED  BY <2>2, <2>3, <2>4, StageTyped DEF TypeOK, Stages
<1>3. ASSUME NEW r \in Requests, CountHost(r) \/ CountHostError(r) PROVE TypeOK'
  <2>1. /\ mine[r] \in Requests /\ metrics[mine[r]] \in Numbers
        /\ \A m \in Numbers : [metrics EXCEPT ![mine[r]] = m] \in [Requests -> Numbers]
    BY <1>3, UpdatesItsArc DEF CountHost, CountHostError, Step
  <2>2. metrics' \in [Requests -> Numbers]
    <3> DEFINE m == metrics[mine[r]]
    <3>1. [m EXCEPT !.requests = @ + 1] \in Numbers /\ [m EXCEPT !.errors = @ + 1] \in Numbers
      BY <2>1 DEF Numbers
    <3>2. \/ metrics' = [metrics EXCEPT ![mine[r]] = [m EXCEPT !.requests = @ + 1]]
          \/ metrics' = [metrics EXCEPT ![mine[r]] = [m EXCEPT !.errors = @ + 1]]
      BY <1>3 DEF CountHost, CountHostError
    <3> HIDE DEF m
    <3> QED  BY <2>1, <3>1, <3>2
  <2>3. rest' \in [Requests -> SUBSET Buckets]
    <3>1. CASE CountHost(r)
      <4>1. {b \in Buckets : Elapsed[r] <= b} \in SUBSET Buckets
        OBVIOUS
      <4> QED  BY <1>0, <3>1, <4>1 DEF CountHost
    <3> QED  BY <1>0, <1>3, <3>1 DEF CountHostError, locals
  <2>4. /\ \E to \in {"host error", "buckets"} : pc' = [pc EXCEPT ![r] = to]
        /\ UNCHANGED <<total, entry, mine, seen, resetting>>
    BY <1>3 DEF CountHost, CountHostError, Step, locals
  <2>5. mine[r] # None
    BY <2>1, RequestsAssumption DEF None
  <2> QED  BY <1>0, <2>2, <2>3, <2>4, <2>5, StageTyped DEF TypeOK, Stages, Numbers
<1>4. ASSUME NEW r \in Requests, CountBucket(r) PROVE TypeOK'
  <2>1. Min(rest[r]) \in Buckets
    BY <1>4, MinIsMember DEF CountBucket, TypeOK
  <2>2. mine[r] \in Requests
    BY <1>4, UpdatesItsArc DEF CountBucket
  <2>3. metrics' \in [Requests -> Numbers]
    <3> DEFINE m == metrics[mine[r]]
               b == Min(rest[r])
    <3>1. metrics' = [metrics EXCEPT ![mine[r]] = [m EXCEPT !.counts[b] = @ + 1]]
      BY <1>4 DEF CountBucket
    <3>2. [m EXCEPT !.counts[b] = @ + 1] \in Numbers
      <4>1. m \in Numbers /\ b \in Buckets
        BY <1>0, <2>1, <2>2
      <4> HIDE DEF m, b
      <4> QED  BY <4>1 DEF Numbers
    <3> HIDE DEF m, b
    <3> QED  BY <1>0, <2>2, <3>1, <3>2
  <2>4. rest' \in [Requests -> SUBSET Buckets]
    BY <1>4 DEF CountBucket, TypeOK
  <2> QED  BY <1>4, <2>3, <2>4 DEF CountBucket, TypeOK, Numbers
<1>5. ASSUME NEW r \in Requests, LoadSum(r) PROVE TypeOK'
  <2>1. mine[r] \in Requests /\ mine[r] # None /\ metrics[mine[r]] \in Numbers
    BY <1>5, UpdatesItsArc, RequestsAssumption DEF LoadSum, Step, None
  <2>2. seen' \in [Requests -> Nat]
    BY <1>5, <2>1 DEF LoadSum, Numbers, TypeOK
  <2>3. pc' = [pc EXCEPT ![r] = "swap"] /\ UNCHANGED <<total, entry, metrics, mine, rest, resetting>>
    BY <1>5 DEF LoadSum, Step
  <2> QED  BY <1>0, <2>1, <2>2, <2>3, StageTyped DEF TypeOK, Stages
<1>6. ASSUME NEW r \in Requests, SwapSum(r) PROVE TypeOK'
  <2>1. mine[r] \in Requests /\ mine[r] # None /\ Elapsed[r] \in Nat
    BY <1>6, UpdatesItsArc, RequestsAssumption DEF SwapSum, Step, None
  <2>2. metrics' \in [Requests -> Numbers]
    <3>1. seen[r] + Elapsed[r] \in Nat
      BY <1>0, <2>1
    <3>2. [metrics[mine[r]] EXCEPT !.sum = seen[r] + Elapsed[r]] \in Numbers
      BY <1>0, <2>1, <3>1 DEF Numbers
    <3>3. \/ metrics' = metrics
          \/ metrics' = [metrics EXCEPT ![mine[r]] =
                          [metrics[mine[r]] EXCEPT !.sum = seen[r] + Elapsed[r]]]
      BY <1>6 DEF SwapSum
    <3> QED  BY <1>0, <2>1, <3>2, <3>3
  <2>3. /\ \E to \in {"done", "load"} : pc' = [pc EXCEPT ![r] = to]
        /\ UNCHANGED <<total, entry, mine, rest, seen, resetting>>
    BY <1>6 DEF SwapSum, Step, locals
  <2> QED  BY <1>0, <2>1, <2>2, <2>3, StageTyped DEF TypeOK, Stages, Numbers
<1>7. ASSUME NEW c \in Resets, Reset(c) PROVE TypeOK'
  <2>1. UNCHANGED <<metrics, pc, mine, rest, seen>>
    BY <1>7 DEF Reset, ResetRequests, ResetErrors, ClearMap, locals
  <2>2. total' \in [requests : Nat, errors : Nat] /\ entry' \in [Hosts -> Arcs]
    <3>1. CASE ResetRequests(c)
      BY <1>0, <3>1 DEF ResetRequests, TypeOK
    <3>2. CASE ResetErrors(c)
      BY <1>0, <3>2 DEF ResetErrors, TypeOK
    <3>3. CASE ClearMap(c)
      BY <3>3 DEF ClearMap, TypeOK, Arcs
    <3> QED  BY <1>7, <3>1, <3>2, <3>3 DEF Reset
  <2>3. resetting' \in [Resets -> {"idle", "errors", "map", "returned"}]
    BY <1>7 DEF Reset, ResetRequests, ResetErrors, ClearMap, TypeOK
  <2> QED  BY <2>1, <2>2, <2>3 DEF TypeOK
<1> QED
  BY <1>1, <1>2, <1>3, <1>4, <1>5, <1>6, <1>7 DEF Next, Record

\* Only the request that takes the step moves.
LEMMA StepMoves ==
  ASSUME TypeOK, NEW r \in Requests, NEW from, NEW to, Step(r, from, to)
  PROVE  pc[r] = from /\ \A q \in Requests : pc'[q] = IF q = r THEN to ELSE pc[q]
BY DEF Step, TypeOK

OwnersRight == HoldsItsHost /\ EntryIsOfHost /\ ErrorStages /\ RestIsOpen

LEMMA OwnersKept == MInv /\ Next => OwnersRight'
<1> SUFFICES ASSUME MInv, Next PROVE OwnersRight'
  OBVIOUS
<1> USE DEF MInv
<1>0. /\ mine \in [Requests -> Arcs] /\ entry \in [Hosts -> Arcs]
      /\ rest \in [Requests -> SUBSET Buckets] /\ pc \in [Requests -> Stages]
      /\ \A q \in Requests : Fails[q] = "transport" => ~ IsError(q)
  BY DEF TypeOK, Stages, IsError
<1>1. ASSUME NEW r \in Requests, End(r) \/ CountGlobal(r) \/ CountGlobalError(r)
      PROVE  OwnersRight'
  <2>1. UNCHANGED <<entry, mine, rest>>
    BY <1>1 DEF End, CountGlobal, CountGlobalError, locals
  <2>2. PICK to \in {"done", "global", "global error", "lookup"} :
          /\ pc[r] \in {"sent", "global", "global error"}
          /\ \A q \in Requests : pc'[q] = IF q = r THEN to ELSE pc[q]
          /\ to = "done" <=> pc[r] = "sent" /\ Fails[r] = "transport"
          /\ to = "global error" => IsError(r)
    <3>1. CASE End(r)
      BY <3>1, StepMoves DEF End
    <3>2. CASE CountGlobal(r)
      <4> DEFINE to == IF IsError(r) THEN "global error" ELSE "lookup"
      <4>1. pc[r] = "global" /\ \A q \in Requests : pc'[q] = IF q = r THEN to ELSE pc[q]
        BY <3>2, StepMoves DEF CountGlobal
      <4>2. to \in {"global error", "lookup"} /\ (to = "global error" => IsError(r))
        OBVIOUS
      <4> HIDE DEF to
      <4> QED  BY <4>1, <4>2
    <3>3. CASE CountGlobalError(r)
      <4>1. /\ pc[r] = "global error"
            /\ \A q \in Requests : pc'[q] = IF q = r THEN "lookup" ELSE pc[q]
        BY <3>3, StepMoves DEF CountGlobalError
      <4> QED  BY <4>1
    <3> QED  BY <1>1, <3>1, <3>2, <3>3
  <2>3. HoldsItsHost'
    BY <2>1, <2>2 DEF HoldsItsHost, Holding, AfterHost
  <2>4. EntryIsOfHost' /\ ErrorStages' /\ RestIsOpen'
    BY <2>1, <2>2 DEF EntryIsOfHost, ErrorStages, RestIsOpen
  <2> QED  BY <2>3, <2>4 DEF OwnersRight
<1>2. ASSUME NEW r \in Requests, GetHostMetrics(r)
      PROVE  OwnersRight'
  <2> DEFINE arc == IF entry[Host[r]] = None THEN r ELSE entry[Host[r]]
  <2>1. Host[r] \in Hosts /\ r # None
    BY RequestsAssumption DEF Hosts, None
  <2>2. arc # None /\ Host[arc] = Host[r]
    BY <2>1 DEF EntryIsOfHost
  <2>3. /\ pc[r] = "lookup" /\ rest' = rest
        /\ \A q \in Requests : pc'[q] = IF q = r THEN "host" ELSE pc[q]
        /\ \A q \in Requests : mine'[q] = IF q = r THEN arc ELSE mine[q]
        /\ \A h \in Hosts : entry'[h] = IF h = Host[r] THEN arc ELSE entry[h]
    BY <1>0, <1>2, <2>1, StepMoves DEF GetHostMetrics
  <2> HIDE DEF arc
  <2>4. HoldsItsHost'
    BY <2>2, <2>3 DEF HoldsItsHost, Holding, AfterHost
  <2>5. EntryIsOfHost' /\ ErrorStages' /\ RestIsOpen'
    BY <2>2, <2>3 DEF EntryIsOfHost, ErrorStages, RestIsOpen
  <2> QED  BY <2>4, <2>5 DEF OwnersRight
<1>3. ASSUME NEW r \in Requests, CountHost(r)
      PROVE  OwnersRight'
  <2>1. /\ pc[r] = "host" /\ UNCHANGED <<entry, mine>>
        /\ \A q \in Requests :
             pc'[q] = IF q = r THEN IF IsError(r) THEN "host error" ELSE "buckets" ELSE pc[q]
        /\ \A q \in Requests :
             rest'[q] = IF q = r THEN {b \in Buckets : Elapsed[r] <= b} ELSE rest[q]
    BY <1>0, <1>3, StepMoves DEF CountHost
  <2>2. HoldsItsHost' /\ EntryIsOfHost'
    BY <2>1 DEF HoldsItsHost, EntryIsOfHost, Holding, AfterHost
  <2>3. ErrorStages' /\ RestIsOpen'
    BY <2>1 DEF ErrorStages, RestIsOpen
  <2> QED  BY <2>2, <2>3 DEF OwnersRight
<1>4. ASSUME NEW r \in Requests, CountHostError(r) \/ LoadSum(r) \/ SwapSum(r)
      PROVE  OwnersRight'
  <2>1. UNCHANGED <<entry, mine, rest>>
    BY <1>4 DEF CountHostError, LoadSum, SwapSum, locals
  <2>2. PICK to \in {"buckets", "load", "swap", "done"} :
          /\ pc[r] \in {"host error", "buckets", "load", "swap"}
          /\ \A q \in Requests : pc'[q] = IF q = r THEN to ELSE pc[q]
          /\ to # "buckets" => rest[r] = {}
    <3>1. CASE CountHostError(r)
      BY <3>1, StepMoves DEF CountHostError
    <3>2. CASE LoadSum(r)
      BY <3>2, StepMoves DEF LoadSum
    <3>3. CASE SwapSum(r)
      <4>1. PICK to \in {"done", "load"} : Step(r, "swap", to)
        BY <3>3 DEF SwapSum
      <4>2. pc[r] = "swap" /\ \A q \in Requests : pc'[q] = IF q = r THEN to ELSE pc[q]
        BY <4>1, StepMoves
      <4> QED  BY <4>2 DEF RestIsOpen
    <3> QED  BY <1>4, <3>1, <3>2, <3>3
  <2>3. HoldsItsHost'
    BY <2>1, <2>2 DEF HoldsItsHost, Holding, AfterHost
  <2>4. EntryIsOfHost' /\ ErrorStages' /\ RestIsOpen'
    BY <2>1, <2>2 DEF EntryIsOfHost, ErrorStages, RestIsOpen
  <2> QED  BY <2>3, <2>4 DEF OwnersRight
<1>5. ASSUME NEW r \in Requests, CountBucket(r)
      PROVE  OwnersRight'
  <2>1. /\ UNCHANGED <<entry, mine, pc>> /\ pc[r] = "buckets"
        /\ \A q \in Requests : rest'[q] \subseteq rest[q]
    BY <1>0, <1>5 DEF CountBucket
  <2> QED  BY <2>1 DEF OwnersRight, HoldsItsHost, EntryIsOfHost, ErrorStages, RestIsOpen
<1>6. ASSUME NEW c \in Resets, Reset(c)
      PROVE  OwnersRight'
  <2>1. UNCHANGED <<metrics, pc, locals>>
    BY <1>6 DEF Reset, ResetRequests, ResetErrors, ClearMap
  <2>2. \A h \in Hosts : entry'[h] \in {entry[h], None}
    BY <1>6 DEF Reset, ResetRequests, ResetErrors, ClearMap
  <2> QED  BY <2>1, <2>2, NobodyMoves DEF OwnersRight, EntryIsOfHost
<1> QED
  BY <1>1, <1>2, <1>3, <1>4, <1>5, <1>6 DEF Next, Record

Accounts == RequestsAddUp /\ ErrorsAddUp /\ BucketsAddUp /\ SumAddsUp

LEMMA AccountsKept == MInv /\ Next => Accounts'
<1> SUFFICES ASSUME MInv, Next PROVE Accounts'
  OBVIOUS
<1> USE DEF MInv
<1>0. /\ mine \in [Requests -> Arcs] /\ rest \in [Requests -> SUBSET Buckets]
      /\ metrics \in [Requests -> Numbers]
      /\ None \notin Requests
  BY RequestsAssumption DEF TypeOK, Numbers, None
<1>1. ASSUME NEW r \in Requests,
             End(r) \/ CountGlobal(r) \/ CountGlobalError(r) \/ GetHostMetrics(r)
      PROVE  Accounts'
  <2>1. UNCHANGED <<metrics, rest>>
    BY <1>1 DEF End, CountGlobal, CountGlobalError, GetHostMetrics, locals
  <2>2. \A q \in Requests :
          \/ pc'[q] = pc[q] /\ mine'[q] = mine[q]
          \/ /\ pc[q] \notin AfterHost
             /\ pc'[q] \notin AfterHost \/ mine'[q] = None
    <3>1. CASE End(r)
      <4>1. /\ mine' = mine /\ pc[r] = "sent"
            /\ \A q \in Requests :
                 pc'[q] = IF q = r THEN IF Fails[r] = "transport" THEN "done" ELSE "global"
                          ELSE pc[q]
        BY <3>1, StepMoves DEF End, locals
      <4>2. mine[r] = None
        BY <4>1 DEF HoldsItsHost, Holding, AfterHost
      <4> QED  BY <4>1, <4>2 DEF AfterHost
    <3>2. CASE CountGlobal(r)
      <4>1. /\ mine' = mine /\ pc[r] = "global"
            /\ \A q \in Requests :
                 pc'[q] = IF q = r THEN IF IsError(r) THEN "global error" ELSE "lookup"
                          ELSE pc[q]
        BY <3>2, StepMoves DEF CountGlobal, locals
      <4> QED  BY <4>1 DEF AfterHost
    <3>3. CASE CountGlobalError(r)
      <4>1. /\ mine' = mine /\ pc[r] = "global error"
            /\ \A q \in Requests : pc'[q] = IF q = r THEN "lookup" ELSE pc[q]
        BY <3>3, StepMoves DEF CountGlobalError, locals
      <4> QED  BY <4>1 DEF AfterHost
    <3>4. CASE GetHostMetrics(r)
      <4>1. /\ pc[r] = "lookup" /\ \A q \in Requests : q # r => mine'[q] = mine[q]
            /\ \A q \in Requests : pc'[q] = IF q = r THEN "host" ELSE pc[q]
        BY <1>0, <3>4, StepMoves DEF GetHostMetrics
      <4> QED  BY <4>1 DEF AfterHost
    <3> QED  BY <1>1, <3>1, <3>2, <3>3, <3>4
  <2>3. AfterHostError \subseteq AfterHost /\ "done" \in AfterHost
    BY DEF AfterHost, AfterHostError
  <2>4. \A a \in Requests : /\ Counted(a)' = Counted(a)
                            /\ CountedErrors(a)' = CountedErrors(a)
                            /\ Summed(a)' = Summed(a)
    BY <1>0, <2>2, <2>3 DEF Counted, CountedErrors, Summed
  <2>5. \A a \in Requests, b \in Buckets : InBucket(a, b)' = InBucket(a, b)
    BY <2>1, <2>4 DEF InBucket
  <2> QED  BY <2>1, <2>4, <2>5, HostsUntouched DEF Accounts
<1>2. ASSUME NEW r \in Requests, CountHost(r) PROVE Accounts'
  <2>1. /\ pc[r] = "host" /\ mine' = mine
        /\ \A q \in Requests :
             pc'[q] = IF q = r THEN IF IsError(r) THEN "host error" ELSE "buckets" ELSE pc[q]
        /\ \A q \in Requests :
             rest'[q] = IF q = r THEN {b \in Buckets : Elapsed[r] <= b} ELSE rest[q]
    BY <1>0, <1>2, StepMoves DEF CountHost
  <2>2. mine[r] \in Requests
    BY <2>1, UpdatesItsArc
  <2>3. \A a \in Requests :
          /\ metrics'[a].requests = IF a = mine[r] THEN metrics[a].requests + 1
                                    ELSE metrics[a].requests
          /\ metrics'[a].errors = metrics[a].errors
          /\ metrics'[a].counts = metrics[a].counts
          /\ metrics'[a].sum = metrics[a].sum
    BY <1>0, <1>2, <2>2 DEF CountHost, Numbers
  <2>4. r \notin Counted(mine[r])
    BY <2>1 DEF Counted, AfterHost
  <2>5. \A a \in Requests :
          Counted(a)' = IF a = mine[r] THEN Counted(a) \cup {r} ELSE Counted(a)
    BY <2>1 DEF Counted, AfterHost
  <2>6. \A a \in Requests : CountedErrors(a)' = CountedErrors(a) /\ Summed(a)' = Summed(a)
    BY <2>1 DEF CountedErrors, Summed, AfterHostError
  <2>7. \A a \in Requests, b \in Buckets : InBucket(a, b)' = InBucket(a, b)
    BY <2>1, <2>4, <2>5 DEF InBucket, Counted
  <2>8. RequestsAddUp'
    <3>1. Cardinality(Counted(mine[r]) \cup {r}) = Cardinality(Counted(mine[r])) + 1
      BY <2>4, OneMore DEF Counted
    <3>2. ASSUME NEW a \in Requests PROVE metrics'[a].requests = Cardinality(Counted(a)')
      <4>1. metrics[a].requests = Cardinality(Counted(a))
        BY DEF RequestsAddUp
      <4>2. CASE a = mine[r]
        BY <2>3, <2>5, <3>1, <4>1, <4>2
      <4>3. CASE a # mine[r]
        BY <2>3, <2>5, <4>1, <4>3
      <4> QED  BY <4>2, <4>3
    <3> QED  BY <3>2 DEF RequestsAddUp
  <2>9. ErrorsAddUp' /\ BucketsAddUp' /\ SumAddsUp'
    BY <2>3, <2>6, <2>7 DEF ErrorsAddUp, BucketsAddUp, SumAddsUp
  <2> QED  BY <2>8, <2>9 DEF Accounts
<1>3. ASSUME NEW r \in Requests, CountHostError(r) PROVE Accounts'
  <2>1. /\ pc[r] = "host error" /\ UNCHANGED <<mine, rest>>
        /\ \A q \in Requests : pc'[q] = IF q = r THEN "buckets" ELSE pc[q]
    BY <1>3, StepMoves DEF CountHostError, locals
  <2>2. mine[r] \in Requests /\ IsError(r)
    BY <2>1, UpdatesItsArc DEF ErrorStages
  <2>3. \A a \in Requests :
          /\ metrics'[a].errors = IF a = mine[r] THEN metrics[a].errors + 1
                                  ELSE metrics[a].errors
          /\ metrics'[a].requests = metrics[a].requests
          /\ metrics'[a].counts = metrics[a].counts
          /\ metrics'[a].sum = metrics[a].sum
    BY <1>0, <1>3, <2>2 DEF CountHostError, Numbers
  <2>4. r \notin CountedErrors(mine[r])
    BY <2>1 DEF CountedErrors, AfterHostError
  <2>5. \A a \in Requests :
          CountedErrors(a)' = IF a = mine[r] THEN CountedErrors(a) \cup {r} ELSE CountedErrors(a)
    BY <2>1, <2>2 DEF CountedErrors, AfterHostError
  <2>6. \A a \in Requests : Counted(a)' = Counted(a) /\ Summed(a)' = Summed(a)
    BY <2>1 DEF Counted, Summed, AfterHost
  <2>7. \A a \in Requests, b \in Buckets : InBucket(a, b)' = InBucket(a, b)
    BY <2>1, <2>6 DEF InBucket
  <2>8. ErrorsAddUp'
    <3>1. Cardinality(CountedErrors(mine[r]) \cup {r}) = Cardinality(CountedErrors(mine[r])) + 1
      BY <2>4, OneMore DEF CountedErrors
    <3>2. ASSUME NEW a \in Requests PROVE metrics'[a].errors = Cardinality(CountedErrors(a)')
      <4>1. metrics[a].errors = Cardinality(CountedErrors(a))
        BY DEF ErrorsAddUp
      <4>2. CASE a = mine[r]
        BY <2>3, <2>5, <3>1, <4>1, <4>2
      <4>3. CASE a # mine[r]
        BY <2>3, <2>5, <4>1, <4>3
      <4> QED  BY <4>2, <4>3
    <3> QED  BY <3>2 DEF ErrorsAddUp
  <2>9. RequestsAddUp' /\ BucketsAddUp' /\ SumAddsUp'
    BY <2>3, <2>6, <2>7 DEF RequestsAddUp, BucketsAddUp, SumAddsUp
  <2> QED  BY <2>8, <2>9 DEF Accounts
<1>4. ASSUME NEW r \in Requests, CountBucket(r) PROVE Accounts'
  <2> DEFINE least == Min(rest[r])
  <2>1. pc[r] = "buckets" /\ UNCHANGED <<mine, pc>>
    BY <1>4 DEF CountBucket
  <2>2. mine[r] \in Requests /\ least \in rest[r] /\ least \in Buckets
    BY <1>0, <1>4, <2>1, UpdatesItsArc, MinIsMember, ElapsedAssumption DEF CountBucket
  <2>3. \A q \in Requests : rest'[q] = IF q = r THEN rest[r] \ {least} ELSE rest[q]
    BY <1>0, <1>4 DEF CountBucket
  <2>4. metrics' = [metrics EXCEPT ![mine[r]] = [metrics[mine[r]] EXCEPT !.counts[least] = @ + 1]]
    BY <1>4 DEF CountBucket
  <2> HIDE DEF least
  <2>5. \A a \in Requests :
          /\ metrics'[a].requests = metrics[a].requests
          /\ metrics'[a].errors = metrics[a].errors
          /\ metrics'[a].sum = metrics[a].sum
          /\ \A b \in Buckets :
               metrics'[a].counts[b] = IF a = mine[r] /\ b = least THEN metrics[a].counts[b] + 1
                                       ELSE metrics[a].counts[b]
    BY <1>0, <2>2, <2>4 DEF Numbers
  <2>6. r \notin InBucket(mine[r], least) /\ Elapsed[r] <= least
    BY <2>2 DEF InBucket, RestIsOpen
  <2>7. \A a \in Requests : /\ Counted(a)' = Counted(a) /\ Summed(a)' = Summed(a)
                            /\ CountedErrors(a)' = CountedErrors(a)
    BY <2>1 DEF Counted, CountedErrors, Summed
  <2>8. \A a \in Requests, b \in Buckets :
          InBucket(a, b)' = IF a = mine[r] /\ b = least THEN InBucket(a, b) \cup {r}
                            ELSE InBucket(a, b)
    <3>1. \A a \in Requests : r \in Counted(a) <=> a = mine[r]
      BY <2>1 DEF Counted, AfterHost
    <3> QED  BY <2>2, <2>3, <2>6, <2>7, <3>1 DEF InBucket, Counted
  <2>9. BucketsAddUp'
    <3>1. /\ InBucket(mine[r], least) \in SUBSET Requests
          /\ Cardinality(InBucket(mine[r], least) \cup {r})
               = Cardinality(InBucket(mine[r], least)) + 1
      BY <2>6, OneMore DEF InBucket, Counted
    <3>2. ASSUME NEW a \in Requests, NEW b \in Buckets
          PROVE  metrics'[a].counts[b] = Cardinality(InBucket(a, b)')
      <4>1. metrics[a].counts[b] = Cardinality(InBucket(a, b))
        BY DEF BucketsAddUp
      <4>2. CASE a = mine[r] /\ b = least
        BY <2>5, <2>8, <3>1, <4>1, <4>2
      <4>3. CASE ~ (a = mine[r] /\ b = least)
        BY <2>5, <2>8, <4>1, <4>3
      <4> QED  BY <4>2, <4>3
    <3> QED  BY <3>2 DEF BucketsAddUp
  <2>10. RequestsAddUp' /\ ErrorsAddUp' /\ SumAddsUp'
    BY <2>5, <2>7 DEF RequestsAddUp, ErrorsAddUp, SumAddsUp
  <2> QED  BY <2>9, <2>10 DEF Accounts
<1>5. ASSUME NEW r \in Requests, LoadSum(r) PROVE Accounts'
  <2>1. /\ pc[r] \in {"buckets", "load"} /\ UNCHANGED <<metrics, mine, rest>>
        /\ \A q \in Requests : pc'[q] = IF q = r THEN "swap" ELSE pc[q]
    BY <1>5, StepMoves DEF LoadSum
  <2>2. \A a \in Requests : /\ Counted(a)' = Counted(a) /\ Summed(a)' = Summed(a)
                            /\ CountedErrors(a)' = CountedErrors(a)
    BY <2>1 DEF Counted, CountedErrors, Summed, AfterHost, AfterHostError
  <2>3. \A a \in Requests, b \in Buckets : InBucket(a, b)' = InBucket(a, b)
    BY <2>1, <2>2 DEF InBucket
  <2> QED  BY <2>1, <2>2, <2>3, HostsUntouched DEF Accounts
<1>6. ASSUME NEW r \in Requests, SwapSum(r) PROVE Accounts'
  <2>1. UNCHANGED <<mine, rest>>
    BY <1>6 DEF SwapSum, locals
  <2>2. CASE Step(r, "swap", "done") /\ metrics[mine[r]].sum = seen[r]
             /\ metrics' = [metrics EXCEPT ![mine[r]].sum = seen[r] + Elapsed[r]]
    <3>1. pc[r] = "swap" /\ \A q \in Requests : pc'[q] = IF q = r THEN "done" ELSE pc[q]
      BY <2>2, StepMoves
    <3>2. mine[r] \in Requests
      BY <3>1, UpdatesItsArc
    <3>3. \A a \in Requests :
            /\ metrics'[a].sum = IF a = mine[r] THEN metrics[a].sum + Elapsed[r]
                                 ELSE metrics[a].sum
            /\ metrics'[a].requests = metrics[a].requests
            /\ metrics'[a].errors = metrics[a].errors
            /\ metrics'[a].counts = metrics[a].counts
      BY <1>0, <2>2, <3>2 DEF Numbers
    <3>4. \A a \in Requests : Counted(a)' = Counted(a) /\ CountedErrors(a)' = CountedErrors(a)
      BY <2>1, <3>1 DEF Counted, CountedErrors, AfterHost, AfterHostError
    <3>5. \A a \in Requests, b \in Buckets : InBucket(a, b)' = InBucket(a, b)
      BY <2>1, <3>4 DEF InBucket
    <3>6. /\ r \notin Summed(mine[r])
          /\ \A a \in Requests :
               Summed(a)' = IF a = mine[r] THEN Summed(a) \cup {r} ELSE Summed(a)
      BY <2>1, <3>1 DEF Summed
    <3>7. SumAddsUp'
      <4>1. TotalElapsed(Summed(mine[r]) \cup {r}) = TotalElapsed(Summed(mine[r])) + Elapsed[r]
        BY <3>6, SumOfOneMore DEF Summed
      <4> QED  BY <3>2, <3>3, <3>6, <4>1 DEF SumAddsUp
    <3>8. RequestsAddUp' /\ ErrorsAddUp' /\ BucketsAddUp'
      BY <3>3, <3>4, <3>5 DEF RequestsAddUp, ErrorsAddUp, BucketsAddUp
    <3> QED  BY <3>7, <3>8 DEF Accounts
  <2>3. CASE Step(r, "swap", "load") /\ metrics' = metrics
    <3>1. pc[r] = "swap" /\ \A q \in Requests : pc'[q] = IF q = r THEN "load" ELSE pc[q]
      BY <2>3, StepMoves
    <3>2. \A a \in Requests : /\ Counted(a)' = Counted(a) /\ Summed(a)' = Summed(a)
                              /\ CountedErrors(a)' = CountedErrors(a)
      BY <2>1, <3>1 DEF Counted, CountedErrors, Summed, AfterHost, AfterHostError
    <3>3. \A a \in Requests, b \in Buckets : InBucket(a, b)' = InBucket(a, b)
      BY <2>1, <3>2 DEF InBucket
    <3> QED  BY <2>3, <3>2, <3>3, HostsUntouched DEF Accounts
  <2> QED  BY <1>6, <2>2, <2>3 DEF SwapSum
<1>7. ASSUME NEW c \in Resets, Reset(c) PROVE Accounts'
  BY <1>7, NobodyMoves DEF Accounts, Reset, ResetRequests, ResetErrors, ClearMap
<1> QED
  BY <1>1, <1>2, <1>3, <1>4, <1>5, <1>6, <1>7 DEF Next, Record

\* Nothing is forgotten until there is a reset.
LEMMA GlobalsKept == MInv /\ Next => NothingForgotten'
<1> SUFFICES ASSUME MInv, Next, NeverReset' PROVE NothingForgotten'
  BY DEF NothingForgotten
<1> USE DEF MInv
<1>0. /\ total \in [requests : Nat, errors : Nat]
      /\ mine \in [Requests -> Arcs] /\ entry \in [Hosts -> Arcs]
      /\ \A q \in Requests : IsError(q) => Fails[q] # "transport"
  BY DEF TypeOK, IsError
<1>1. ASSUME NEW c \in Resets, Reset(c) PROVE FALSE
  <2>1. \E to \in {"errors", "map", "returned"} : resetting' = [resetting EXCEPT ![c] = to]
    BY <1>1 DEF Reset, ResetRequests, ResetErrors, ClearMap
  <2>2. resetting'[c] # "idle"
    BY <2>1 DEF TypeOK
  <2> QED  BY <2>2 DEF NeverReset
<1>2. PICK r \in Requests : Record(r)
  BY <1>1 DEF Next
<1>3. NeverReset
  BY <1>2 DEF Record, End, CountGlobal, CountGlobalError, GetHostMetrics, CountHost,
     CountHostError, CountBucket, LoadSum, SwapSum, NeverReset
<1>4. /\ total.requests = Cardinality(Begun) /\ total.errors = Cardinality(BegunErrors)
      /\ \A q \in Requests : mine[q] # None => entry[Host[q]] = mine[q]
  BY <1>3 DEF NothingForgotten
<1>5. CASE End(r)
  <2>1. /\ UNCHANGED <<total, mine, entry>> /\ pc[r] = "sent"
        /\ \A q \in Requests :
             pc'[q] = IF q = r THEN IF Fails[r] = "transport" THEN "done" ELSE "global" ELSE pc[q]
    BY <1>5, StepMoves DEF End, locals
  <2>2. Begun' = Begun /\ BegunErrors' = BegunErrors
    BY <1>0, <2>1 DEF Begun, BegunErrors, AfterGlobal, AfterGlobalError, Holding, AfterHost, IsError
  <2> QED  BY <1>4, <2>1, <2>2 DEF NothingForgotten
<1>6. CASE CountGlobal(r)
  <2>0. /\ UNCHANGED <<mine, entry>> /\ pc[r] = "global"
        /\ \A q \in Requests :
             pc'[q] = IF q = r THEN IF IsError(r) THEN "global error" ELSE "lookup" ELSE pc[q]
    BY <1>6, StepMoves DEF CountGlobal, locals
  <2>1. Fails[r] # "transport"
    BY <2>0 DEF HoldsItsHost
  <2>2. total'.requests = total.requests + 1 /\ total'.errors = total.errors
    BY <1>0, <1>6 DEF CountGlobal
  <2>3. r \notin Begun /\ Begun' = Begun \cup {r}
    BY <2>0, <2>1 DEF Begun, AfterGlobal, Holding, AfterHost
  <2>4. BegunErrors' = BegunErrors
    BY <2>0, <2>1 DEF BegunErrors, AfterGlobalError, Holding, AfterHost, IsError
  <2>5. Cardinality(Begun \cup {r}) = Cardinality(Begun) + 1
    BY <2>3, OneMore DEF Begun
  <2>6. total'.requests = Cardinality(Begun')
    BY <1>4, <2>2, <2>3, <2>5
  <2> QED  BY <1>4, <2>0, <2>2, <2>4, <2>6 DEF NothingForgotten
<1>7. CASE CountGlobalError(r)
  <2>1. /\ UNCHANGED <<mine, entry>> /\ pc[r] = "global error" /\ IsError(r)
        /\ \A q \in Requests : pc'[q] = IF q = r THEN "lookup" ELSE pc[q]
    BY <1>7, StepMoves DEF CountGlobalError, locals, ErrorStages
  <2>2. total'.errors = total.errors + 1 /\ total'.requests = total.requests
    BY <1>0, <1>7 DEF CountGlobalError
  <2>3. r \notin BegunErrors /\ BegunErrors' = BegunErrors \cup {r}
    BY <2>1 DEF BegunErrors, AfterGlobalError, Holding, AfterHost, IsError
  <2>4. Begun' = Begun
    BY <2>1 DEF Begun, AfterGlobal, Holding, AfterHost
  <2>5. Cardinality(BegunErrors \cup {r}) = Cardinality(BegunErrors) + 1
    BY <2>3, OneMore DEF BegunErrors
  <2>6. total'.errors = Cardinality(BegunErrors')
    BY <1>4, <2>2, <2>3, <2>5
  <2> QED  BY <1>4, <2>1, <2>2, <2>4, <2>6 DEF NothingForgotten
<1>8. CASE GetHostMetrics(r)
  <2> DEFINE arc == IF entry[Host[r]] = None THEN r ELSE entry[Host[r]]
  <2>1. /\ total' = total /\ pc[r] = "lookup"
        /\ \A q \in Requests : pc'[q] = IF q = r THEN "host" ELSE pc[q]
        /\ \A q \in Requests : mine'[q] = IF q = r THEN arc ELSE mine[q]
        /\ \A h \in Hosts : entry'[h] = IF h = Host[r] THEN arc ELSE entry[h]
    BY <1>0, <1>8, StepMoves DEF GetHostMetrics
  <2>2. Begun' = Begun /\ BegunErrors' = BegunErrors
    BY <2>1 DEF Begun, BegunErrors, AfterGlobal, AfterGlobalError, Holding, AfterHost, IsError
  <2>3. \A q \in Requests : Host[q] \in Hosts
    BY DEF Hosts
  <2>4. \A q \in Requests : mine'[q] # None => entry'[Host[q]] = mine'[q]
    BY <1>4, <2>1, <2>3
  <2> QED  BY <1>4, <2>1, <2>2, <2>4 DEF NothingForgotten
<1>9. CASE CountHost(r) \/ CountHostError(r) \/ CountBucket(r) \/ LoadSum(r) \/ SwapSum(r)
  <2>1. UNCHANGED <<total, mine, entry>>
    BY <1>9 DEF CountHost, CountHostError, CountBucket, LoadSum, SwapSum, locals
  <2>2. PICK to \in AfterHost :
          /\ pc[r] \in Holding
          /\ \A q \in Requests : pc'[q] = IF q = r THEN to ELSE pc[q]
    <3>1. CASE CountHost(r)
      <4> DEFINE to == IF IsError(r) THEN "host error" ELSE "buckets"
      <4>1. pc[r] = "host" /\ \A q \in Requests : pc'[q] = IF q = r THEN to ELSE pc[q]
        BY <3>1, StepMoves DEF CountHost
      <4>2. to \in AfterHost
        BY DEF AfterHost
      <4> HIDE DEF to
      <4> QED  BY <4>1, <4>2 DEF Holding
    <3>2. CASE CountHostError(r)
      BY <3>2, StepMoves DEF CountHostError, Holding, AfterHost
    <3>3. CASE CountBucket(r)
      BY <3>3 DEF CountBucket, Holding, AfterHost
    <3>4. CASE LoadSum(r)
      BY <3>4, StepMoves DEF LoadSum, Holding, AfterHost
    <3>5. CASE SwapSum(r)
      <4>1. PICK to \in {"done", "load"} : Step(r, "swap", to)
        BY <3>5 DEF SwapSum
      <4>2. pc[r] = "swap" /\ \A q \in Requests : pc'[q] = IF q = r THEN to ELSE pc[q]
        BY <4>1, StepMoves
      <4> QED  BY <4>2 DEF Holding, AfterHost
    <3> QED  BY <1>9, <3>1, <3>2, <3>3, <3>4, <3>5
  <2>3. Begun' = Begun /\ BegunErrors' = BegunErrors
    BY <2>2 DEF Begun, BegunErrors, AfterGlobal, AfterGlobalError, Holding, IsError
  <2> QED  BY <1>4, <2>1, <2>3 DEF NothingForgotten
<1> QED  BY <1>2, <1>5, <1>6, <1>7, <1>8, <1>9 DEF Record

LEMMA Always == Spec => []MInv
<1>1. MInv /\ [Next]_vars => MInv'
  <2>1. ASSUME MInv, Next PROVE MInv'
    BY <2>1, TypesKept, OwnersKept, AccountsKept, GlobalsKept DEF OwnersRight, Accounts, MInv
  <2>2. ASSUME MInv, UNCHANGED vars PROVE MInv'
    <3>1. HoldsItsHost' /\ ErrorStages' /\ RestIsOpen' /\ Accounts'
          /\ Begun' = Begun /\ BegunErrors' = BegunErrors
      BY <2>2, NobodyMoves DEF vars, locals, Accounts
    <3>2. TypeOK' /\ EntryIsOfHost'
      BY <2>2 DEF vars, locals, MInv, TypeOK, EntryIsOfHost
    <3>3. NothingForgotten'
      BY <2>2, <3>1 DEF vars, locals, MInv, NothingForgotten, NeverReset
    <3> QED  BY <3>1, <3>2, <3>3 DEF MInv, Accounts
  <2> QED  BY <2>1, <2>2
<1> QED  BY <1>1, Initially, PTL DEF Spec

--------------------------------------------------------------------------------
(* The theorems. *)

\* Types, and that whoever is at the counters of a host holds them.
THEOREM TypeCorrect == Spec => []TypeOK
BY Always, PTL DEF MInv

\* When nobody is recording, a HostMetrics is what the requests that hold it come to.
LEMMA QuietTally ==
  ASSUME MInv, Quiet, NEW a \in Requests
  PROVE  /\ metrics[a] = Tally(Summed(a))
         /\ Summed(a) \in SUBSET {r \in Recorded : Host[r] = Host[a]}
<1> USE DEF MInv
<1>1. \A r \in Requests : pc[r] = "sent" => mine[r] = None
  BY DEF HoldsItsHost, Holding, AfterHost
<1>2. a # None
  BY RequestsAssumption DEF None
<1>3. \A r \in Requests : mine[r] = a => pc[r] = "done" /\ rest[r] = {}
  BY <1>1, <1>2 DEF Quiet, RestIsOpen
<1>4. Counted(a) = Summed(a)
  BY <1>3 DEF Counted, Summed, AfterHost
<1>5. CountedErrors(a) = {r \in Summed(a) : IsError(r)}
  BY <1>3 DEF CountedErrors, Summed, AfterHostError
<1>6. \A b \in Buckets : InBucket(a, b) = {r \in Summed(a) : Elapsed[r] <= b}
  BY <1>3, <1>4 DEF InBucket, Summed
<1>7. Tally(Summed(a)) =
        [requests |-> Cardinality(Summed(a)),
         errors   |-> Cardinality({r \in Summed(a) : IsError(r)}),
         counts   |-> [b \in Buckets |-> Cardinality({r \in Summed(a) : Elapsed[r] <= b})],
         sum      |-> TotalElapsed(Summed(a))]
  BY Zenon DEF Tally, TotalElapsed
<1>8. metrics[a].requests = Cardinality(Summed(a))
  BY <1>4 DEF RequestsAddUp
<1>9. metrics[a].errors = Cardinality({r \in Summed(a) : IsError(r)})
  BY <1>5 DEF ErrorsAddUp
<1>10. metrics[a].counts = [b \in Buckets |-> Cardinality({r \in Summed(a) : Elapsed[r] <= b})]
  <2>1. \A b \in Buckets :
          metrics[a].counts[b] = Cardinality({r \in Summed(a) : Elapsed[r] <= b})
    BY <1>6 DEF BucketsAddUp
  <2>2. metrics[a].counts \in [Buckets -> Nat]
    BY DEF TypeOK
  <2> QED  BY <2>1, <2>2
<1>11. metrics[a].sum = TotalElapsed(Summed(a))
  BY DEF SumAddsUp
<1>12. metrics[a] = [requests |-> metrics[a].requests, errors |-> metrics[a].errors,
                     counts |-> metrics[a].counts, sum |-> metrics[a].sum]
  BY DEF TypeOK
<1>13. Summed(a) \in SUBSET {r \in Recorded : Host[r] = Host[a]}
  BY <1>2 DEF Summed, Recorded, HoldsItsHost
<1> QED  BY <1>7, <1>8, <1>9, <1>10, <1>11, <1>12, <1>13

LEMMA TallyOfNone == Tally({}) = Zero
<1>1. Tally({}) = [requests |-> Cardinality({}), errors |-> Cardinality({r \in {} : IsError(r)}),
                   counts |-> [b \in Buckets |-> Cardinality({r \in {} : Elapsed[r] <= b})],
                   sum |-> TotalElapsed({})]
  BY Zenon DEF Tally, TotalElapsed
<1>2. Cardinality({}) = 0 /\ TotalElapsed({}) = 0
  BY FS_EmptySet, SumOfNone
<1> QED  BY <1>1, <1>2 DEF Zero

\* What a host shows when recordings and resets have run through each other is the
\* account of some of its requests, complete (the Arc is updated without the lock).
THEOREM ResetsDropWhole == Spec => []HistogramsStayWhole
<1>1. MInv => HistogramsStayWhole
  <2> SUFFICES ASSUME MInv, Quiet, NEW h \in Hosts
               PROVE  \E R \in SUBSET {r \in Recorded : Host[r] = h} : Shown(h) = Tally(R)
    BY DEF HistogramsStayWhole
  <2>1. CASE entry[h] = None
    BY <2>1, TallyOfNone DEF Shown
  <2>2. CASE entry[h] # None
    <3>1. entry[h] \in Requests /\ Host[entry[h]] = h
      BY <2>2 DEF MInv, TypeOK, Arcs, EntryIsOfHost
    <3> QED  BY <2>2, <3>1, QuietTally DEF Shown
  <2> QED  BY <2>1, <2>2
<1> QED  BY <1>1, Always, PTL

\* Without a reset no event is lost and none is counted twice (each counter is
\* updated by an atomic operation).
THEOREM NoEventIsLost == Spec => []CountersAddUp
<1>1. MInv => CountersAddUp
  <2> SUFFICES ASSUME MInv, Quiet, NeverReset
               PROVE  /\ total.requests = Cardinality(Recorded)
                      /\ total.errors = Cardinality({r \in Recorded : IsError(r)})
                      /\ \A h \in Hosts : Shown(h) = Tally({r \in Recorded : Host[r] = h})
    BY DEF CountersAddUp
  <2> USE DEF MInv
  <2>1. Recorded = Begun
    BY DEF Recorded, Begun, Quiet, AfterGlobal, Holding, AfterHost
  <2>2. {r \in Recorded : IsError(r)} = BegunErrors
    BY DEF Recorded, BegunErrors, Quiet, AfterGlobalError, Holding, AfterHost, IsError
  <2>3. ASSUME NEW h \in Hosts PROVE Shown(h) = Tally({r \in Recorded : Host[r] = h})
    <3>1. \A r \in Recorded : mine[r] # None /\ entry[Host[r]] = mine[r]
      BY DEF Recorded, HoldsItsHost, Holding, AfterHost, NothingForgotten
    <3>2. CASE entry[h] = None
      <4>1. {r \in Recorded : Host[r] = h} = {}
        BY <3>1, <3>2
      <4> QED  BY <3>2, <4>1, TallyOfNone DEF Shown
    <3>3. CASE entry[h] # None
      <4>1. entry[h] \in Requests /\ Host[entry[h]] = h
        BY <3>3 DEF TypeOK, Arcs, EntryIsOfHost
      <4>2. {r \in Recorded : Host[r] = h} = Summed(entry[h])
        BY <3>1, <4>1, QuietTally DEF Summed, Recorded
      <4> QED  BY <3>3, <4>1, <4>2, QuietTally DEF Shown
    <3> QED  BY <3>2, <3>3
  <2>4. total.requests = Cardinality(Recorded) /\ total.errors = Cardinality(BegunErrors)
    BY <2>1 DEF NothingForgotten
  <2> QED  BY <2>2, <2>3, <2>4
<1> QED  BY <1>1, Always, PTL
====
