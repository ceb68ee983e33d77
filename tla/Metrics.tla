-------------------------------- MODULE Metrics --------------------------------
(***************************************************************************)
(* metrics.rs: the process-wide counters behind enable_metrics().          *)
(*                                                                         *)
(* Every buffered request that gets a response records itself from its own *)
(* thread: global counters, then the metrics of its host, found or made    *)
(* under the map's lock and updated without it.  reset() runs beside it.   *)
(* Every atomic operation and every lock is a step of its own.  The        *)
(* counters are u64 and count events: none is near its bound.              *)
(***************************************************************************)
EXTENDS Integers, FiniteSets, FiniteSetsExt

CONSTANTS Requests,   \* requests that end
          Host,       \* the host of each
          Elapsed,    \* how long each took
          Buckets,    \* the upper bounds of HISTOGRAM_BUCKETS
          Fails,      \* how each ends: "no", "status" (>= 400) or "transport"
          Resets      \* calls of reset()

ASSUME RequestsAssumption == IsFiniteSet(Requests) /\ "none" \notin Requests
ASSUME ElapsedAssumption  == Elapsed \in [Requests -> Nat] /\ Buckets \subseteq Nat
ASSUME FailsAssumption    == Fails \in [Requests -> {"no", "status", "transport"}]

Hosts == {Host[r] : r \in Requests}
Zero == [requests |-> 0, errors |-> 0, counts |-> [b \in Buckets |-> 0], sum |-> 0]

VARIABLES
  total,     \* global_requests and global_errors
  entry,     \* per_host: the Arc<HostMetrics> of each host, or none
  metrics,   \* the HostMetrics ever made, one for each request that could make it
  pc,        \* where each recording request is
  mine,      \* the Arc it holds
  rest,      \* the buckets it has not got to
  seen,      \* the histogram_sum it loaded
  resetting  \* where each reset() is

vars == <<total, entry, metrics, pc, mine, rest, seen, resetting>>
locals == <<mine, rest, seen>>

None == "none"
Arcs == Requests \cup {None}

TypeOK ==
  /\ total \in [requests : Nat, errors : Nat]
  /\ entry \in [Hosts -> Arcs]
  /\ metrics \in [Requests -> [requests : Nat, errors : Nat,
                               counts : [Buckets -> Nat], sum : Nat]]
  /\ pc \in [Requests -> {"sent", "global", "global error", "lookup", "host",
                          "host error", "buckets", "load", "swap", "done"}]
  /\ mine \in [Requests -> Arcs]
  /\ rest \in [Requests -> SUBSET Buckets]
  /\ seen \in [Requests -> Nat]
  /\ \A r \in Requests :
       pc[r] \in {"host", "host error", "buckets", "load", "swap"} => mine[r] # None
  /\ resetting \in [Resets -> {"idle", "errors", "map", "returned"}]

Init ==
  /\ total = [requests |-> 0, errors |-> 0]
  /\ entry = [h \in Hosts |-> None]
  /\ metrics = [r \in Requests |-> Zero]
  /\ pc = [r \in Requests |-> "sent"]
  /\ mine = [r \in Requests |-> None]
  /\ rest = [r \in Requests |-> {}]
  /\ seen = [r \in Requests |-> 0]
  /\ resetting = [c \in Resets |-> "idle"]

--------------------------------------------------------------------------------
\* A request records itself

Step(r, from, to) == pc[r] = from /\ pc' = [pc EXCEPT ![r] = to]

IsError(r) == Fails[r] = "status"

\* execute_request: a transport failure returns before it could be recorded.
\* record_global_metrics: the collector is alive in every state of this model.
End(r) ==
  /\ Step(r, "sent", IF Fails[r] = "transport" THEN "done" ELSE "global")
  /\ UNCHANGED <<total, entry, metrics, locals, resetting>>

CountGlobal(r) ==
  /\ Step(r, "global", IF IsError(r) THEN "global error" ELSE "lookup")
  /\ total' = [total EXCEPT !.requests = @ + 1]
  /\ UNCHANGED <<entry, metrics, locals, resetting>>

CountGlobalError(r) ==
  /\ Step(r, "global error", "lookup")
  /\ total' = [total EXCEPT !.errors = @ + 1]
  /\ UNCHANGED <<entry, metrics, locals, resetting>>

\* get_host_metrics: entry().or_insert_with().clone(), all under the lock.
GetHostMetrics(r) ==
  /\ Step(r, "lookup", "host")
  /\ LET arc == IF entry[Host[r]] = None THEN r ELSE entry[Host[r]]
     IN  /\ entry' = [entry EXCEPT ![Host[r]] = arc]
         /\ mine' = [mine EXCEPT ![r] = arc]
  /\ UNCHANGED <<total, metrics, rest, seen, resetting>>

CountHost(r) ==
  /\ Step(r, "host", IF IsError(r) THEN "host error" ELSE "buckets")
  /\ metrics' = [metrics EXCEPT ![mine[r]].requests = @ + 1]
  /\ rest' = [rest EXCEPT ![r] = {b \in Buckets : Elapsed[r] <= b}]
  /\ UNCHANGED <<total, entry, mine, seen, resetting>>

CountHostError(r) ==
  /\ Step(r, "host error", "buckets")
  /\ metrics' = [metrics EXCEPT ![mine[r]].errors = @ + 1]
  /\ UNCHANGED <<total, entry, locals, resetting>>

\* Each bucket the latency fits under, the smallest first.
CountBucket(r) ==
  /\ pc[r] = "buckets"
  /\ rest[r] # {}
  /\ LET b == Min(rest[r])
     IN  /\ metrics' = [metrics EXCEPT ![mine[r]].counts[b] = @ + 1]
         /\ rest' = [rest EXCEPT ![r] = @ \ {b}]
  /\ UNCHANGED <<total, entry, pc, mine, seen, resetting>>

LoadSum(r) ==
  /\ rest[r] = {}
  /\ Step(r, "buckets", "swap") \/ Step(r, "load", "swap")
  /\ seen' = [seen EXCEPT ![r] = metrics[mine[r]].sum]
  /\ UNCHANGED <<total, entry, metrics, mine, rest, resetting>>

\* Mutant: the sum is stored, not compared and exchanged.
StoreSum(r) ==
  /\ Step(r, "swap", "done")
  /\ metrics' = [metrics EXCEPT ![mine[r]].sum = seen[r] + Elapsed[r]]
  /\ UNCHANGED <<total, entry, locals, resetting>>

\* compare_exchange_weak may also fail for no reason.
SwapSum(r) ==
  \/ /\ Step(r, "swap", "done")
     /\ metrics[mine[r]].sum = seen[r]
     /\ metrics' = [metrics EXCEPT ![mine[r]].sum = seen[r] + Elapsed[r]]
     /\ UNCHANGED <<total, entry, locals, resetting>>
  \/ /\ Step(r, "swap", "load")
     /\ UNCHANGED <<total, entry, metrics, locals, resetting>>

--------------------------------------------------------------------------------
\* reset()

ResetRequests(c) ==
  /\ resetting[c] = "idle"
  /\ resetting' = [resetting EXCEPT ![c] = "errors"]
  /\ total' = [total EXCEPT !.requests = 0]
  /\ UNCHANGED <<entry, metrics, pc, locals>>

ResetErrors(c) ==
  /\ resetting[c] = "errors"
  /\ resetting' = [resetting EXCEPT ![c] = "map"]
  /\ total' = [total EXCEPT !.errors = 0]
  /\ UNCHANGED <<entry, metrics, pc, locals>>

\* Mutant: the metrics of the hosts are set to zero in place.
ZeroMap(c) ==
  /\ resetting[c] = "map"
  /\ resetting' = [resetting EXCEPT ![c] = "returned"]
  /\ metrics' = [r \in Requests |-> Zero]
  /\ UNCHANGED <<total, entry, pc, locals>>

\* map.clear(): whoever holds an Arc goes on counting in it, unseen.
ClearMap(c) ==
  /\ resetting[c] = "map"
  /\ resetting' = [resetting EXCEPT ![c] = "returned"]
  /\ entry' = [h \in Hosts |-> None]
  /\ UNCHANGED <<total, metrics, pc, locals>>

--------------------------------------------------------------------------------
Record(r) ==
  \/ End(r) \/ CountGlobal(r) \/ CountGlobalError(r) \/ GetHostMetrics(r)
  \/ CountHost(r) \/ CountHostError(r) \/ CountBucket(r) \/ LoadSum(r) \/ SwapSum(r)

Reset(c) == ResetRequests(c) \/ ResetErrors(c) \/ ClearMap(c)

Next ==
  \/ \E r \in Requests : Record(r)
  \/ \E c \in Resets : Reset(c)

Spec == Init /\ [][Next]_vars

--------------------------------------------------------------------------------
\* Properties

Quiet == \A r \in Requests : pc[r] \in {"sent", "done"}
NeverReset == \A c \in Resets : resetting[c] = "idle"
Recorded == {r \in Requests : pc[r] = "done" /\ Fails[r] # "transport"}

\* What a scrape shows of host h: zero if it has no entry.
Shown(h) == IF entry[h] = None THEN Zero ELSE metrics[entry[h]]

\* What the requests R, recorded once each and whole, come to.
Tally(R) ==
  [requests |-> Cardinality(R),
   errors   |-> Cardinality({r \in R : IsError(r)}),
   counts   |-> [b \in Buckets |-> Cardinality({r \in R : Elapsed[r] <= b})],
   sum      |-> MapThenSumSet(LAMBDA r : Elapsed[r], R)]

\* When nobody is recording, and unless there was a reset, the counters tell
\* exactly what happened: no request, latency or histogram sample was lost to
\* another thread or counted twice, and the buckets are cumulative.
CountersAddUp ==
  Quiet /\ NeverReset =>
    /\ total.requests = Cardinality(Recorded)
    /\ total.errors = Cardinality({r \in Recorded : IsError(r)})
    /\ \A h \in Hosts : Shown(h) = Tally({r \in Recorded : Host[r] = h})

\* A reset beside recording requests drops some of them from a host's metrics,
\* but whole: once the recordings are over, what a host shows is what some set
\* of its requests comes to, so that its buckets, its +Inf and its sum agree.
HistogramsStayWhole ==
  Quiet =>
    \A h \in Hosts :
      \E R \in SUBSET {r \in Recorded : Host[r] = h} : Shown(h) = Tally(R)

\* The exposition's own words: lkrequest_errors_total is the number of failed
\* HTTP requests.
ErrorsTotalCountsFailures ==
  Quiet /\ NeverReset =>
    total.errors = Cardinality({r \in Requests : pc[r] = "done" /\ Fails[r] # "no"})
================================================================================
