------------------------------ MODULE HeldObjects ------------------------------
(***************************************************************************)
(* The two Python objects that hold something of upstream's in an Option   *)
(* which overlapping operations empty: a WebSocket its connection          *)
(* (SharedConnection), a guard of a session pool its lease (SessionLease). *)
(* They share no state, so one of them is considered at a time.            *)
(***************************************************************************)
EXTENDS SharedConnection, SessionLease

VARIABLE object   \* which of them

allVars == <<object, connectionVars, vars>>

\* What the other one is like makes no difference.
AllInit ==
  /\ object \in {"connection", "guard"}
  /\ ConnectionInit /\ Init
  /\ object = "connection" => async /\ limit = 1

Connections(action) == object = "connection" /\ action /\ UNCHANGED <<object, vars>>
Leases(action)      == object = "guard" /\ action /\ UNCHANGED <<object, connectionVars>>

\* A WebSocket is over when its connection is down and nobody is at it any more.
OverAndDown ==
  /\ object = "connection"
  /\ wire = "down"
  /\ \A o \in Ops : op[o] \in {"ok", "failed", "stopped", "refused", "cancelled"}
  /\ UNCHANGED allVars

AllNext == Connections(ConnectionNext) \/ Leases(Next) \/ OverAndDown

\* The fairness of the two.
AllSpec ==
  /\ AllInit /\ [][AllNext]_allVars
  /\ \A o \in Ops : WF_allVars(Connections(RunsOp(o)))
  /\ \A c \in Callers : WF_allVars(Leases(Runs(c))) /\ SF_allVars(Leases(PoolGives(c)))
  /\ \A s \in Sessions : WF_allVars(Leases(PoolReplaces(s)))
  /\ \A g \in Guards : SF_allVars(Leases(DropGuard(g)))
================================================================================
