---------------------------- MODULE SharedConnection ----------------------------
(***************************************************************************)
(* websocket.rs: operations of many threads or tasks on one WebSocket.     *)
(*                                                                         *)
(* Each operation clones a handle out of the slot (open, get) and runs on  *)
(* it with no lock held; a close() that succeeded, and an iteration that   *)
(* ended, empty the slot (release).  The connection is upstream's: recv()  *)
(* may wait for ever, and its halves do not wait for each other.           *)
(***************************************************************************)
EXTENDS Naturals, FiniteSets

CONSTANTS Ops,     \* calls of send_text/send_binary, recv, close and __anext__
          Method,  \* which of them each is
          Async    \* whether it is a WsConnection, whose futures Python may cancel

ASSUME AsyncAssumption  == Async \in BOOLEAN
ASSUME MethodAssumption == Method \in [Ops -> {"send", "recv", "close", "next"}]

VARIABLES
  shared,  \* SharedConnection.slot is Some
  op,      \* how far each operation has got
  wire     \* the connection: up, closing (a close frame went out), or down

connectionVars == <<shared, op, wire>>

\* "got" is a next() that has received the end and not yet released, "sent" a
\* close() whose frame is out and that has not yet released.
Stages == {"new", "called", "running", "got", "sent",
           "ok", "failed", "stopped", "refused", "cancelled"}

ConnectionTypeOK ==
  /\ shared \in BOOLEAN
  /\ op \in [Ops -> Stages]
  /\ wire \in {"up", "closing", "down"}
  /\ \A o \in Ops :
       /\ op[o] = "sent" => Method[o] = "close"
       /\ op[o] \in {"got", "stopped"} => Method[o] = "next"
       /\ op[o] \in {"refused", "failed"} => Method[o] # "next"

ConnectionInit ==
  /\ shared = TRUE
  /\ op = [o \in Ops |-> "new"]
  /\ wire = "up"

--------------------------------------------------------------------------------
Goto(o, s) == op' = [op EXCEPT ![o] = s]

Call(o) ==
  /\ op[o] = "new"
  /\ Goto(o, "called")
  /\ UNCHANGED <<shared, wire>>

\* Mutant: one lock is held for as long as an operation runs.
OpenExclusively(o) ==
  /\ op[o] = "called"
  /\ \A p \in Ops : op[p] \notin {"running", "got", "sent"}
  /\ Goto(o, IF shared THEN "running"
             ELSE IF Method[o] = "next" THEN "stopped" ELSE "refused")
  /\ UNCHANGED <<shared, wire>>

\* open(): a handle, or the error of a closed connection; an iterator takes
\* get() instead, and ends.
Open(o) ==
  /\ op[o] = "called"
  /\ Goto(o, IF shared THEN "running"
             ELSE IF Method[o] = "next" THEN "stopped" ELSE "refused")
  /\ UNCHANGED <<shared, wire>>

\* A send does not touch the slot, whatever becomes of it.
Send(o) ==
  /\ op[o] = "running"
  /\ Method[o] = "send"
  /\ Goto(o, "failed") \/ (wire # "down" /\ Goto(o, "ok"))
  /\ UNCHANGED <<shared, wire>>

\* recv() hands over a message or an error; a Close message is a message.
Recv(o) ==
  /\ op[o] = "running"
  /\ Method[o] = "recv"
  /\ Goto(o, "failed") \/ (wire # "down" /\ Goto(o, "ok"))
  /\ UNCHANGED <<shared, wire>>

\* Mutant: the object's handle is dropped before the close frame is sent.
CloseReleasesFirst(o) ==
  /\ op[o] = "running"
  /\ Method[o] = "close"
  /\ shared' = FALSE
  /\ Goto(o, "failed") \/ (wire # "down" /\ Goto(o, "sent"))
  /\ wire' = IF op'[o] = "sent" THEN "closing" ELSE wire

\* close(): upstream may refuse it (a code that may not go on the wire) or fail.
SendClose(o) ==
  /\ op[o] = "running"
  /\ Method[o] = "close"
  /\ \/ Goto(o, "failed") /\ UNCHANGED wire
     \/ wire # "down" /\ Goto(o, "sent") /\ wire' = "closing"
  /\ UNCHANGED shared

\* __anext__: a message, or - on Close and on any error - the end.
Anext(o) ==
  /\ op[o] = "running"
  /\ Method[o] = "next"
  /\ Goto(o, "got") \/ (wire # "down" /\ Goto(o, "ok"))
  /\ UNCHANGED <<shared, wire>>

\* Mutant: an iteration that ends leaves the handle in place.
ReleaseAfterCloseOnly(o) ==
  /\ op[o] \in {"got", "sent"}
  /\ shared' = (shared /\ op[o] = "got")
  /\ Goto(o, IF op[o] = "sent" THEN "ok" ELSE "stopped")
  /\ UNCHANGED wire

\* shared.release(), and the operation returns.
ReleaseSlot(o) ==
  /\ op[o] \in {"got", "sent"}
  /\ shared' = FALSE
  /\ Goto(o, IF op[o] = "sent" THEN "ok" ELSE "stopped")
  /\ UNCHANGED wire

\* Python cancels an operation that is waiting: its handle is dropped, and a
\* close frame may have gone out without the slot being emptied.
CancelOp(o) ==
  /\ Async
  /\ op[o] \in {"called", "running"}
  /\ Goto(o, "cancelled")
  /\ wire' \in IF op[o] = "running" /\ Method[o] = "close" /\ wire = "up"
               THEN {"up", "closing"} ELSE {wire}
  /\ UNCHANGED shared

\* The peer, or the network, ends the connection.
WireDown ==
  /\ wire # "down"
  /\ wire' = "down"
  /\ UNCHANGED <<shared, op>>

--------------------------------------------------------------------------------
RunsOp(o) == Open(o) \/ Send(o) \/ SendClose(o) \/ ReleaseSlot(o)

ConnectionNext ==
  \/ \E o \in Ops : Call(o) \/ RunsOp(o) \/ Recv(o) \/ Anext(o) \/ CancelOp(o)
  \/ WireDown

ConnectionSpec == ConnectionInit /\ [][ConnectionNext]_connectionVars

\* Sending returns, received or not; a receive owes nothing.
FairConnection == ConnectionSpec /\ \A o \in Ops : WF_connectionVars(RunsOp(o))

--------------------------------------------------------------------------------
\* Properties

Succeeded(o) == Method[o] = "close" /\ op[o] = "ok"

Ended == \E o \in Ops : Succeeded(o) \/ op[o] = "stopped"

\* Once a close() has returned or an iteration has ended, no further operation
\* gets hold of the connection - not even one that was called before that and
\* scheduled only now.
NothingStartsOnceOver ==
  [][Ended => \A o \in Ops : op'[o] = "running" => op[o] = "running"]_connectionVars

\* The object lets go of a working connection only for a close() that got its
\* frame out or for an iteration that saw the end: after a close() that was
\* refused or failed one can still send, receive, and close again.
FailedCloseKeepsIt ==
  ~shared => Ended

UnderWay ==
  \E o \in Ops : Method[o] \in {"send", "close"} /\ op[o] \in {"called", "running", "sent"}

\* close() and send_*() return although a recv() waits for a message for ever: once
\* some are called there comes an instant at which none is left.
NobodyWaitsForARecv == UnderWay ~> ~UnderWay
================================================================================
