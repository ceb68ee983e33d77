------------------------- MODULE SharedConnectionProofs -------------------------
(***************************************************************************)
(* Proofs about SharedConnection for any set of overlapping operations.    *)
(***************************************************************************)
EXTENDS SharedConnection, TLAPS

\* The slot is empty exactly when somebody was entitled to empty it.
SlotIsHonest == shared <=> ~Ended

SInv == ConnectionTypeOK /\ SlotIsHonest

--------------------------------------------------------------------------------
LEMMA Initially == ConnectionInit => SInv
BY DEF ConnectionInit, SInv, ConnectionTypeOK, Stages, SlotIsHonest, Ended, Succeeded

\* The only steps that end the connection or empty the slot are those of ReleaseSlot,
\* which do both.
LEMMA TypeStep == ConnectionTypeOK /\ [ConnectionNext]_connectionVars => ConnectionTypeOK'
<1> SUFFICES ASSUME ConnectionTypeOK, [ConnectionNext]_connectionVars PROVE ConnectionTypeOK'
  OBVIOUS
<1> USE MethodAssumption
<1>1. ASSUME NEW o \in Ops, Call(o) PROVE ConnectionTypeOK'
  BY <1>1 DEF Call, Goto, ConnectionTypeOK, Stages
<1>2. ASSUME NEW o \in Ops, Open(o) PROVE ConnectionTypeOK'
  BY <1>2 DEF Open, Goto, ConnectionTypeOK, Stages
<1>3. ASSUME NEW o \in Ops, Send(o) \/ Recv(o) \/ SendClose(o) \/ Anext(o) PROVE ConnectionTypeOK'
  BY <1>3 DEF Send, Recv, SendClose, Anext, Goto, ConnectionTypeOK, Stages
<1>4. ASSUME NEW o \in Ops, ReleaseSlot(o) PROVE ConnectionTypeOK'
  BY <1>4 DEF ReleaseSlot, Goto, ConnectionTypeOK, Stages
<1>5. ASSUME NEW o \in Ops, CancelOp(o) PROVE ConnectionTypeOK'
  BY <1>5 DEF CancelOp, Goto, ConnectionTypeOK, Stages
<1>6. CASE WireDown
  BY <1>6 DEF WireDown, ConnectionTypeOK
<1>7. CASE UNCHANGED connectionVars
  BY <1>7 DEF connectionVars, ConnectionTypeOK
<1> QED  BY <1>1, <1>2, <1>3, <1>4, <1>5, <1>6, <1>7 DEF ConnectionNext, RunsOp

LEMMA SlotStep == SInv /\ [ConnectionNext]_connectionVars => SlotIsHonest'
<1> SUFFICES ASSUME SInv, [ConnectionNext]_connectionVars PROVE SlotIsHonest'
  OBVIOUS
<1> USE MethodAssumption DEF SInv, ConnectionTypeOK, Stages, SlotIsHonest, Ended, Succeeded, Goto
<1>1. ASSUME NEW o \in Ops, Call(o) PROVE SlotIsHonest'
  BY <1>1 DEF Call
<1>2. ASSUME NEW o \in Ops, Open(o) PROVE SlotIsHonest'
  BY <1>2 DEF Open
<1>3. ASSUME NEW o \in Ops, Send(o) \/ Recv(o) \/ SendClose(o) \/ Anext(o)
      PROVE  SlotIsHonest'
  BY <1>3 DEF Send, Recv, SendClose, Anext
<1>4. ASSUME NEW o \in Ops, ReleaseSlot(o) PROVE SlotIsHonest'
  <2>1. op'[o] = "stopped" \/ (op'[o] = "ok" /\ Method[o] = "close")
    BY <1>4 DEF ReleaseSlot
  <2> QED  BY <1>4, <2>1 DEF ReleaseSlot
<1>5. ASSUME NEW o \in Ops, CancelOp(o) PROVE SlotIsHonest'
  BY <1>5 DEF CancelOp
<1>6. CASE WireDown
  BY <1>6 DEF WireDown
<1>7. CASE UNCHANGED connectionVars
  BY <1>7 DEF connectionVars
<1> QED  BY <1>1, <1>2, <1>3, <1>4, <1>5, <1>6, <1>7 DEF ConnectionNext, RunsOp

LEMMA Always == ConnectionSpec => []SInv
<1>1. SInv /\ [ConnectionNext]_connectionVars => SInv'
  BY TypeStep, SlotStep DEF SInv
<1> QED  BY <1>1, Initially, PTL DEF ConnectionSpec

--------------------------------------------------------------------------------
(* The theorems. *)

\* Types, and which stages the operations of each kind can reach.
THEOREM TypeCorrect == ConnectionSpec => []ConnectionTypeOK
BY Always, PTL DEF SInv

\* A close() that was refused or failed leaves the connection in place
\* (SharedConnection::release comes last).
THEOREM FailedCloseIsHarmless == ConnectionSpec => []FailedCloseKeepsIt
<1>1. SInv => FailedCloseKeepsIt
  BY DEF SInv, SlotIsHonest, FailedCloseKeepsIt
<1> QED  BY <1>1, Always, PTL

\* Nothing gets hold of a connection that is over (open, get).
THEOREM OverIsOver == ConnectionSpec => NothingStartsOnceOver
<1> DEFINE Over == Ended => \A o \in Ops : op'[o] = "running" => op[o] = "running"
<1>1. SInv /\ [ConnectionNext]_connectionVars => [Over]_connectionVars
  <2> SUFFICES ASSUME SInv, ConnectionNext, Ended, NEW p \in Ops, op'[p] = "running"
               PROVE  op[p] = "running"
    BY DEF connectionVars
  <2> USE DEF SInv, ConnectionTypeOK, Stages, SlotIsHonest, Goto
  <2>1. ASSUME NEW o \in Ops, Call(o) \/ Open(o) PROVE op[p] = "running"
    BY <2>1 DEF Call, Open
  <2>2. ASSUME NEW o \in Ops, Send(o) \/ Recv(o) \/ SendClose(o) \/ Anext(o)
        PROVE  op[p] = "running"
    BY <2>2 DEF Send, Recv, SendClose, Anext
  <2>3. ASSUME NEW o \in Ops, ReleaseSlot(o) \/ CancelOp(o) PROVE op[p] = "running"
    BY <2>3 DEF ReleaseSlot, CancelOp
  <2>4. CASE WireDown
    BY <2>4 DEF WireDown
  <2> QED  BY <2>1, <2>2, <2>3, <2>4 DEF ConnectionNext, RunsOp
<1> QED  BY <1>1, Always, PTL DEF ConnectionSpec, NothingStartsOnceOver
================================================================================
