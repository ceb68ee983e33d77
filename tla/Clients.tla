---------------------------------- MODULE Clients ----------------------------------
(***************************************************************************)
(* Clients and pools of them.  A pool takes clients that are made and only *)
(* copies them, so making one (ClientSetup) and handing them out           *)
(* (ClientPool) are considered one at a time.                              *)
(***************************************************************************)
EXTENDS ClientSetup

CONSTANTS Members, MaxClients, Width

\* A usize counts to more than one.
ASSUME WidthAssumption == Width \in Nat /\ Width > 1

VARIABLES subject, strategy, clients, index, turns

Pool == INSTANCE ClientPool

poolVars == <<strategy, clients, index, turns>>
allVars == <<subject, vars, poolVars>>

\* What the other one is like makes no difference.
AllInit ==
  /\ \/ /\ subject = "setup"
        /\ strategy = "random" /\ clients = <<CHOOSE c \in Members : TRUE>>
     \/ /\ subject = "pool"
        /\ args = CHOOSE given \in Arguments : TRUE
  /\ Init /\ Pool!Init

Setups == subject = "setup" /\ Next /\ UNCHANGED <<subject, poolVars>>
Pools  == subject = "pool" /\ Pool!Next /\ UNCHANGED <<subject, vars>>

AllNext == Setups \/ Pools

AllSpec == AllInit /\ [][AllNext]_allVars

\* A rotation passes nobody over.
EveryClientInTurn == Pool!EveryClientInTurn
====================================================================================
