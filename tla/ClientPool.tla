-------------------------------- MODULE ClientPool --------------------------------
(***************************************************************************)
(* client_pool.rs: a pool hands its clients out in turn or at random.  One *)
(* mutex makes each operation a single step; the counter of the rotation   *)
(* is a usize, and wraps.                                                  *)
(***************************************************************************)
EXTENDS Naturals, Sequences, SequencesExt

CONSTANTS Members,      \* the clients there are
          MaxClients,   \* bound: clients in the pool
          Width         \* what a usize counts up to, exclusively

VARIABLES
  strategy,   \* "round_robin" or "random"
  clients,    \* the pool's clients
  index,      \* the counter of the rotation
  turns       \* history: whom the pool gave last, since it last grew or wrapped

vars == <<strategy, clients, index, turns>>

\* The constructor refuses an empty list and an unknown strategy.
Init ==
  /\ strategy \in {"round_robin", "random"}
  /\ clients \in {<<c>> : c \in Members}
  /\ index = 0
  /\ turns = <<>>

Remember(i) ==
  LET longer == Append(turns, i)
  IN  turns' = IF index' < index THEN <<>>
               ELSE IF Len(longer) > Len(clients) THEN Tail(longer) ELSE longer

\* Mutant: the counter is brought into range when it is stored, from one too few.
AcquireInTurnShort ==
  /\ strategy = "round_robin"
  /\ index' = IF Len(clients) = 1 THEN 0 ELSE (index + 1) % (Len(clients) - 1)
  /\ turns' = LET longer == Append(turns, (index % Len(clients)) + 1)
              IN  IF Len(longer) > Len(clients) THEN Tail(longer) ELSE longer
  /\ UNCHANGED <<strategy, clients>>

AcquireInTurn ==
  /\ strategy = "round_robin"
  /\ index' = (index + 1) % Width
  /\ Remember((index % Len(clients)) + 1)
  /\ UNCHANGED <<strategy, clients>>

AcquireAtRandom ==
  /\ strategy = "random"
  /\ turns' \in {<<i>> : i \in DOMAIN clients}
  /\ UNCHANGED <<strategy, clients, index>>

Add(c) ==
  /\ Len(clients) < MaxClients
  /\ clients' = Append(clients, c)
  /\ turns' = <<>>
  /\ UNCHANGED <<strategy, index>>

Next == AcquireInTurn \/ AcquireAtRandom \/ \E c \in Members : Add(c)

Spec == Init /\ [][Next]_vars

\* A rotation passes nobody over: as many acquires in a row as there are clients
\* give each of them once, from wherever the counter stood when the pool last grew.
\* (When the counter wraps, the rotation may jump.)
EveryClientInTurn ==
  strategy = "round_robin" => \A i, j \in DOMAIN turns : turns[i] = turns[j] => i = j
================================================================================
