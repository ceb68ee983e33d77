--------------------------- MODULE MCSessionLifecycle ---------------------------
(* Instances of SessionLifecycle for TLC. *)
EXTENDS SessionLifecycle

CONSTANTS r1, r2, h1, h2, m1, m2, c1, c2

\* A Session without middleware, one with, a BlockingSession, and one with two.
MCHandles ==
  {[kind |-> (r1 :> "buffered") @@ (r2 :> "streaming"), blocking |-> FALSE,
    chain |-> <<>>],
   [kind |-> (r1 :> "buffered") @@ (r2 :> "connect"), blocking |-> FALSE,
    chain |-> <<m1>>],
   [kind |-> (r1 :> "buffered") @@ (r2 :> "connect"), blocking |-> TRUE,
    chain |-> <<m1>>],
   [kind |-> (r1 :> "connect") @@ (r2 :> "streaming"), blocking |-> TRUE,
    chain |-> <<m1, m2>>]}
================================================================================
