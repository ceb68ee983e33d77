----------------------------- MODULE MCHeldObjects -----------------------------
(* Instances of HeldObjects for TLC. *)
EXTENDS HeldObjects, TLC

CONSTANTS close1, close2, recv1, next1, send1, s1, s2, g1, g2, g3, a, b

MCMethod ==
  (close1 :> "close") @@ (close2 :> "close")
    @@ (recv1 :> "recv") @@ (next1 :> "next") @@ (send1 :> "send")
================================================================================
