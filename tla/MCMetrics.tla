-------------------------------- MODULE MCMetrics --------------------------------
(* Instances of Metrics for TLC: three requests with latencies under all
   buckets, some, and none. *)
EXTENDS Metrics, TLC

CONSTANTS ra, rb, rc, reset1

MCBuckets == {1, 4}
MCElapsed == (ra :> 1) @@ (rb :> 3) @@ (rc :> 9)
MCFails   == (ra :> "no") @@ (rb :> "status") @@ (rc :> "status")
MCTransportFails == (ra :> "no") @@ (rb :> "status") @@ (rc :> "transport")
MCSameHost == (ra :> "x") @@ (rb :> "x") @@ (rc :> "x")
MCTwoHosts == (ra :> "x") @@ (rb :> "x") @@ (rc :> "y")
================================================================================
