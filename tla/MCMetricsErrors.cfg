\* One of three requests fails in the transport.
SPECIFICATION Spec
CONSTANTS
  ra = ra  rb = rb  rc = rc  reset1 = reset1
  Requests = {ra, rb, rc}
  Host <- MCTwoHosts
  Elapsed <- MCElapsed
  Buckets <- MCBuckets
  Fails <- MCTransportFails
  Resets = {}
CHECK_DEADLOCK FALSE
INVARIANT ErrorsTotalCountsFailures
