\* A reset beside three requests to one host that record themselves at once.
SPECIFICATION Spec
CONSTANTS
  ra = ra  rb = rb  rc = rc  reset1 = reset1
  Requests = {ra, rb, rc}
  Host <- MCSameHost
  Elapsed <- MCElapsed
  Buckets <- MCBuckets
  Fails <- MCFails
  Resets = {reset1}
CHECK_DEADLOCK FALSE
INVARIANTS CountersAddUp HistogramsStayWhole
