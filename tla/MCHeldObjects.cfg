\* Five operations on one WebSocket; or two callers, three guard objects and two
\* sessions of which one or both can be leased.
SPECIFICATION AllSpec
CONSTANTS
  close1 = close1  close2 = close2  recv1 = recv1  next1 = next1  send1 = send1
  s1 = s1  s2 = s2  g1 = g1  g2 = g2  g3 = g3  a = a  b = b
  None = None
  Ops = {close1, close2, recv1, next1, send1}
  Method <- MCMethod
  Async = TRUE
  Sessions = {s1, s2}
  Guards = {g1, g2, g3}
  Callers = {a, b}
INVARIANTS FailedCloseKeepsIt FreshIsFresh
PROPERTIES NothingStartsOnceOver NobodyWaitsForARecv MarksOwnLeaseOnly FreshReturns
