\* The collector finds the handle of a request that is in flight.
SPECIFICATION Spec
CONSTANTS
  r1 = r1  r2 = r2  h1 = h1  h2 = h2  m1 = m1  m2 = m2  c1 = c1  c2 = c2
  Requests = {r1, r2}
  Handles <- MCHandles
  RequestHooks = {h1}
  ResponseHooks = {h2}
  Middleware = {m1, m2}
  Closers = {c1}
CHECK_DEADLOCK FALSE
INVARIANT OpenSessionsAreHeard
