\* Two calls of close(), and the registrations, race two requests of each session.
SPECIFICATION FairSpec
CONSTANTS
  r1 = r1  r2 = r2  h1 = h1  h2 = h2  m1 = m1  m2 = m2  c1 = c1  c2 = c2
  Requests = {r1, r2}
  Handles <- MCHandles
  RequestHooks = {h1}
  ResponseHooks = {h2}
  Middleware = {m1, m2}
  Closers = {c1, c2}
CHECK_DEADLOCK FALSE
INVARIANTS CloseLeavesNothing OnlyCloseAbandons HooksAreHeard
PROPERTIES NoMiddlewareAfterClose CloseSettles
