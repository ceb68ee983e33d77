\* Two crossings, an asyncio drain, on one loop, under fairness.
SPECIFICATION FairSpec
CONSTANTS
  t1 = t1  t2 = t2  d1 = d1  d2 = d2  l1 = l1  l2 = l2
  Tasks = {t1, t2}
  Drains = {d1}
  Blocking = {}
  Loops = {l1}
  Home <- OneLoop
PROPERTIES DrainReturns ImplementsContract
CHECK_DEADLOCK FALSE
