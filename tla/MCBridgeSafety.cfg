\* Two crossings, an asyncio drain and a blocking one, on one loop.
SPECIFICATION Spec
CONSTANTS
  t1 = t1  t2 = t2  d1 = d1  d2 = d2  l1 = l1  l2 = l2
  Tasks = {t1, t2}
  Drains = {d1, d2}
  Blocking = {d2}
  Loops = {l1}
  Home <- OneLoop
SYMMETRY TaskSymmetry
INVARIANTS TypeOK OwnershipFollowsTask GuardAccounting ZeroMeansSettled DrainDelivers NoLostWakeup
CHECK_DEADLOCK FALSE
