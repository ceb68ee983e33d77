\* A drain on one loop while another loop of the process has a crossing.
SPECIFICATION Spec
CONSTANTS
  t1 = t1  t2 = t2  d1 = d1  d2 = d2  l1 = l1  l2 = l2
  Tasks = {t1, t2}
  Drains = {d1}
  Blocking = {}
  Loops = {l1, l2}
  Home <- TwoLoops
INVARIANT DrainTrueMeansAllDone
CHECK_DEADLOCK FALSE
