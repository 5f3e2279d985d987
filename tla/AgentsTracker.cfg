SPECIFICATION Spec
CONSTANTS
  d1 = d1
  d2 = d2
  d3 = d3
  t1 = t1
  t2 = t2
  None = None
  Deployments = {d1, d2, d3}
  Trackers = {t1, t2}
INVARIANTS
  TrackerInv
  ResultIsTrue
PROPERTIES
  CommandEnds
CHECK_DEADLOCK FALSE
