SPECIFICATION Spec
CONSTANTS
  t1 = t1
  t2 = t2
  h1 = h1
  h2 = h2
  h3 = h3
  Threads = {t1, t2}
  Hosts = {h1, h2, h3}
  ManagerIp = h1
  Cluster <- MCCluster
  MaxRequests = 1
INVARIANTS
  NoNodeLost
CHECK_DEADLOCK FALSE
