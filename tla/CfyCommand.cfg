SPECIFICATION CfySpec
CONSTANTS
  mine = mine
  other = other
  d1 = d1
  d2 = d2
  host = host
  extra = extra
  m1 = m1
  a1 = a1
  b1 = b1
  b2 = b2
  b3 = b3
  c1 = c1
  k1 = k1
  v1 = v1
  v2 = v2
  s1 = s1
  s2 = s2
  p1 = p1
  p2 = p2
  db = db
  r1 = r1
  ma = ma
  mb = mb
  x1 = x1
  x2 = x2
  x3 = x3
  n1 = n1
  n2 = n2
  q1 = q1
  q2 = q2
  e1 = e1
  e2 = e2
  NoPath = NoPath
  Tenants = {mine, other}
  CurrentTenant = mine
  NodesOf <- MCNodesOf
  PageSize = 2
  Inventories <- MCInventoriesKept
  Requests <- MCRequests
  UploadTimeout = 2
  UploadLatency = 1
  MaxUploadEvents = 2
  LookupAttempts = 3
  Hosts = {m1}
  Agents = {a1}
  InstallTimeouts = {0, 3}
  PollLatency = 1
  Blueprints = {b1, b2, b3}
  TenantNumber <- MCTenantNumber
  InitialLists <- MCInitialLists
  UpdatePageSize = 2
  MaxDeletions = 1
  Shells = {s1, s2}
  Keys = {k1}
  Values = {v1, v2}
  AnyValue = AnyValue
  InitialLabels <- MCInitialLabels
  MaxLabelWrites = 3
  NodeNames <- MCNodeNames
  Certs = {c1}
  NoCert = NoCert
  Members <- MCMembers
  KindOf <- MCKindOf
  StatusAttempts = 3
  Cmds = {s1, s2}
  LocalBlueprints = {p1, p2}
  DeploymentRuns <- MCDeploymentRuns
  RunsPerPage = 2
  MaxDeleteEvents = 3
  ModeTimeouts = {0, 4}
  ModeLatency = 1
  ModeSleep = 2
  MaxOthers = 2
  Users = {s1, s2}
  Rules = {v1, v2}
  NoRule = AnyValue
  MaxScheduleCalls = 3
  Saved = {n1, n2}
  KeyPaths = {q1, q2}
  Contents = {e1, e2}
  NoFile = NoFile
  HalfFile = HalfFile
  Beginnings <- MCBeginnings
  MaxChanges = 1
  MaxTransfers = 3
  Versions = {v1, v2}
  MaxLocalCommands = 3
INVARIANTS
  FilterInv
  UploadInv
  InstallInv
  UpdateInv
  FlowInv
  LabelInv
  AuthInv
  ClusterInv
  CertInv
  MigrationInv
  EventsInv
  MaintenanceInv
  ScheduleInv
  ArchiveInv
  LocalInv
PROPERTIES
  CommandReturns
CHECK_DEADLOCK FALSE
