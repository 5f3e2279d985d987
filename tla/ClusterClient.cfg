SPECIFICATION Spec
CONSTANTS
  h1 = h1
  h2 = h2
  h3 = h3
  h4 = h4
  c1 = c1
  c2 = c2
  NoHost = NoHost
  NoCert = NoCert
  Hosts <- MCHosts
  ManagerIp = h1
  Certs = {c1}
  ServerCert <- OneCA
  ProfileCert = c1
  Configs <- ListsWithOneCA
INVARIANTS
  TypeOK
  NodesKept
  OfflineMeansAllContacted
  NoHostTriedTwice
  FreshCopyPerAttempt
  FailoverRecorded
  ActiveManagerFound
PROPERTIES
  ImplementsService
