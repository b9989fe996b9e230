SPECIFICATION FairSpec
CONSTANTS
  MaxConns = 2
  max_clients = 2
  sem_permits = 1
  Fds = {f1, f2, f3}
  IPv6Conns = {1}
  Hosts = {"good", "bad"}
  Paths = {"/", "/bad"}
  Addrs = {"public", "denied"}
  Resolve <- MCResolve
  Requests <- MixedRequests
  enable_auth = TRUE
  FilterLists <- OneList
  AclDenies = TRUE
  ThreadFails = TRUE
  NULL = NULL
INVARIANTS PermitConservation OwnSocket NoDescriptorLeak GaugesCoverInFlight
PROPERTIES WorkerEnds
CHECK_DEADLOCK FALSE
