SPECIFICATION Spec
CONSTANTS
  MaxConns = 2
  max_clients = 1
  sem_permits = 2
  Fds = {f1, f2, f3, f4}
  IPv6Conns = {1}
  Hosts = {"good", "bad"}
  Paths = {"/", "/bad"}
  Addrs = {"public", "denied"}
  Resolve <- MCResolve
  Requests <- MixedRequests
  enable_auth = TRUE
  FilterLists <- TwoLists
  AclDenies = TRUE
  ThreadFails = TRUE
  NULL = NULL
SYMMETRY Symmetry
INVARIANTS CheckedBeforeServed FetchAvoidsDenied
CHECK_DEADLOCK FALSE
