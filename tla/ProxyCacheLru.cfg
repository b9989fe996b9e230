SPECIFICATION Spec
CONSTANTS
  Threads = {t1, t2}
  Urls = {"u1", "u3"}
  Buckets = {1, 2}
  hash_url <- MCHash
  Nodes = {n1, n2, n3}
  Inodes = {i1}
  NULL = NULL
  Sizes = {0, 1}
  Overhead <- MCOverhead
  DiskThreshold = 0
  DefaultAge = 2
  Ages = {1}
  Limits <- ReloadLimits
  Policies = {"LRU"}
  DiskOutcomes = {"none", "left"}
  Directories <- NewDirectory
  ApiCalls = FALSE
  MaxTime = 2
  MaxAccess = 2
SYMMETRY Symmetry
INVARIANTS TypeOK Agreement SizeAccounted LruOrder NewestFirst LockHeldInside
PROPERTIES BoundedGrowth MaxAgeHonoured
