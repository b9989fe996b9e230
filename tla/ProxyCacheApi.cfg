SPECIFICATION Spec
CONSTANTS
  Threads = {t1, t2}
  Urls = {"u1", "u2"}
  Buckets = {1, 2}
  hash_url <- MCHash
  Nodes = {n1, n2}
  Inodes = {i1, i2}
  NULL = NULL
  Sizes = {1}
  Overhead <- MCOverhead
  DiskThreshold = 0
  DefaultAge = 2
  Ages <- MCAges
  Limits <- FixedLimits
  Policies = {"LRU", "LFU", "TTL"}
  DiskOutcomes = {"none", "ok", "left"}
  Directories <- MCDirectories
  ApiCalls = TRUE
  MaxTime = 1
  MaxAccess = 2
SYMMETRY Symmetry
INVARIANTS Agreement NoOrphanFiles
