SPECIFICATION Spec
CONSTANTS
  Threads = {t1, t2}
  Urls = {"u1", "u2"}
  Buckets = {1, 2}
  hash_url <- MCHash
  Nodes = {n1, n2}
  Inodes = {i1}
  NULL = NULL
  Sizes = {1}
  Overhead <- MCOverhead
  DiskThreshold = 9
  DefaultAge = 2
  Ages = {1}
  Limits <- FixedLimits
  Policies = {"LRU"}
  DiskOutcomes = {"none"}
  Directories <- NewDirectory
  ApiCalls = FALSE
  MaxTime = 0
  MaxAccess = 2
INVARIANTS ServedEntryLive
