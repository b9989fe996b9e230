SPECIFICATION Spec
CONSTANTS
  Streams = {1, 3}
  Fds = {f1, f2}
  MaxChunks = 2
  MaxBody = 2
  HeadLen = 1
  NULL = NULL
SYMMETRY Symmetry
INVARIANTS CountCoversWaiting UpstreamOwned ExchangedOnce
CHECK_DEADLOCK FALSE
