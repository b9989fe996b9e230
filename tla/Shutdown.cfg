SPECIFICATION FairSpec
CONSTANTS
  Workers = {"w1"}
  Loggers = {"w1"}
  Signals = {"SIGINT", "SIGTERM"}
  Signo <- MCSigno
  InfoLogged = {TRUE}
  rotation_enabled = TRUE
  max_file_size_mb = 1
  MbLines = 1
  IntRange = 8
  MaxLines = 2
  NULL = NULL
INVARIANTS LogKept
PROPERTIES SignalEnds
CHECK_DEADLOCK FALSE
