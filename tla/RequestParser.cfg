SPECIFICATION Spec
CONSTANTS
  Keys <- MCKeys
  Values <- MCValues
  HeaderLines <- MCHeaderLines
  RequestLines <- MCRequestLines
  MaxLines = 3
  MaxRequests = 2
  Rooms = {0, 21, 22, 40}
  DEFAULT_NHDRS = 2
  Numeral <- MCNumeral
  TraceId <- MCTraceId
  NULL = NULL
INVARIANTS TableInBounds FreedOnce ForwardedHeaders UnparseFits
PROPERTIES HeaderMapImplemented
CHECK_DEADLOCK FALSE
