SPECIFICATION RelaySpec
CONSTANTS
  max_bytes = 2
  MaxLength = 7
  Responses <- MCResponses
INVARIANTS NoOverrun BlockedBodyWithheld BlockedNotCached
CHECK_DEADLOCK FALSE
