SPECIFICATION Spec
CONSTANTS
  Workers = {w1, w2}
  Contents <- MCContents
  Domains <- MCDomains
  Urls <- MCUrls
  Ips <- MCIps
  ContentTypes <- MCContentTypes
  Users <- MCUsers
  Credentials <- MCCredentials
  Leftovers <- MCLeftovers
  Lower <- MCLower
  Width = 3
  Width6 = 4
  ByteBits = 2
  MaxEntries = 4
  MaxCreds = 9
  MaxEdits = 2
  Skip = Skip
  Junk = Junk
  NULL = NULL
SYMMETRY Symmetry
INVARIANTS VerdictExact NoChangeLost AuthExact
CHECK_DEADLOCK FALSE
