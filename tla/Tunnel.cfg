SPECIFICATION FairSpec
CONSTANTS
  Tunnels = {t1, t2}
  H2Clients = {t2}
  Hosts = {"a", "b"}
  host <- MCHost
  MaxSend <- MCMaxSend
  SendRoom = 1
  NULL = NULL
INVARIANTS CertAgreement NoGap LastWordsDelivered
PROPERTIES TunnelEnds
CHECK_DEADLOCK FALSE
