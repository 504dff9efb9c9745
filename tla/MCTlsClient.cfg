CONSTANTS
  HeaderCb = 2
  BodyCb <- BodySizes
  Suites = {"tls12_rsa", "tls12_ecdhe", "tls13"}
  SplitHeaders = FALSE
  SplitTickets = FALSE
  MaxData = 1
SPECIFICATION FairSpec
INVARIANTS TypeOK Agreement KeysInSync HonestPeerIsAccepted
PROPERTIES StateAdvances HandshakeCompletes
CHECK_DEADLOCK FALSE
