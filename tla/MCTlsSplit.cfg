CONSTANTS
  HeaderCb = 2
  BodyCb <- BodySizes
  Suites = {"tls12_rsa", "tls12_ecdhe", "tls13"}
  SplitHeaders = TRUE
  SplitTickets = TRUE
  MaxData = 1
SPECIFICATION Spec
INVARIANT HonestPeerIsAccepted
CHECK_DEADLOCK FALSE
