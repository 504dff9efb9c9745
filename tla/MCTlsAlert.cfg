CONSTANTS
  HeaderCb = 2
  BodyCb <- BodySizes
  Suites = {"tls12_rsa", "tls12_ecdhe", "tls13"}
  SplitHeaders = FALSE
  SplitTickets = FALSE
  MaxData = 0
SPECIFICATION Spec
PROPERTY AlertIsReported
CHECK_DEADLOCK FALSE
