SPECIFICATION ErrorSpec
CONSTANTS
  h1 = h1
  h2 = h2
  h3 = h3
  Hosts = {h1, h2, h3}
  SourceLimit = 2
  MaxMessageBytes = 2
  MaxMessages = 2
  MaxBytes = 3
  AnySource = FALSE
  AllowList <- MCAllowList
  Datagrams <- MCDatagrams
  MaxDatagrams = 3
  Mtus <- MCMtus
INVARIANTS
  Accounting
  PerSourceAccounting
  BytesExact
  InOrder
  RetryContract
  StatusCoherent
  StopHonoured
  AtMostOneLookup
  ErrorTold
PROPERTIES
  ImplementsPromise
CHECK_DEADLOCK FALSE
