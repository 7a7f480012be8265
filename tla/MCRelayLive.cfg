SPECIFICATION FairSpec
CONSTANTS
  h1 = h1
  h2 = h2
  h3 = h3
  Hosts = {h1, h2, h3}
  SourceLimit = 2
  MaxMessageBytes = 2
  MaxMessages = 2
  MaxBytes = 3
  AnySource = FALSE
  AllowList <- MCAllowList
  Datagrams <- MCFewDatagrams
  MaxDatagrams = 2
  Mtus <- MCMtus
PROPERTIES
  StopCompletes
  NoneStuck
CHECK_DEADLOCK FALSE
