SPECIFICATION Spec
CONSTANTS
  b1 = b1
  b2 = b2
  Browsers = {b1, b2}
  MaxFlows = 2
  MaxSessions = 1
  MaxLogouts = 1
  FlowSeconds = 1
  SessionSeconds = 2
  LogoutSeconds = 1
  TicksPerSecond = 2
  ProviderTicks = 1
  MaxLogins = 3
  MaxTime = 5
PROPERTIES
  ProviderLogoutOffered
CHECK_DEADLOCK FALSE
