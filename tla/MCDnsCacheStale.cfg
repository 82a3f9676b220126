SPECIFICATION Spec
CONSTANTS
  Callers = {c1, c2}
  Hosts = {h1}
  Permits = 2
  MaxEntries = 1
  Ttl = 1
  NegativeTtl = 1
  TimeoutTtl = 1
  StaleFactor = 2
  MaxTime = 2
  NoEntry = NoEntry
  NoFlight = NoFlight
PROPERTIES StaleKept
CHECK_DEADLOCK FALSE
