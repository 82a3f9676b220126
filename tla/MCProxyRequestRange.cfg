CONSTANTS
  Requests = {r1, r2}
  Keys = {k1}
  Cacheable = {r1, r2}
  RangeChoices = {TRUE, FALSE}
  Enabled = TRUE
  Ttl = 1
  StaleMax = 1
  MaxTime = 2
  NoEntry = NoEntry
  NoFlight = NoFlight
SPECIFICATION Spec
INVARIANT RangeBypassesCache
CHECK_DEADLOCK FALSE
