SPECIFICATION FairSpec
CONSTANTS
  Callers = {c1, c2}
  Hosts = {h1, h2}
  Permits = 1
  MaxEntries = 1
  Ttl = 1
  NegativeTtl = 1
  TimeoutTtl = 1
  StaleFactor = 2
  MaxTime = 1
  NoEntry = NoEntry
  NoFlight = NoFlight
INVARIANTS TypeOK FlightsOwned PermitsAccounted EntriesBounded
PROPERTIES ReplacementSurvives Resolved
CHECK_DEADLOCK FALSE
