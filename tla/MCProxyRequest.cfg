CONSTANTS
  Requests = {r1, r2}
  Keys = {k1, k2}
  Cacheable = {r1, r2}
  RangeChoices = {TRUE, FALSE}
  Enabled = TRUE
  Ttl = 1
  StaleMax = 1
  MaxTime = 1
  NoEntry = NoEntry
  NoFlight = NoFlight
SPECIFICATION FairSpec
INVARIANT TypeOK
INVARIANT FlightOwnership
INVARIANT WaitersAreServed
INVARIANT AnswersMatchKey
PROPERTY RefinesSingleflight
PROPERTY AllAnswered
CHECK_DEADLOCK FALSE
