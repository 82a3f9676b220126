CONSTANTS
  Clients = {c1, c2}
  Keys = {k1, k2}
  Bodies <- MCBodiesNoStale
  Enabled = TRUE
  MaxBytes = 3
  EntryMaxBytes = 3
  Ttl = 1
  StaleMax = 0
  MaxTime = 3
  MaxEvictions = 2
  NoEntry = NoEntry
SPECIFICATION Spec
INVARIANT BytesAccounted
PROPERTY EvictionsCounted
SYMMETRY ClientSymmetry
CHECK_DEADLOCK FALSE
