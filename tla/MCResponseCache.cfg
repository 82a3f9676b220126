CONSTANTS
  Clients = {c1, c2}
  Keys = {k1, k2, k3}
  Bodies <- MCBodies
  Enabled = TRUE
  MaxBytes = 2
  EntryMaxBytes = 3
  Ttl = 1
  StaleMax = 1
  MaxTime = 3
  MaxEvictions = 2
  NoEntry = NoEntry
SPECIFICATION Spec
INVARIANT TypeOK
INVARIANT WithinBudget
PROPERTY OldestEvictedFirst
PROPERTY RefinesCacheStore
SYMMETRY Symmetry
CHECK_DEADLOCK FALSE
