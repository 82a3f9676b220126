SPECIFICATION HandlersFairSpec
CONSTANTS
  Requests = {r1, r2, r3}
  MaxDownloads = 2
  Budget = 2
  Cpus = 1
  Needs = {1, 2, 3}
INVARIANTS TypeOK PermitsAccounted ImageThreadsBounded DownloadsNotHeldByEncoding
PROPERTIES AnsweredInTime AnsweredInOrder
CHECK_DEADLOCK FALSE
