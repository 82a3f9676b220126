CONSTANTS
  Requests = {r1, r2}
  FetchKinds <- MCFetchKinds
  Details = {"Blocked", "TooManyRedirects", "StatusError", "DownloadSemaphoreError"}
  MaxSends <- MCMaxSends
  MaxSweeps = 2
SPECIFICATION Spec
INVARIANT NothingLost
INVARIANT LedgersAgree
CONSTRAINT OneBesideSweep
SYMMETRY Symmetry
CHECK_DEADLOCK FALSE
