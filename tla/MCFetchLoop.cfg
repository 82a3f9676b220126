SPECIFICATION FairLoopSpec
CONSTANTS
  Urls = {u1, u2, u3}
  MaxRedirects = 2
  Timeout = 3
  RetryDelay = 1
  SendTimes = {0, 1, 3}
  MaxElapsed = 8
INVARIANTS LoopTypeOK CheckedBeforeSent WholeImageAskedFor FailureRecorded
PROPERTIES Ends
CHECK_DEADLOCK FALSE
