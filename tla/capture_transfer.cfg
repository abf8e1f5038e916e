SPECIFICATION FairSpec
CONSTANTS
  Tab = {t1, t2}
  Url <- MCUrl
  Chunks = 2
  MaxAttempts = 2
  MaxDeaths = 1
  MaxFaults = 1
INVARIANT ProgressHasOwner
PROPERTY CaptureEnds
CHECK_DEADLOCK FALSE
