CONSTANTS
  Jobs = {1, 2, 3}
  Urls = {1, 2}
  Stops = {s1, s2}
  Size <- FirstIsLarge
  Cap = 3
  Posts = 1
  MaxRetries = 1
  CbCap = 1
  Overlap = FALSE
  None = None
SPECIFICATION FairSpec
INVARIANTS TypeOK CapCounts StoppedIsQuiet
PROPERTIES EveryStopEnds RefinesJobStore EveryJobSettles EveryCallbackSettles
CHECK_DEADLOCK FALSE
