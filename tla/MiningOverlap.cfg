CONSTANTS
  Inits = {i1, i2}
  Stops = {s1, s2}
  Overlap = "all"
  Compat = {TRUE, FALSE}
  None = None
SPECIFICATION FairSpec
INVARIANTS GateNotLatched RegisteredIsLiveOrCrashed
PROPERTIES EveryRequestIsAnswered
CHECK_DEADLOCK FALSE
