CONSTANTS
  Inits = {i1, i2, i3}
  Stops = {s1, s2}
  Overlap = "none"
  Compat = {TRUE, FALSE}
  None = None
SPECIFICATION FairSpec
INVARIANTS TypeOK AtMostOneRound MiningBehindGate RoundIsReachable CallbackLoopIsOwned
PROPERTIES StopEndsRound RefinesExclusiveGate
CHECK_DEADLOCK FALSE
