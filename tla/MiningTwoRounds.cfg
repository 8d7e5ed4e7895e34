CONSTANTS
  Inits = {i1, i2}
  Stops = {}
  Overlap = "all"
  Compat = {TRUE}
  None = None
SPECIFICATION Spec
INVARIANT AtMostOneRound
SYMMETRY Symmetry
CHECK_DEADLOCK FALSE
