CONSTANTS
  Jobs = {j1, j2}
  Chats = {c1, c2}
  Blocks = {b1, b2, b3}
  Need = 2
  InPlace = {b1, b2}
  MaxPolls = 1
  Chunks = 2
  MayFail = {}
  CancelAt = {"borrow"}
  None = None
SPECIFICATION Spec
INVARIANT NoSilentLeak
SYMMETRY Symmetry
CHECK_DEADLOCK FALSE
