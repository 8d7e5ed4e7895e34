CONSTANTS
  Jobs = {j1, j2}
  Chats = {c1}
  Blocks = {b1, b2, b3}
  Need = 2
  InPlace = {b1, b2}
  MaxPolls = 1
  Chunks = 2
  MayFail = {"probe", "borrow", "forward", "return"}
  CancelAt = {"lockWait", "reAbort", "forward"}
  None = None
SPECIFICATION FairSpec
INVARIANTS OnlyTheHolderWorks NoSilentLeak BusyMeansInference
PROPERTY EveryJobGetsThrough
CHECK_DEADLOCK FALSE
