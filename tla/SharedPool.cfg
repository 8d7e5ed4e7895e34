SPECIFICATION Spec
CONSTANTS
  c1 = c1
  c2 = c2
  b1 = b1
  b2 = b2
  b3 = b3
  None = None
  Chats <- MCChats
  Prompt <- MCPrompt
  Blocks <- MCBlocks
  InPlace <- MCInPlace
  Need = 2
  MaxRounds = 1
  MaxForwards = 2
  Chunks = 2
  Unsure = {"forward", "borrow", "reset"}
INVARIANTS TypeOK OnlyNewcomersAreOverwritten LeaseIsPrivate CacheIsCleanWhenQuiet
CHECK_DEADLOCK FALSE
SYMMETRY Symmetry
