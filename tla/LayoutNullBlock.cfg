CONSTANTS
  NumBlocks = 3
  Groups <- SplitGroup
  MaxBatch = 2
  MaxSeq = 3
SPECIFICATION Spec
INVARIANT NullBlockUntouched
CHECK_DEADLOCK FALSE
