CONSTANTS
  NumBlocks = 6
  Groups <- MixedGroups
  MaxBatch = 2
  MaxSeq = 5
SPECIFICATION Spec
INVARIANTS LeaseOnly ReadsWhatItWrites SlotsDistinct LeaseFitsEveryGroup
CHECK_DEADLOCK FALSE
