SPECIFICATION Spec
CONSTANTS
  Jobs = 3
  Workers = 2
  Nodes = 2
  JobBlocks = 1
  TensorBlocks = 1
  MaxLoads = 1
  EagerDestroy = FALSE
  None = None
  Zeros = Zeros
  Garbage = Garbage
INVARIANTS
  MemoryExact
  AnsweredByModel
PROPERTY AcceptedAnswered
CHECK_DEADLOCK FALSE
