SPECIFICATION Spec
CONSTANTS
  Jobs = 3
  Workers = 2
  Nodes = 2
  JobBlocks = 1
  TensorBlocks = 1
  MaxLoads = 1
  EagerDestroy = TRUE
  None = None
  Zeros = Zeros
  Garbage = Garbage
INVARIANTS
  NoUseAfterDestroy
CHECK_DEADLOCK FALSE
