SPECIFICATION MemorySpec
CONSTANTS
  Thread = {t1, t2}
  BlockCount = 3
  Null = Null
  TagMod = 4
  Caller = {t1, t2}
  Capacity = 8
  MinAlign = 2
  Sizes = {1, 3}
  Aligns = {3, 4}
  MaxBlocks = 4
INVARIANTS
  PoolInv
  NoBlockTwice
  NoBlockLost
  CountExact
  BlocksDisjoint
  HighWaterExact
  StackDisjoint
PROPERTY ImplementsStack
SYMMETRY Symmetry
