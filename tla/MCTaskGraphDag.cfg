SPECIFICATION FairSpec
CONSTANTS
  NumWorkers = 1
  Deque = {0}
  Main = 1
  Thread = {0, 1}
  Node = {1, 2, 3}
  NoNode = 0
  Pool <- Pool3
  DequeCap = 2
  QueueCap = 2
  Lane = {"physics"}
  Preferred <- OneLane
  MaxSuccessors = 2
  CounterMod = 8
  MaxCreates = 3
  MaxEdges = 2
  MaxResets = 0
  MaxSetups = 2
  LiveCreates = FALSE
  MaxIndex = 5
INVARIANT BatchInv
PROPERTIES
  KeepsPromise
  OnlyLossBlocksWait
CHECK_DEADLOCK FALSE
