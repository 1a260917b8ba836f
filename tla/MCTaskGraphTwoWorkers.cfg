SPECIFICATION Spec
CONSTANTS
  NumWorkers = 2
  Deque = {0, 1}
  Main = 2
  Thread = {0, 1, 2}
  Node = {1, 2}
  NoNode = 0
  Pool <- Pool2
  DequeCap = 2
  QueueCap = 2
  Lane = {"physics"}
  Preferred <- OneLane
  MaxSuccessors = 2
  CounterMod = 8
  MaxCreates = 2
  MaxEdges = 1
  MaxResets = 0
  MaxSetups = 1
  LiveCreates = FALSE
  MaxIndex = 2
PROPERTY KeepsPromise
CHECK_DEADLOCK FALSE
