SPECIFICATION Spec
CONSTANTS
  NumWorkers = 1
  Deque = {0}
  Main = 1
  Thread = {0, 1}
  Node = {1, 2, 3, 4}
  NoNode = 0
  Pool <- Pool4
  DequeCap = 1
  QueueCap = 2
  Lane = {"physics"}
  Preferred <- OneLane
  MaxSuccessors = 2
  CounterMod = 8
  MaxCreates = 4
  MaxEdges = 1
  MaxResets = 1
  MaxSetups = 1
  LiveCreates = TRUE
  MaxIndex = 2
INVARIANTS
  AtMostOnce
  FreeNodesAreIdle
PROPERTY
  WaitMeansDone
CHECK_DEADLOCK FALSE
