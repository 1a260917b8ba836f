SPECIFICATION MCSpec
CONSTANTS
  Deque = {d0}
  Thread = {t1, t2, t3}
  Node = {n1, n2, n3}
  NoNode = NoNode
  DequeCap = 2
  Owner = t1
  Pushers = {t1}
  MaxIndex = 4
  QueueCap = 2
  Items = {n1, n2}
  MaxEnqueues = 4
INVARIANTS
  ClientInv
  DequeConserves
  QueueInv
PROPERTIES
  ImplementsInbox
  HonestAnswers
SYMMETRY Symmetry
