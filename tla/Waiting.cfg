CONSTANTS
  None = None
  Producers = {p1}
  Consumers = {c1, c2}
  Values = {v1}
  Capacity = 2
  MaxTickets = 3
  Waiters = {w1, w2}
  Tasks = {k1, k2, k3}
  Fibers = {f1, f2, f3}
  CWaiters = {w1, w2}
  CWorkers = {k1, k2}
  CStart = 2
  MostTimers = 4
  Delays = {1, 3}
  LastTick = 3
  HeapCap = 4
  Ovs = {o1}
  Fixed = 3
  Gaps = {1, 2, 7}
  Horizon = 14
  Posts = 3
  w1 = w1
  f1 = f1
SPECIFICATION Spec
INVARIANTS
  GroupWaitSound
  ListsKept
  AppSound
PROPERTIES
  EventuallyDequeued
  WaitsEnd
  EverythingFires
  CloseEnds
CHECK_DEADLOCK FALSE
