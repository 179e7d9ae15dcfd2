CONSTANTS
  Parts = {"graph", "deque"}
  w1 = w1
  w2 = w2
  w3 = w3
  Workers <- ThreeWorkers
  Pools <- UpToThree
  Graphs <- RootsLast
  RootsCap = 2
  CounterMod = 8
  Main = m
  Owner = w
  Others = {t1, t2}
  Envs <- SoundEnvs
  Capacity = 2
  MaxItems = 3
  MaxInFlight = 2
SPECIFICATION PartFairSpec
INVARIANTS
  TopologicalOrder
  CounterMatches
  NothingLost
PROPERTIES
  ImplementsOrder
  EventuallyAllRun
  PopFalseMeansEmpty
  ImplementsDeque
CHECK_DEADLOCK FALSE
