CONSTANTS
  Parts = {"graph"}
  w1 = w1
  w2 = w2
  w3 = w3
  Workers <- ThreeWorkers
  Pools <- One
  Graphs <- NaturalChain
  RootsCap = 2
  CounterMod = 8
  Main = m
  Owner = w
  Others = {t1, t2}
  Envs <- SoundEnvs
  Capacity = 2
  MaxItems = 3
  MaxInFlight = 2
SPECIFICATION PartSpec
INVARIANTS
  AtMostOnce
CHECK_DEADLOCK FALSE
