CONSTANTS
  Main = m
  Owner = w
  Others = {t1, t2}
  Envs <- SchedulerEnvs
  Capacity = 2
  MaxItems = 3
  MaxInFlight = 2
SPECIFICATION Spec
INVARIANTS
  NothingLost
CHECK_DEADLOCK FALSE
