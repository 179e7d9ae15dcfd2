CONSTANTS
  None = None
  N = 2
  MaxPushes = 3
  Jobs <- ThreeJobs
  Qos <- SomeQos
  High <- SomeHigh
  Child <- SomeChild
SPECIFICATION FairSpec
INVARIANTS
  IInv
  NoLostWakeup
PROPERTIES
  StopReturns
CHECK_DEADLOCK FALSE
