CONSTANTS
  Workers = {w1}
  Pools = {{w1}}
  Graphs <- SomeFrames
  RootsCap = 2
  CounterMod = 8
  MaxAhead = 2
  TargetFrames = 3
SPECIFICATION RFairSpec
INVARIANTS
  Backpressure
  RootsInBounds
  FrameCounterMatches
PROPERTIES
  StopJoins
CHECK_DEADLOCK FALSE
