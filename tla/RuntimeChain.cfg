CONSTANTS
  Workers = {w1}
  Pools = {{w1}}
  Graphs <- InputSimOnly
  RootsCap = 2
  CounterMod = 8
  MaxAhead = 1
  TargetFrames = 2
SPECIFICATION RSpec
INVARIANTS
  ChainReaction
CHECK_DEADLOCK FALSE
