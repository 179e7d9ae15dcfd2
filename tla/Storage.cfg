CONSTANTS
  Kinds = {"frame", "stack", "generic frame", "generic stack"}
  Capacity = 6
  Page = 3
  Sizes = {1, 2}
  Aligns = {1, 2}
  MaxFrames = 2
  Classes = {1, 2}
  Requests = {1, 2}
  BlocksPer = 2
  TlsSlots = 2
  Owner = t0
  Remotes = {t1, t2}
  Regions = {1, 2, 3}
  Amounts = {1, 2, 3}
  Limit = 5
  Granule = 1
  HashKeys = {k1, k2, k3}
  HashValues = {v1, v2}
  Slots = 4
  Elements = {e1, e2, e3, e4}
  BlockIds = {b1, b2}
  FirstCap = 1
  InitialCaps = {0, 3}
  Cells = 4
  CellValues = {v1, v2}
  Pieces <- TwoPieces
  SsoCap = 2
  Longest = 5
  Commands = {m1, m2, m3}
  CmdBuffers = {b1, b2}
  BufferCap = 2
  AggregatorCap = 3
  NodeCap = 3
  EdgeCap = 3
  MaxCalls = 4
SPECIFICATION Spec
INVARIANTS
  MemorySafe
  BlocksAccounted
  ElementsKept
  AppliedOnceInOrder
  InlineSound
PROPERTIES
  ImplementsDictionary
  ImplementsOrder
  ImplementsSequence
CHECK_DEADLOCK FALSE
