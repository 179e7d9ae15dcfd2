CONSTANTS
  Positions = {0, 1}
  Shifts = {1}
  MaxEntities = 3
  MaxCommands = 2
  Faults = {"entities", "generations", "archetype", "storage", "row"}
  MaxFaults = 3
  VfsCap = 3
  Aliases <- SomeAliases
  Roots = {"r1", "r2"}
  Managed = 1
  Versions = 5
  SortValues = {0, 1, 2, 3}
  LongestSlice = 5
  StackPairs = 1
  Base = 2
  WordMod = 4
  Centers <- SomeCentres
  MostPrims = 5
  Lens = {0, 3, 4, 8, 9, 13, 15}
  LaneKernelSet <- EveryKernel
  LaneInputs <- SquareLanes
  Linear <- SomeLinear
  Offsets <- SomeOffsets
  Units <- SomeUnits
  BoxPairs <- SomeBoxes
  Extent = 6
SPECIFICATION Spec
INVARIANTS
  PathsAgree
CHECK_DEADLOCK FALSE
