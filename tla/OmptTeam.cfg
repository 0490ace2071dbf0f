SPECIFICATION Spec
CONSTANTS
  outerRegion = outerRegion
  innerRegion = innerRegion
  Workers = {"worker"}
  ParallelCodes = {outerRegion, innerRegion}
  WorkCodes = {"loop", "ownloop"}
  MaskedCodes = {"masked"}
  Addressed = {"ownloop"}
  EnabledEvents <- AllKinds
  MpiMode = "TRACING"
  NestedBy = {"master"}
  MaxDepth = 7
  MaxConstructs = 4
  MaxSwitches = 2
SYMMETRY RegionSymmetry
INVARIANTS
  RecordsMatch
  ContextRestored
  MasterEventsPair
  
  StackDrained
  MasterCountsOutermost
