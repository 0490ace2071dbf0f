SPECIFICATION Spec
CONSTANTS
  Vendors = {"HIP"}
  Kernels = {"k"}
  Kinds = {"HtoD", "DtoH"}
  Sites = {"s", "t"}
  MpiCalls = {"MPI_Wait", "MPI_Finalize"}
  Devices = {0, 1}
  MaxNumTraces = 2
  TracingRate = 1
  Codes <- SomeRegions
  Configs <- Default
  ConfigOf <- ToDefault
  Cap <- DefCap
  StartsAt <- FromTheStart
  Rate <- DefRate
  TriggerAll = {}
  Disabled = {}
  MaxLexgions = 1
  MaxDepth = 2
  MaxCalls = 4
  MaxSwitches = 2
INVARIANT OverflowSkips
