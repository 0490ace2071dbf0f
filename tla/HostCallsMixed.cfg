SPECIFICATION Spec
CONSTANTS
  Vendors = {"HIP", "CUDA"}
  Kernels = {"k"}
  Kinds = {"HtoD", "DtoH"}
  Sites = {"s"}
  MpiCalls = {"MPI_Wait", "MPI_Finalize"}
  Devices = {0, 1}
  MaxNumTraces = 2
  TracingRate = 1
  Codes <- SomeRegions
  Configs <- Default
  ConfigOf <- ToDefault
  Cap <- DefCap
  StartsAt <- FromTheStart
  Rate <- DefRate
  TriggerAll = {}
  Disabled = {}
  MaxLexgions = 2
  MaxDepth = 2
  MaxCalls = 3
  MaxSwitches = 2
INVARIANTS
  RecordsBalance
  
 
