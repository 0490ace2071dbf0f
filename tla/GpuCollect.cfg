SPECIFICATION Spec
CONSTANTS
  Vendors = {"HIP", "CUDA"}
  Threads = {"main", "worker"}
  Main = "main"
  Actions <- WindowEnds
  FileModes = {"NONE", "OFF", "MONITORING", "TRACING"}
  FilePolicies = {"off", "rotate"}
  CallsFail = TRUE
  MaxChanges = 2
  MaxOps = 1
INVARIANTS
  
  
  CollectedIsEmitted
