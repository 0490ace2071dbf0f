SPECIFICATION Spec
CONSTANTS
  Bits = 4
  WordBits = 4
  Domains <- TwoDomains
  Installed <- OneInstalled
  StartingMode <- AllTracing
  PolicyDomains = {"mpi"}
  Deferred = {}
  AllUnits <- UnitsTo4
  Regions <- TwoRegions
  TableSize = 3
  KnobTable = 2
  Files <- FewFiles
  Edits <- SomeEdits
  Envs <- BothEnvs
  MaxLoads = 1
CHECK_DEADLOCK FALSE
INVARIANT HashInEffect
