SPECIFICATION FairSpec
CONSTANTS
  t1 = t1
  t2 = t2
  def = def
  cp1 = cp1
  cp2 = cp2
  own1 = own1
  own2 = own2
  None = None
  Threads <- TwoThreads
  Main = t1
  Default = def
  Configs = {def, own1, own2}
  Copies = {}
  NumDomains = 2
  ActionOf <- OwnActions
  ConfigOf <- TwoOwn
  DomainOf <- EachItsDomain
  MaxTraces = 1
  WindowTimeout = TRUE
  ManifestOn = TRUE
  EnergyOn = FALSE
  FileModes <- SilentFile
  MpiInit = TRUE
  MaxRuns = 1
  MaxSignals = 1
  MaxDeadlines = 2
INVARIANTS
  
  
  RequestsHaveToken
PROPERTY TimeoutEndsTracing
