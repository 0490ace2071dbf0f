SPECIFICATION FairSpec
CONSTANTS
  t1 = t1
  t2 = t2
  def = def
  cp1 = cp1
  cp2 = cp2
  own1 = own1
  own2 = own2
  None = None
  Threads <- TwoThreads
  Main = t1
  Default = def
  Configs = {def}
  Copies = {}
  NumDomains = 1
  ActionOf <- CycleTimedOne
  ConfigOf <- AllDefault
  DomainOf <- FirstDomain
  MaxTraces = 1
  WindowTimeout = TRUE
  ManifestOn = FALSE
  EnergyOn = FALSE
  FileModes <- NoFile
  MpiInit = FALSE
  MaxRuns = 2
  MaxSignals = 0
  MaxDeadlines = 1
INVARIANTS
  TypeOK
  FiredCyclicIsOwed
  
  OpenWindowIsBounded
  BlockedIsPaused
PROPERTIES
  EndsLikeEndAction
  StopReturns
  BlockedResumes
  CyclesContinue
