SPECIFICATION Spec
CONSTANTS
  f = f
  g = g
  h = h
  def = def
  MaxNumTraces = 1
  TracingRate = 1
  Codes = {f, g, h}
  Configs <- OneConfig
  ConfigOf <- ToDefault
  Cap <- DefCap
  StartsAt <- FromTheStart
  Rate <- DefRate
  TriggerAll = {}
  Disabled = {}
  Generators = {g}
  MaxLexgions = 2
  MaxDepth = 2
  MaxFrames = 3
  MaxCalls = 4
  MaxSwitches = 1
  MaxCycles = 1
SYMMETRY Symmetry
INVARIANTS
  LiveRecordsKept
  CycleCap
  FreshCount
