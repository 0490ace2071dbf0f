SPECIFICATION Spec
CONSTANTS
  Size = 2
  Hints <- SomeHints
  EnvRanks = {TRUE, FALSE}
  EnvSizes <- SomeSizes
  MeasureEnvs <- NoMeasureEnv
  Files <- SomeFiles
  MaxEdits = 2
  MaxSlots = 2
CHECK_DEADLOCK FALSE
INVARIANTS
  OneWinner
  SomeoneWins
  SpansPair
  
