SPECIFICATION Spec
CONSTANTS
  MaxOutages = 2
  ArgChoices <- MCArgChoices
  NoCacheIters = 2
  WarmIters = 2
  MaxRuns = 4
  JvmIters = 4
  Durations = {0, 1, 2}
INVARIANTS
  TypeOK
  PhasesScanTheSameRows
  ScansTheDatasetAskedFor
  EnginesScanTheDataset
  OnlyFaultsFail
  JvmIsBestCase
