SPECIFICATION Spec
CONSTANTS
  StrictCAS = TRUE
  Keyed = FALSE
  MaxRivalCommits = 1
  MaxFaults = 1
  MaxOutages = 1
  ArgChoices <- MCArgChoices
  NoCacheIters = 2
  WarmIters = 2
  MaxRuns = 2
  Names = {1}
INVARIANTS
  ReadsOnlyItsOwn
