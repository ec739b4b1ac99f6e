SPECIFICATION Spec
CONSTANTS
  StrictCAS = TRUE
  Keyed = FALSE
  MaxRivalCommits = 1
  MaxFaults = 0
  MaxOutages = 0
  ArgChoices <- MCArgChoices
  NoCacheIters = 1
  WarmIters = 1
  MaxRuns = 1
  Names = {1}
INVARIANTS
  AcceptedCommits
