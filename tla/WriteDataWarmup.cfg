SPECIFICATION Spec
CONSTANTS
  StrictCAS = TRUE
  Keyed = FALSE
  MaxRivalCommits = 0
  MaxFaults = 0
  MaxOutages = 0
  ArgChoices <- MCArgChoices
  MaxRuns = 1
  Durations = {0}
INVARIANT
  WarmupCommits
