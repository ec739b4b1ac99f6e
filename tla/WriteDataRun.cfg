SPECIFICATION FairSpec
CONSTANTS
  StrictCAS = TRUE
  Keyed = FALSE
  MaxRivalCommits = 1
  MaxFaults = 2
  MaxOutages = 1
  ArgChoices <- MCArgChoices
  MaxRuns = 2
  Durations = {0, 1, 2}
INVARIANTS
  TypeOK
  NoDanglingReference
  NoRowTwice
  SamplesAreTheLog
  ReportedPercentiles
PROPERTIES
  RefinesFileTable
  Termination
