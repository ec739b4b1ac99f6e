SPECIFICATION FairSpec
CONSTANTS
  StrictCAS = TRUE
  Keyed = FALSE
  MaxRivalCommits = 1
  MaxFaults = 2
  MaxOutages = 1
  ArgChoices <- MCArgChoices
  NoCacheIters = 2
  WarmIters = 2
  MaxRuns = 2
  Names = {1}
INVARIANTS
  TypeOK
  NoDanglingReference
  ReportAccountsForLog
  ReadsWhatItWrote
  OnlyFaultsFail
  OkIsOneSnapshot
PROPERTIES
  ReferencedFilesAreImmutable
  Termination
