\* One run of the benchmark under strict optimistic concurrency, with one
\* commit of another client and two faults.
SPECIFICATION FairSpec
CONSTANTS
  StrictCAS = TRUE
  Keyed = FALSE
  MaxRivalCommits = 1
  MaxFaults = 2
  Create = TRUE
  Warmup = 1
  Iterations = 1
  Concurrency = 2
  Idempotency = FALSE
  MaxPerWriter = 2
  MaxRuns = 1
INVARIANTS
  TypeOK
  LandsAtMostOnce
  SamplesOfAnOwnTableAreCommits
  ConflictsHaveWinners
  OneLateCommitPerWriter
PROPERTY
  Termination
