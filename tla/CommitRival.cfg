\* One run on a table that another client commits to once.
SPECIFICATION Spec
CONSTANTS
  StrictCAS = TRUE
  Keyed = FALSE
  MaxRivalCommits = 1
  MaxFaults = 0
  Create = TRUE
  Warmup = 0
  Iterations = 1
  Concurrency = 1
  Idempotency = FALSE
  MaxPerWriter = 1
  MaxRuns = 1
INVARIANT
  SequentialSamplesAreCommits
