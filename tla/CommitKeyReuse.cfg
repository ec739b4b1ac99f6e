\* One run with --idempotency on a fresh table of a catalog that honours the
\* keys.
SPECIFICATION Spec
CONSTANTS
  StrictCAS = TRUE
  Keyed = TRUE
  MaxRivalCommits = 0
  MaxFaults = 0
  Create = TRUE
  Warmup = 0
  Iterations = 2
  Concurrency = 1
  Idempotency = TRUE
  MaxPerWriter = 1
  MaxRuns = 1
INVARIANT
  CountedCommitsLanded
