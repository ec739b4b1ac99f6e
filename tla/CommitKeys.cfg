\* Idempotency keys on a catalog that honours them, over two runs on the
\* same table, which may exist before the first.
SPECIFICATION Spec
CONSTANTS
  StrictCAS = TRUE
  Keyed = TRUE
  MaxRivalCommits = 0
  MaxFaults = 1
  Create = FALSE
  Warmup = 1
  Iterations = 2
  Concurrency = 2
  Idempotency = TRUE
  MaxPerWriter = 2
  MaxRuns = 2
INVARIANTS
  OnlyWriterZeroReplays
  KeyLandsAtMostOnce
