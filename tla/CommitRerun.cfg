\* The program is killed or ends and is started again on the same table of a
\* catalog that may rebase a commit instead of refusing it, next to another
\* client of the table.
SPECIFICATION Spec
CONSTANTS
  StrictCAS = FALSE
  Keyed = FALSE
  MaxRivalCommits = 1
  MaxFaults = 1
  Create = TRUE
  Warmup = 0
  Iterations = 1
  Concurrency = 2
  Idempotency = FALSE
  MaxPerWriter = 1
  MaxRuns = 2
INVARIANTS
  CountedCommitsLanded
  ReportAccountsForLog
  OnlyFaultsFail
PROPERTY
  RefinesLedger
