# Formal verification of catalog-commit-bench

catalog-commit-bench measures Iceberg REST catalogs: how fast they commit, how
fast files are written and read around those commits, and how two engines
compare on the same files. Its results are numbers in reports, so the questions
asked here are of one kind: **does a number that is printed mean what the
documentation says it means**, when writers run side by side, answers are lost,
commits conflict, programs are killed and started again, and every run shares
its table, its bucket and its idempotency keys with the runs before it.

The directory holds TLA+ modules for the programs of the repository and the two
services they talk to, TLC configurations that check them on small instances,
and proofs, checked by TLAPS, of all safety properties, action properties and
refinements that the runs check, for every value of the constants. Paths below
are relative to the repository's root.

## 1. The system

| Component | Source | State it keeps | Operations |
|---|---|---|---|
| commit benchmark | `crates/commit/src/main.rs` | loop index, latency samples, the writers' counters `n`, the shared atomics `ok` and `conflict`, the deadline | create namespace and table, load the table's uuid, commit (warmup, series, concurrent writers), report |
| write benchmark | `crates/write-data/src/main.rs` | loop index, durations of PUTs and commits | table setup, warmup PUTs, PUT then commit per iteration, report |
| round-trip benchmark | `crates/read-write/src/main.rs` | loop index, durations, conflicts, one Foyer cache, the threshold, matched rows | stock client, table setup, PUT then commit per file, threshold, three read passes |
| cache scan benchmark | `crates/cache-scan/src/main.rs` | one listing of the dataset, one Foyer cache, totals per phase | ensure bucket, ensure dataset, three scan phases |
| engine comparison | `crates/rust-vs-jvm/src/main.rs` | sessions, one Foyer cache, scanned rows per phase | three Rust phases, a Spark phase that may be gated |
| its Spark side | `crates/rust-vs-jvm/run-spark.sh`, `spark-query.py` | one session with one listing, timed queries | cold query, warm queries, median and p95, one result line |
| stock append probe | `crates/read-write/stock-append-probe.py` | a table named by the clock | config, namespace, drop, create, append, scan, one result line |
| suite driver | `crates/driver/src/main.rs` | the outcomes so far | run one, run all, parse a report, exit code |
| common library | `crates/common/src/lib.rs` | none | report type, percentile, throughput, configuration |
| scripts, containers | `*.sh`, `docker*` | none of their own | start the above |
| catalog (external) | called over HTTP; `RESULTS.md` describes it | the metadata pointer and its log, idempotency records | commit: validate, swap, answer |
| object store and cache (external) | through `object_store` and `sail_object_store` | objects | PUT, GET, list; read through a cache |

**How they interact.** The driver spawns the benchmarks as child processes and
reads their stdout. The benchmarks never call each other, but they share state:
the commit, write and round-trip benchmarks share a table with earlier runs of
themselves and with other clients; write, round-trip and cache scan leave files
under a prefix that nothing empties; the engine comparison reads what the cache
scan wrote, or what the round-trip benchmark wrote when both were given one
`--prefix` (its files have the same names and rows). Inside the commit benchmark, `--concurrency` tasks share two atomic
counters and one deadline.

**What is hard here.** Concurrent writers against optimistic concurrency;
requests that outlive the process that sent them; answers lost after the work
was done; idempotency keys that are built from a counter; state that is left
behind by a killed run and taken over by the next one; a cache that is never
invalidated; results that are discarded (`commit` returns a `bool` that two
callers drop); a driver whose only view of a child is its exit code and its
text. `PROJECT.json` lists each of these hazards at its line with the property
that covers it, or says why none does.

**What makes each component correct.**

* commit: the published count is a count of pointer moves, each counted once;
  samples are commits; conflicts have a winner; the deadline binds; it ends.
* write, round-trip: a commit never names a file that is not in the bucket, nor
  one whose rows change afterwards; a report accounts for the commits; the rows
  read are the rows written; only a request that failed ends a run early.
* stock probe: an ok stands for one append to a table of the probe's own.
* cache scan, engine comparison: phases that are compared have done the same
  work, on the dataset that was asked for; the figures given for Spark are not
  computed to its disadvantage.
* driver: the exit code says whether there is a result, the order of the
  benchmarks respects their dependencies, a report that was printed is found,
  every benchmark asked for gets an outcome.
* common library: a percentile is a sample of the rank it stands for.

## 2. The modules

| Module | Models | Composes |
|---|---|---|
| `IcebergCatalog` | the catalog and the network to it (external) | |
| `CommitBench` | `crates/commit` | extends `IcebergCatalog` |
| `CommitLedger` | what the commit benchmark promises, abstractly | refined by `CommitBench` |
| `CommitBenchProofs`, `CommitReportProofs` | theorems about `CommitBench`: calls, keys and the ledger; what the report says | extend `CatalogProofs` |
| `CatalogProofs` | lemmas about `IcebergCatalog` | |
| `Warehouse` | bucket and Foyer cache (external) | |
| `Stats` | `percentile` of `crates/common`, the median and percentile of `spark-query.py` | |
| `StatsProofs` | theorems about `Stats`: ranks, sorting, percentiles | |
| `FileTable` | what a table over files promises, abstractly | refined by `WriteData` |
| `WriteData`, `MCWriteData` | `crates/write-data` | extends `IcebergCatalog`, `Warehouse`, `Stats` |
| `WriteDataProofs` | theorems about `WriteData` | extends `CatalogProofs`, `StatsProofs` |
| `StockProbe` | `stock-append-probe.py` and the call of it | extends `IcebergCatalog`, `Warehouse` |
| `ReadWrite`, `MCReadWrite` | `crates/read-write` | extends `StockProbe` |
| `ReadWriteProofs` | theorems about `ReadWrite` and `StockProbe` | extends `CatalogProofs` |
| `CacheScan` | `crates/cache-scan`, its actions | extends `Warehouse` |
| `EngineCompare`, `MCEngineCompare` | `crates/rust-vs-jvm` with its Spark side, and its composition with the cache scan and the write loop of the round-trip benchmark | extends `CacheScan`, `Stats` |
| `EngineCompareProofs` | theorems about `EngineCompare` and `CacheScan` | extends `StatsProofs` |
| `Driver`, `MCDriver` | `crates/driver` with its children as black boxes | |
| `DriverProofs` | theorems about `Driver` | |

`PROJECT.json` maps every definition that models code to its lines.

### IcebergCatalog

A request is in `requests` when it has arrived, in `reading` when it has been
validated against a version of the table, and gone when it is answered. `log` is
the metadata-pointer log: the sequence of calls that moved the pointer, and the
ground truth for every claim about commits. `StrictCAS` says whether the swap
fails when the version has moved (LakeCat) or the catalog may rebase the commit
(the others, for a commit that sets properties); `Keyed` whether idempotency
keys are honoured. `Disconnect` loses a request or only its answer, `ServerError`
answers with a 5xx, `RivalCommit` is another client of the table. `HangUp` ends
the connections of a killed process and leaves its requests.

### CommitBench

| In the model | In the code |
|---|---|
| `create_namespace`, `create_table`, `load_table_uuid` | the functions of that name; 409 is success; any failure ends the program, with the work done or not |
| `WarmupCommit/Returns/Done`, `SequentialCommit/Returns/Done` | the two loops of `main`; `Ok(false)` is a sample, `Err` leaves `main` |
| `CheckDeadline(w)`, `WriterCommit(w)`, `WriterReturns(w)` | one round of a writer task: `while now < deadline`, `n += 1` and the request, the `match` on its result |
| `Tick` | the deadline passes |
| `Report` | all tasks joined, the counters read, the report printed |
| `Crash`, `StartAgain` | the process is killed at any point; the program is started on the same table |

A call is a record `[run, phase, w, n]`; `n` is the counter given to
`Catalog::commit` and all that its `Idempotency-Key` holds besides the table's
uuid. `counted` and `late` are history variables: the calls that `ok` counts and
those issued after the deadline. No action of the code reads them.

### Warehouse, WriteData, ReadWrite

A file's content is the set of row ids it holds. A PUT is in `uploads` until it
lands, which may be after the process that sent it has died; a failed PUT may
have landed. A scan through the cache sees the cached content of a file it has
read before. `WriteData` and `ReadWrite` follow `main` and `run` statement by
statement, one action per request and one per answer. `--create` of the write
benchmark is a switch whose default is on, so its table is always created. Each
start chooses its `--warmup`, `--iterations` and `--rows` anew (`args`): two
starts with different `--rows` write different rows under one file name, which
is why `FileTable` has `agreed`: its promise about contents binds as long as all
writers so far agree on what a file of a name holds. The
threshold of the read passes is a scan of its own (`filter_threshold`): if a PUT
lands between it and the passes, what matches is open. `rows` stands for `--rows` and `--row-group` together:
both determine a file's content.

`StockProbe` is the probe's `main()` with `SHIM=0`, one action per request, and
runs as the first steps of `ReadWrite`. Its failures are counted with `faults`
and `outages`; an old catalog may refuse the client without a fault. The append
is one step, because nobody else commits to the probe's table. A probe whose
parent is killed is taken to die with it.

### Stats

Durations are natural numbers and ranks are computed on integers:
`(p / 100.0) * (len - 1.0)` is half an integer in floating point exactly when it
is one as a rational. `Rank0` rounds half up as `f64::round` does, `round` half
to even as Python does. `sorted` gives each sample its place: after the smaller
ones and after the equal ones recorded before it. `NearestRank` and `HasRank` are the reference: what the
comment on `percentile` names, and what it means for a sample to have a rank.

### CacheScan, EngineCompare

`CacheScan` has the actions of the cache scan, file by file. A listing gives
each file a size; sizes are a function of the rows, so the listing holds the rows
and `Decodes` says when the size given to the Parquet reader fits. In
`EngineCompare` one of three programs runs at a time, in any order, over one
prefix: the cache scan, the engine comparison, and the round-trip benchmark, of
which only the write loop matters here. A query of the engine comparison is one
step, so a PUT lands before or after it; its filter drops the same few rows for
both engines and is left out. Either listing of the cache scan may fail
(`list_fails`). The Rust side lists the prefix anew for
each query; Spark lists it once (`read_parquet`), reports the rows of its cold
query and times the others (`run_once`), and may be gated at any step. Whether DataFusion keeps a listing from one
query of a session to the next is the library's affair; what is checked holds of
datasets whose set of files no longer changes, where it makes no difference.

### Driver

A child is a set of ways to end (`ChildEnds`): its clap arguments, the services
and the bucket it needs, the dataset it needs or leaves, and what is on its
stdout. All benchmarks of the registry are Ready, so skipping a scaffold is dead
code and left out, and so are `list` and the summary, which only print. The flags
are `--base-url` and `--create`: a commit benchmark that is not told to create its
table ends with an error where there is none (`no_table`). A child
may die or never be spawned; that it exits at all is the fairness assumed of it.

## 3. What the runs check

| Run | Question | Distinct states |
|---|---|---|
| `commit_writers` | one run, two writers, strict catalog, a rival, two faults: is a commit landed once, do samples and conflicts mean what they say, does the deadline bind, does it end | 812 260 |
| `commit_rerun` | a run killed anywhere and started again on a rebasing catalog next to a rival: do the published counts account for the log, does anything but a failed request end a run, is the ledger refined | 1 668 258 |
| `commit_keys` | idempotency keys over two runs: what may be a replay, is a key applied once | 945 592 |
| `commit_key_reuse` | (violation) are counted commits commits with `--idempotency` | |
| `commit_rival` | (violation) are the sequential samples commits when the table has another client | |
| `write_data` | two runs with equal or different arguments, faults and a rival: dangling references, double rows, samples and percentiles, is the table of files refined, does it end | 258 549 |
| `write_data_warmup` | (violation) does the warmup commit | |
| `read_write` | two runs with any arguments, stock client included: dangling references and files that change, conflicts, rows read, what ends a run, does it end | 866 586 |
| `read_write_stale` | (violation) does a run read only its own files | |
| `read_write_accepted` | (violation) are the commits that the report calls accepted accepted | |
| `engine_compare` | four runs of the three programs: same work per phase, right dataset, what ends a run, Spark's figures | 662 681 |
| `driver_run` | every command line and every state of the world: exit code, order, flags that suit all, an outcome for every benchmark | 268 872 |

Every property of a passing run has a mutant in `PROJECT.json`: a plausible bug
in a modelled definition with which TLC finds the property violated. The mutated
forms stand in the modules next to the definitions they would replace.

### The properties

* `LandsAtMostOnce`, `KeyLandsAtMostOnce`: no call and no key moves the pointer
  twice, with orphaned requests of a killed run still in flight.
* `CountedCommitsLanded`, `ReportAccountsForLog` (commit): `ok` counts distinct
  calls that landed; a published report claims no more than the log holds and
  misses at most one landed commit per fault.
* `SamplesOfAnOwnTableAreCommits`: although the bool is dropped, on one's own
  fresh table every latency sample is a commit.
* `ConflictsHaveWinners`: a commit turns at most one request of each other
  writer into a 409, which bounds the conflict rate.
* `OneLateCommitPerWriter`: the check before each commit lets one through late.
* `OnlyWriterZeroReplays`: where the key ranges overlap, and nowhere else.
* `RefinesLedger`: the whole benchmark implements `CommitLedger`.
* `Termination` (commit, write, round-trip): every run fails or reports; a commit
  that fails or conflicts neither hangs nor repeats.
* `OnlyFaultsFail` (commit, round-trip, scans): as long as no request fails,
  nothing ends a program early: not the namespace, table, files, requests or PUTs
  that a killed run has left, not a rival, not another program on the prefix.
* `NoDanglingReference`: the catalog names no file that the bucket lacks.
* `ReferencedFilesAreImmutable` (round-trip), `RefinesFileTable` (write): runs
  write the same file names again and again, and the files that landed commits
  name still keep their rows, as long as all runs were given the same arguments
  (write: the same `--rows`; how many files each wrote does not matter). With
  another `--rows` the rows under a referenced name do change.
* `NoRowTwice`: the files of write-data, the warmup's included, have no row in
  common, whatever runs wrote them with the same `--rows`. A run with another
  value leaves files whose rows overlap with the earlier ones.
* `SamplesAreTheLog`: what the dropped bool leaves true of the samples of
  write-data. In every run the table has moved at least once for each, because
  only a commit that landed in between makes the catalog refuse one; in the first
  run on a table of its own they are the log, in order.
* `ReportedPercentiles`: for all durations of the bound, the p50 and p95 of a
  report are samples, at most one rank away from the nearest-rank percentile.
* `OkIsOneSnapshot`: an ok of the stock client is its own append, although its
  table's name may be taken and the failure to drop that table is ignored.
* `ReportAccountsForLog` (round-trip), `ReadsWhatItWrote`: landed commits are
  files minus conflicts; runs with equal arguments read exactly what they wrote,
  even when a killed run's PUT lands among the read passes.
* `PhasesScanTheSameRows`, `ScansTheDatasetAskedFor`, `EnginesScanTheDataset`:
  what is compared is the same work on the dataset asked for; for Spark that
  holds of the queries it times, whose rows nobody looks at.
* `JvmIsBestCase`: for the same durations, Spark's median and p95 are no worse
  than the figures that the Rust phases would get.
* `EveryBenchGetsAnOutcome`: the driver ends with one outcome for each benchmark
  it was asked for, in order, whatever does not spawn, fails or dies.
* `SuccessMeansAReport`, `CompareFindsDataset`: what a caller of the driver
  relies on. `RunAllMeetsARefusal`: what it cannot rely on, since no flags suit
  all five benchmarks.

### What the violations show

1. `commit_key_reuse`: the sequential phase and writer 0 use the same counters,
   hence the same keys (`crates/commit/src/main.rs:211, 272, 299-301`). A catalog
   that honours the keys replays, and `ok` counts commits that never happened.
2. `commit_rival`: a 409 in the sequential phase is a latency sample
   (`crates/commit/src/main.rs:274`).
3. `read_write_stale`: the read passes scan the files of a larger run before.
4. `read_write_accepted`: the notes say that all files are accepted commits,
   with the conflicts at hand (`crates/read-write/src/main.rs:488, 801`).
5. `write_data_warmup`: the warmup "(writes + commits, not measured)" of the write
   benchmark only writes (`crates/write-data/src/main.rs:290-298`); its first
   measured commit is the first commit of the process.

Other disagreements that the models have and no run is spent on:

* "`run all` runs all five" (`README.md:42-43`), but it passes one set of flags to
  all, `commit` requires `--base-url`, and `cache-scan` and `rust-vs-jvm` do not
  know it. `RunAllMeetsARefusal` states, and `driver_run` checks, what happens
  instead.
* The write benchmark drops the bool of `commit_file` as the sequential phase of
  the commit benchmark does (`crates/write-data/src/main.rs:322`): with another
  client on the table a 409 is a sample of `catalog-commit`, whose notes speak of
  commits. `SamplesAreTheLog` says what remains true.
* "stray lines don't break us" (`crates/driver/src/main.rs:240-241`), but a brace
  on stdout besides the report's does, such as what the aws CLI prints that
  `cache-scan` calls: `parse_report` then finds no report.
* "(matched)" (`crates/rust-vs-jvm/src/main.rs:371`) is a literal. A PUT of a
  killed program that lands between the last Rust phase and Spark's listing makes
  the counts differ, if no writer of the dataset has finished yet or another
  size was asked for; `EnginesScanTheDataset` is about all other cases.
* "Number of Parquet files to write / scan" (`crates/cache-scan/src/main.rs:55`):
  on a prefix with more files than that all are scanned (`:205, 233`), which is
  why `ScansTheDatasetAskedFor` needs `SameSizes`.

### Bounds, and why they are enough

* Commit: two writers are the least that conflict, and each gets to one or two
  commits before the deadline (`MaxPerWriter`), so that a counter is used after
  another; a third writer repeats the second. Two sequential commits make writer
  0's first key one that was used. Two runs are the least with an orphaned
  request. Faults (`MaxFaults`) are one or two: a lost answer, and a second one
  for the other writer. `WarmupBase` and `WriterStride` keep their values.
* Round-trip: two files, so that there is a first and a last commit; the choices
  of `MCReadWrite` add a dataset with fewer, larger files and the single row that
  no threshold matches. `Names` holds one name, so that every probe meets the
  table of the probe before it; a name that is free is the first run's case.
* Write: the choices of `MCWriteData` are four iterations, so that an even number
  of samples has two in the middle, with more warmups than that, so that a loop
  index that is not reset shows; fewer files of the same rows, so that a later run
  writes a part of an earlier one's files; and larger files, so that the runs
  disagree about what a file holds.
* One rival commit (`MaxRivalCommits`) is enough for a conflict that the program's
  own writers do not cause.
* `Durations` has three values, so that samples can be equal, smaller and larger;
  `JvmIters` is four for the same reason as the iterations.
* Cache scan: two files are the least that can be half-written; three runs are
  the least in which one run is killed, one takes over what it left and one
  compares, and a fourth lets two writers be killed before that. `MCEngineCompare`
  adds a second size, so that late PUTs can replace a file by a different one: one
  file of one row, the dataset that no threshold matches.
* Driver: all five benchmarks; two mishaps; the flag sets a user would type.
* `MaxRivalCommits`, `MaxOutages` and `MaxTrouble` bound other clients, failing
  requests to the store, and mishaps of the driver's world.

### Fairness

`commit_writers`, `read_write`, `write_data` and `driver_run` check liveness. The
fairness is weak, per process. In the commit benchmark `main` and each writer are
tasks of one multi-threaded runtime, which polls a task that can go on; the clock
advances, so the deadline passes. The write and the round-trip benchmark are one
task each. The catalog answers the requests it holds, and a PUT that was sent
lands or fails. The driver runs on, and a child exits. No fairness is assumed of
faults, outages, rivals, crashes, restarts or services that come up again. The
HTTP clients and the driver have no timeout, so that the services answer and the
children exit is a real assumption: without it a program may wait for ever.

The cache scan and the engine comparison have no liveness property: their only
loops are over files and iterations, and each step of them is one request.

## 4. What is proved

Every type invariant, safety property, action property and refinement that a
passing run checks is also a theorem of the specification, for every value of
the constants that the named assumptions allow: any number of writers,
iterations, files, rows, scans, runs, faults and rivals, any durations, any
command lines. Each proof module holds the theorems about one module.

| Module | Theorem | States |
|---|---|---|
| `CommitBenchProofs` | `TypeCorrect` | `[]TypeOK` |
| | `LandsAtMostOnceHolds` | `[]LandsAtMostOnce` |
| | `CountedCommitsLandedHolds` | `[]CountedCommitsLanded`, under `NoReplays` |
| | `OneLateCommitHolds` | `[]OneLateCommitPerWriter` |
| | `RefinesLedgerHolds` | `RefinesLedger`, under `NoReplays` |
| | `KeyLandsAtMostOnceHolds` | `[]KeyLandsAtMostOnce`, with keys sent and honoured |
| | `OnlyWriterZeroReplaysHolds` | `[]OnlyWriterZeroReplays`, under `WarmupFits` |
| `CommitReportProofs` | `ReportAccountsForLogHolds` | `[]ReportAccountsForLog`, under `NoReplays` |
| | `OnlyFaultsFailHolds` | `[]OnlyFaultsFail` |
| | `SamplesOfAnOwnTableAreCommitsHolds` | `[]SamplesOfAnOwnTableAreCommits` |
| | `ConflictsHaveWinnersHolds` | `[]ConflictsHaveWinners` |
| `WriteDataProofs` | `TypeCorrect` | `[]TypeOK` |
| | `NoRowTwiceHolds` | `[]NoRowTwice`: while all starts had one `--rows` (`SameRows`) |
| | `NoDanglingReferenceHolds` | `[]NoDanglingReference` |
| | `RefinesFileTableHolds` | `RefinesFileTable`, whose `agreed` is `SameRows` |
| | `SamplesAreTheLogHolds` | `[]SamplesAreTheLog` |
| | `ReportedPercentilesHolds` | `[]ReportedPercentiles` |
| `ReadWriteProofs` | `TypeCorrect` | `[]TypeOK` |
| | `OkIsOneSnapshotHolds` | `[]OkIsOneSnapshot` |
| | `NoDanglingReferenceHolds` | `[]NoDanglingReference` |
| | `ReferencedFilesAreImmutableHolds` | `ReferencedFilesAreImmutable` |
| | `ReportAccountsForLogHolds` | `[]ReportAccountsForLog` |
| | `ReadsWhatItWroteHolds` | `[]ReadsWhatItWrote` |
| | `OnlyFaultsFailHolds` | `[]OnlyFaultsFail` |
| `EngineCompareProofs` | `TypeCorrect` | `[]TypeOK` |
| | `PhasesScanTheSameRowsHolds` | `[]PhasesScanTheSameRows` |
| | `ScansTheDatasetAskedForHolds` | `[]ScansTheDatasetAskedFor` |
| | `EnginesScanTheDatasetHolds` | `[]EnginesScanTheDataset` |
| | `OnlyFaultsFailHolds` | `[]OnlyFaultsFail` |
| | `JvmIsBestCaseHolds` | `[]JvmIsBestCase` |
| `DriverProofs` | `TypeCorrect` | `[]TypeOK` |
| | `SuccessMeansAReportHolds` | `[]SuccessMeansAReport` |
| | `CompareFindsDatasetHolds` | `[]CompareFindsDataset` |
| | `RunAllMeetsARefusalHolds` | `[]RunAllMeetsARefusal` |
| `StatsProofs` | `RankInRange` | the index of `percentile` is in range: its clamp never bites |
| | `WithinOneRank`, `UpperMedian` | it is the nearest rank or a neighbour; for p50 that or the one above |
| | `SparkRankIsNoHigher` | Python's rounding gives Spark no higher rank |
| | `SortedIsInOrder`, `SortedHasRank` | what sorting does to the samples |
| | `PercentileIsNearest` | for all durations, the percentile has the nearest rank or a neighbour of it |
| | `SparkFiguresAreNoHigher` | for all durations, Spark's median and percentiles are no higher |

`CatalogProofs` has the lemmas about the catalog that the three clients share:
types, what a step of the catalog does to the calls under way and landed, and to
the answers.

### Hypotheses

* `NoReplays == ~(Keyed /\ Idempotency)`: `commit_key_reuse` shows that it is
  needed. `KeyLandsAtMostOnceHolds` assumes the opposite; without keys the same
  counter is applied in several runs, as it should be.
* `WarmupFits == WarmupBase + Warmup <= WriterStride + 1`: with the bases of the
  code (1 000 000 and 10 000 000) a warmup of more than 9 000 001 commits runs
  into the counters of writer 1, and its replays are then not writer 0's. The
  code does not check it; nobody warms up for so long.
* The assumptions on the constants bound what a proof holds for.
  `BenchAssumption` has `Iterations <= WarmupBase` and `MaxPerWriter < WarmupBase`:
  a sequential phase of at most 1 000 000 commits, and fewer than that by each
  writer before the deadline, so that no writer's counters run into the warmup's.
  `WriteDataAssumption` has at most 9 000 000 iterations per start, the distance
  of the seeds of the warmup. The code checks none of the three. `CatalogAssumption` has
  `Keyed => StrictCAS`: a catalog that honours keys refuses a stale swap, as the
  one that does (LakeCat, `RESULTS.md`) is described to. The other named
  assumptions only say what kind of value a constant is.
* Everything else is in the properties themselves (`run = 1`, `SameSizes`,
  `SameRows`, `usedArgs = {args}`, `faults = 0`), where the runs check it too.

### The arguments

None of the properties is inductive: most speak of what has landed, and what
lands is decided by requests and PUTs already under way, sent by processes that
may be dead.

`CommitBench`:

* `FreshInv` strengthens `LandsAtMostOnce`: every request under way and every
  landed call was issued by a position of a program that has since moved on, a
  call has one request at most, and none once it has landed. A new call is fresh
  because the position that issues it has not issued it before; that needs the
  counters of one writer to increase and runs to be numbered apart.
* `CountInv` strengthens `CountedCommitsLanded`: an answer 2xx belongs to a call
  that has landed, and the calls counted for a writer lie below the one it waits
  for. `LateInv` strengthens `OneLateCommitPerWriter`: a writer that has issued a
  call late is no longer at the point where it would issue another.
* The refinement maps a swap to `Land`, a 2xx that a writer receives to `Count`,
  the report to `Publish`, a restart to `NewRun`, all else to a stutter.
* `RangeInv` and `KeyInv`: every call's counter lies in the range of its phase and
  writer; the keys recorded are those of landed calls, and a request that can
  still win the swap has read the log since the last key was recorded. The swap is
  therefore also what keeps a key from landing twice.
* `GiveUpInv`: the landed calls of a run that are neither counted nor on their way
  to be are those that writers have given up, and each of them cost a fault.
* `OwnTableInv`: up to the end of the sequential phase nothing is under way but
  the call that is awaited, which has read the newest version.
* `BudgetInv` is a potential: the conflicts counted, those answered and not yet
  counted, and the requests that have become stale are together no more than
  `Concurrency - 1` per landed call of a writer and `Concurrency` per rival. A
  swap makes stale at most one request of each writer that waits; only a stale
  request turns into a conflict.

`WriteData` and `ReadWrite`:

* `StoredInv`: a commit under way or landed names a stored file, because a PUT
  that the program waits for is on its way or has landed, and files never go away.
* `FilesInv`: what a file holds is a function of its name (for `ReadWrite` under
  equal arguments, for `WriteData` under equal `--rows`), in the bucket, in the cache and on its way. Hence a late PUT
  changes nothing that was there: `RefinesFileTable`, `ReferencedFilesAreImmutable`.
  With different seeds for different files, the warmup's included, `NoRowTwice`.
* `SentInv` and `SampleInv`: a commit of this start is sent only at the position
  that awaits it, and the log was no shorter than the start's log and its samples
  together when the request that is awaited was validated. Hence an answer, landed or refused,
  comes with one move of the table more: `SamplesAreTheLog`, in every run.
* `AloneInv`: in the first run on its own table the log is as long as the loop
  index, or one longer when the answer is still to come.
* `CommitInv`: a call is in one place, an answer tells what became of it, and the
  landed commits of this run and the conflicts add up to `f`.
* `ReadsInv`: a pass that has begun has read the expected rows. `OnlyFaultsFail`
  then needs that two rows have different values, so that the threshold matches.

`EngineCompare`:

* `TotalsInv`: a phase has counted the listing once per finished pass, and of the
  current pass what has been scanned; the listing is taken once.
* `ProgramInv`, `StoredInv`, `FilesInv`: each program is at steps of its own;
  under one size whatever lies in the bucket or the cache, or is on its way,
  belongs to the dataset, and once a writer of it has finished all of it is there.
  A count of files can then not mislead `ensure_dataset`.
* `ScannedInv`: on a dataset that is there, each query so far has counted all of
  it. `ReadyInv`: a result of Spark rests on all of its queries, hence on at least
  one that is timed.

`Driver`: `IInv` says that the outcomes so far are those of the benchmarks before
`k`, in the registry's order, and that the dataset is there after a cache scan
that ran. `RefusalInv`: as long as nothing went wrong, each outcome so far of a
benchmark that cannot take the flags is a refusal.

`Stats`: the ranks follow by integer arithmetic once the product `p * (len - 1)`
has a name of its own. That the sort by places gives every place to one sample is
a pigeonhole argument: of two samples one comes first and has the lower place, so
that the places are an injection of `1..n` into itself, hence onto it.

### What the proofs found

* The bounds that two type invariants gave to loop indices held for the constants
  of the runs and not for all: in `WriteData` a warmup may be longer than the
  measured loop by any number, and in `EngineCompare` one query is made where none
  is asked for. Both are corrected.
* `OnlyFaultsFail` of `EngineCompare` lacked the hypothesis of more than one row:
  the round-trip benchmark ends for want of matched rows on a dataset of a
  single row (`read_write_stops`, `crates/read-write/src/main.rs`). The run had no
  such dataset; `MCEngineCompare` now has one.
* `NoRowTwice` and the contents of referenced files need one `--rows` for all
  starts: with one of their own for each, `FilesInv` is inductive only under
  `SameRows`, and `FileTable` has to say whose agreement it relies on.
* Rows of a listing have to be counted per file (`RowsOf`): a file of another size
  may repeat row ids, and the engines count it all the same.

### What is only model-checked

* `Termination` of three benchmarks and `EveryBenchGetsAnOutcome`: liveness under
  fairness is outside what the prover handles.
* The violations: a counterexample is a behaviour, and TLC shows it.
* That `sorted` is what the library's `SortSeq` computes: the definition by places
  is used because `SortSeq` is a recursion over sequences, about which the prover
  can show nothing. On all sequences of up to five durations out of four values
  the two agree.

The library's induction theorems cannot be used here, as they take an operator as
a parameter. Where a property needs an argument over all sizes, it is made by a
least element (`Least`), by counting (a finite set gets one element larger), or by
pigeonhole.

## 5. What is not modelled, and why

* Throughput: a count over wall-clock time, and the models have no clock. They
  say which samples exist and how percentiles are taken of any durations. Two
  conventions are therefore only noted here: `catalog-commit` divides by the
  time of the whole loop (`crates/write-data/src/main.rs:374`), and rows per
  second mean rows over the median for Spark but rows over the wall-clock time
  for Rust (`crates/rust-vs-jvm/src/main.rs:264, 281`).
* The report's status and its snapshot count as evidence: `read-write` always
  reports `Ready`, also when the stock round-trip failed or was gated
  (`crates/read-write/src/main.rs:791`), and `snapshot_count` reads 0 out of an
  error answer (`:208`). A reader has to look at the notes.
* The text of reports and summaries, `list`, environment variables.
* The scripts and the container files: straight-line start-up without state.
* The inside of Spark, of pyiceberg and of DataFusion: what the repository's code
  asks of them, and their answers. The probe's response-rewriting shim (`SHIM=1`)
  is not used by the benchmark.
* An orphaned probe or Spark container that outlives a killed benchmark: it works
  on a table of its own, or only reads.
* Parquet encoding: a file is the set of its rows, and its size stands for them.
* `--table`, `--namespace` and `--prefix` given differently between runs: such
  runs do not share state, and the interesting runs do.

## 6. Plan

Done, in this order: `IcebergCatalog`, `CommitBench`, its runs, `CommitLedger`
and the proofs; `Driver`; `Warehouse`, `ReadWrite`, `WriteData`; `CacheScan` and
`EngineCompare`; `Stats` with its proofs; `FileTable` and its refinement by
`WriteData`; liveness of three benchmarks and of the driver; `StockProbe`; Spark's
session and the round-trip benchmark in `EngineCompare`; the proofs of the safety
properties of all modules.

Next, in this order:

1. The safety half of the liveness properties: a measure of each program that no
   step of its own increases and that its requests decrease, as an action
   property, so that only the fairness argument is left to TLC.
2. `ReadWrite` as a second implementation of `FileTable`, for runs with the same
   arguments, with its proof.
3. An abstract specification of the driver (a prefix of the outcomes asked for)
   and its refinement.

## 7. How to run

`tlc -config CommitWriters.cfg CommitBench.tla`, and so on: `PROJECT.json` gives
the module of each configuration. `tlapm CommitBenchProofs.tla` checks the proofs
of a module, and so on for `CatalogProofs`, `CommitReportProofs`, `WriteDataProofs`,
`ReadWriteProofs`, `EngineCompareProofs`, `DriverProofs` and `StatsProofs`. Only
the standard and the community modules are needed, and the proof modules that come
with TLAPS.
