---------------------------- MODULE EngineCompare ----------------------------
(***************************************************************************)
(* The engine comparison, crates/rust-vs-jvm (src/main.rs, run-spark.sh    *)
(* and spark-query.py), composed with CacheScan: on one prefix of the      *)
(* bucket, cache-scan, rust-vs-jvm and read-write are started one after    *)
(* the other, in any order, and each may be killed.                        *)
(*                                                                         *)
(* The Rust side lists the prefix anew for each query, Spark lists it once *)
(* for its session.  A query is one step, and counts the rows that it has  *)
(* scanned.  Its filter, measure_a > 0, drops the same few rows for both   *)
(* engines ("keeps ~all rows"); the model keeps them.  Of read-write this  *)
(* module has the loop that writes the files; ReadWrite is the model of    *)
(* that program.                                                           *)
(*                                                                         *)
(* Bound: Durations, the durations that a query of Spark may take.         *)
(***************************************************************************)
EXTENDS CacheScan, Stats

CONSTANTS JvmIters, Durations

ASSUME CompareAssumption ==
  /\ JvmIters \in Nat
  /\ Durations \subseteq Nat

\* A definition that no action uses is a plausible bug in the definition right
\* after it, which the mutants of PROJECT.json put in its place.

VARIABLES
  program,   \* the program that is running, or the last one that ran
  queries,   \* the queries the current phase has run
  scanned,   \* scanned_rows of each phase
  timed,     \* history: the rows that Spark's timed queries have scanned
  status,    \* the status of rust-vs-jvm's report
  usedArgs,  \* history: the arguments the dataset has been written with
  complete   \* history: a program that writes the dataset has finished

compareVars == <<queries, scanned, timed, status>>
vars == <<storeVars, datasetVars, scanVars, pc, program, compareVars, usedArgs, complete>>

Programs == {"cache-scan", "rust-vs-jvm", "read-write"}
RustPhases == {"rust-no-cache", "rust-cold", "rust-warm"}
Exited == {"killed", "failed", "done"}

TypeOK ==
  /\ StoreTypeOK(Nat)
  /\ run \in 1..MaxRuns
  /\ args \in ArgChoices
  /\ program \in Programs
  /\ pc \in {"ensure_bucket", "probe_again", "ensure_dataset", "put", "putting", "listed",
             "scanned", "jvm", "spark"} \cup Phases \cup RustPhases \cup Exited
  /\ f \in 0..args.files
  /\ todo \subseteq DOMAIN listed
  /\ it \in 0..(NoCacheIters + WarmIters)
  /\ total \in [Phases -> Nat]
  /\ queries \in 0..(NoCacheIters + WarmIters + JvmIters + 2)
  /\ scanned \in [RustPhases \cup {"jvm"} -> Nat]
  /\ timed \in SUBSET Nat
  /\ status \in {"none", "scaffold", "ready"}
  /\ usedArgs \in SUBSET ArgChoices
  /\ complete \in BOOLEAN

FirstStep(prog) == CASE prog = "cache-scan"  -> "ensure_bucket"
                     [] prog = "rust-vs-jvm" -> "rust-no-cache"
                     [] prog = "read-write"  -> "put"

Writes(prog) == prog # "rust-vs-jvm"

\* read-write has no --rewrite: it writes its files every time.
ArgsOf(prog) == {a \in ArgChoices : prog = "read-write" => a.rewrite}

NothingScanned == [p \in RustPhases \cup {"jvm"} |-> 0]

Init ==
  /\ CacheScanInit
  /\ program \in Programs
  /\ args \in ArgsOf(program)
  /\ pc = FirstStep(program)
  /\ queries = 0
  /\ scanned = NothingScanned
  /\ timed = {}
  /\ status = "none"
  /\ usedArgs = IF Writes(program) THEN {args} ELSE {}
  /\ complete = FALSE

-----------------------------------------------------------------------------
(* rust-vs-jvm.                                                            *)

compareUnchanged == UNCHANGED <<run, args, f, todo, it, total, program, usedArgs, complete>>

\* A row that two files hold is scanned twice.
RowsOf(files) == Cardinality(UNION {{g} \X files[g] : g \in DOMAIN files})

Queried(p) == IF p = "rust-cold" \/ p = "rust-warm" THEN Through(cache, DOMAIN objects) ELSE objects

Queries(p) == CASE p = "rust-no-cache" -> Max1(NoCacheIters)
                [] p = "rust-cold"     -> 1
                [] p = "rust-warm"     -> Max1(WarmIters)

\* A result that differs from the first one of the phase is an error.
Unstable(p, rows) == queries > 0 /\ rows # scanned[p]

run_query(p) ==
  /\ pc = p
  /\ queries < Queries(p)
  /\ LET rows == RowsOf(Queried(p))
     IN \/ /\ ~Unstable(p, rows)
           /\ queries' = queries + 1
           /\ scanned' = [scanned EXCEPT ![p] = rows]
           /\ UNCHANGED pc
        \/ /\ Unstable(p, rows) \/ (p # "rust-no-cache" /\ Outdated(cache))
           /\ pc' = "failed"
           /\ UNCHANGED <<queries, scanned>>
  /\ cache' = IF p = "rust-no-cache" THEN cache ELSE Filled(cache, DOMAIN objects)
  /\ UNCHANGED <<storeVars, listed, timed, status>>
  /\ compareUnchanged

query_fails(p) ==
  /\ pc = p
  /\ queries < Queries(p)
  /\ ReadFails
  /\ pc' = "failed"
  /\ UNCHANGED <<cache, listed, compareVars>>
  /\ compareUnchanged

\* "is the dataset present?"
AfterPhase(p) == CASE p = "rust-no-cache" -> IF scanned[p] = 0 THEN "failed" ELSE "rust-cold"
                   [] p = "rust-cold"     -> "rust-warm"
                   [] p = "rust-warm"     -> "jvm"

phase_ends(p) ==
  /\ pc = p
  /\ queries = Queries(p)
  /\ queries' = 0
  /\ pc' = AfterPhase(p)
  /\ UNCHANGED <<storeVars, cache, listed, scanned, timed, status>>
  /\ compareUnchanged

-----------------------------------------------------------------------------
(* run_jvm: run-spark.sh starts spark-query.py in a container.             *)

\* spark.read.parquet lists the prefix, once for all the queries.
read_parquet ==
  /\ pc = "jvm"
  /\ listed' = objects
  /\ pc' = "spark"
  /\ UNCHANGED <<storeVars, cache, compareVars>>
  /\ compareUnchanged

SparkQueries == 1 + Max1(JvmIters)

\* The cold query gives the rows of the report and is not timed; the warm ones
\* are timed, and their rows dropped.
run_once(rows) ==
  IF queries = 0 THEN scanned' = [scanned EXCEPT !["jvm"] = rows] /\ UNCHANGED timed
                 ELSE timed' = timed \cup {rows} /\ UNCHANGED scanned

spark_query ==
  /\ pc = "spark"
  /\ queries < SparkQueries
  /\ run_once(RowsOf([g \in DOMAIN listed |-> objects[g]]))
  /\ queries' = queries + 1
  /\ UNCHANGED <<storeVars, cache, listed, pc, status>>
  /\ compareUnchanged

spark_result ==
  /\ pc = "spark"
  /\ queries = SparkQueries
  /\ pc' = "done"
  /\ status' = "ready"
  /\ UNCHANGED <<storeVars, cache, listed, queries, scanned, timed>>
  /\ compareUnchanged

\* --skip-jvm, or no SPARK_RESULT line, whatever the reason: the phase is
\* gated and the report a Scaffold.
jvm_gated ==
  /\ pc \in {"jvm", "spark"}
  /\ pc' = "done"
  /\ status' = "scaffold"
  /\ UNCHANGED <<storeVars, cache, listed, queries, scanned, timed>>
  /\ compareUnchanged

CompareRun ==
  \/ \E p \in RustPhases : run_query(p) \/ query_fails(p) \/ phase_ends(p)
  \/ read_parquet \/ spark_query \/ spark_result \/ jvm_gated

-----------------------------------------------------------------------------
(* read-write: its put loop is that of cache-scan, with a commit after     *)
(* each file; the scans after the loop change nothing in the store.        *)

\* A PUT in flight that would change what a scan sees.
Unsettled == \E up \in uploads : Overwrite(objects, up.file, up.content) # objects

\* The threshold of read-write is the midpoint of the values it finds.
Matched == Cardinality(UNION {objects[g] : g \in DOMAIN objects}) > 1

\* A commit fails, or a scan does, or two scans differ, or no row matches.
read_write_stops ==
  /\ program = "read-write"
  /\ pc = "put"
  /\ pc' = "failed"
  /\ \/ ReadFails
     \/ f = args.files /\ (Unsettled \/ ~Matched) /\ UNCHANGED storeVars
  /\ UNCHANGED <<datasetVars, scanVars, program, compareVars, usedArgs, complete>>

read_write_reports ==
  /\ program = "read-write"
  /\ pc = "put"
  /\ f = args.files
  /\ Unsettled \/ Matched
  /\ pc' = "done"
  /\ complete' = TRUE
  /\ UNCHANGED <<storeVars, datasetVars, scanVars, program, compareVars, usedArgs>>

WritePhase == program = "read-write" /\ (put \/ put_returns \/ put_fails)

-----------------------------------------------------------------------------
(* The programs on one prefix.                                             *)

cache_scan_reports ==
  /\ pc = "scanned"
  /\ pc' = "done"
  /\ complete' = TRUE
  /\ UNCHANGED <<storeVars, datasetVars, scanVars, program, compareVars, usedArgs>>

FreshProcess ==
  /\ f' = 0
  /\ listed' = NoFiles
  /\ todo' = {}
  /\ it' = 0
  /\ total' = NoTotals
  /\ cache' = NoFiles
  /\ queries' = 0
  /\ scanned' = NothingScanned
  /\ timed' = {}
  /\ status' = "none"

Crash ==
  /\ pc \notin Exited
  /\ run < MaxRuns
  /\ pc' = "killed"
  /\ FreshProcess
  /\ UNCHANGED <<storeVars, run, args, program, usedArgs, complete>>

StartAgain ==
  /\ pc \in Exited
  /\ run < MaxRuns
  /\ run' = run + 1
  /\ program' \in Programs
  /\ pc' = FirstStep(program')
  /\ \/ Writes(program') /\ args' \in ArgsOf(program') /\ usedArgs' = usedArgs \cup {args'}
     \/ ~Writes(program') /\ UNCHANGED <<args, usedArgs>>
  /\ FreshProcess
  /\ UNCHANGED <<storeVars, complete>>

Terminated == pc \in Exited /\ run = MaxRuns /\ UNCHANGED vars

Next ==
  \/ (program = "cache-scan" /\ CacheScanRun) /\ UNCHANGED <<program, compareVars, usedArgs, complete>>
  \/ cache_scan_reports
  \/ WritePhase /\ UNCHANGED <<program, compareVars, usedArgs, complete>>
  \/ read_write_stops \/ read_write_reports
  \/ CompareRun
  \/ StoreNext /\ UNCHANGED <<datasetVars, scanVars, pc, program, compareVars, usedArgs, complete>>
  \/ Crash
  \/ StartAgain
  \/ Terminated

Spec == Init /\ [][Next]_vars

-----------------------------------------------------------------------------
(* What is compared with what.                                             *)

\* The speedups of cache-scan compare the same work: the three phases of a
\* report have scanned the same rows per pass, even when a PUT of a run that
\* was killed lands between two of them.
PhasesScanTheSameRows ==
  pc = "scanned" =>
    /\ total["no-cache"] = Iters("no-cache") * total["cold"]
    /\ total["warm"] = Iters("warm") * total["cold"]

\* The dataset has only been asked for in one size.
SameSizes == \A a \in usedArgs : a.files = args.files /\ a.rows = args.rows

\* "Write the dataset (idempotent unless rewrite)": as long as cache-scan is
\* always asked for the same files of the same rows, what it scans is that
\* dataset and all of it, although it only counts files to find out, and
\* although a run before it was killed half-way.
ScansTheDatasetAskedFor ==
  program = "cache-scan" /\ pc \in Phases \cup {"listed", "scanned"} /\ SameSizes =>
       listed = [g \in 0..(args.files - 1) |-> Rows(g)]

\* After a cache-scan or a read-write that has finished, and with the same
\* sizes throughout, rust-vs-jvm compares the engines on the whole dataset in
\* each of its phases ("row counts matched exactly", and "(matched)", which
\* nothing in the code compares), and the queries of Spark that are timed have
\* scanned the rows of the one that is not, whatever runs were killed between.
EnginesScanTheDataset ==
  program = "rust-vs-jvm" /\ pc = "done" /\ complete /\ SameSizes =>
    /\ \A p \in RustPhases : scanned[p] = args.files * args.rows
    /\ status = "ready" => {scanned["jvm"]} \cup timed = {args.files * args.rows}

\* The programs can be started in any order and killed at any time ("idempotent
\* unless rewrite"): with the same sizes throughout, more than one row to scan,
\* and rust-vs-jvm only after the dataset is there, none of them ends for any
\* reason but a request that failed, although PUTs of killed runs land under
\* their scans.
OnlyFaultsFail ==
  outages = 0 /\ SameSizes /\ args.files * args.rows > 1 /\ (program = "rust-vs-jvm" => complete)
    => pc # "failed"

\* "jvm-warm is the JVM's BEST case": for any durations, the two figures that
\* are computed for Spark are no worse than the ones that the other phases get
\* for theirs: the median in spark-query.py is never above the rounded-up rank
\* of percentile, nor is its p95.
JvmIsBestCase ==
  status = "ready" =>
    \A durs \in [1..(queries - 1) -> Durations] :
       /\ TwiceMedian(durs) <= 2 * percentile(durs, 50)
       /\ pct(durs, 95) <= percentile(durs, 95)
=============================================================================
