-------------------------------- MODULE Driver --------------------------------
(***************************************************************************)
(* The suite driver, crates/driver/src/main.rs: `catalog-bench run <name>` *)
(* and `catalog-bench run all` spawn the benchmarks one after the other,   *)
(* capture what each prints and derive an exit code.                       *)
(*                                                                         *)
(* A benchmark is seen here as a child process: which flags its clap Args  *)
(* accept and require, which services it needs, what it leaves in the      *)
(* warehouse bucket for the benchmarks after it, and what it prints.  Its  *)
(* stdout is a sequence of pieces: "report" (the BenchReport), "object"    *)
(* (another JSON object) and "line" (text without a brace).                *)
(*                                                                         *)
(* All five entries of the registry are Ready at this commit, so the       *)
(* driver's branch that skips a Scaffold benchmark is dead and left out.   *)
(*                                                                         *)
(* Bounds: MaxTrouble, how often a service goes down, a spawn fails or a   *)
(* child is killed; PassChoices, the sets of flags given after `--`.       *)
(***************************************************************************)
EXTENDS Naturals, Sequences, FiniteSets

CONSTANTS PassChoices, MaxTrouble

Flags == {"--base-url", "--prefix", "--iterations", "--create", "--files", "--skip-jvm", "--json"}

ASSUME DriverAssumption ==
  /\ PassChoices \subseteq SUBSET Flags
  /\ MaxTrouble \in Nat

\* A definition that no action uses is a plausible bug in the definition right
\* after it, which the mutants of PROJECT.json put in its place.

VARIABLES
  name,         \* the bench named on the command line, or "all"
  passthrough,  \* the flags after --
  pc,           \* where the driver is
  k,            \* the index of the bench in BENCHES
  results,      \* the outcomes so far
  code,         \* the exit code
  up,           \* the services that answer
  bucket,       \* the warehouse bucket exists
  dataset,      \* there are files under the prefix of cache-scan
  aws,          \* what the aws CLI prints on create-bucket, if installed
  trouble       \* how often something went wrong

driverVars == <<name, passthrough, pc, k, results, code>>
worldVars == <<up, bucket, dataset, aws, trouble>>
vars == <<driverVars, worldVars>>

CompareBeforeScan == <<"commit", "write-data", "rust-vs-jvm", "cache-scan", "read-write">>

BENCHES == <<"commit", "write-data", "cache-scan", "rust-vs-jvm", "read-write">>

Benches == {BENCHES[j] : j \in DOMAIN BENCHES}

Services == {"catalog", "store"}

\* Why a child failed.
Reasons == {"none", "spawn", "args", "service", "bucket", "no_table", "no_dataset", "killed",
            "no_report"}

TypeOK ==
  /\ name \in Benches \cup {"all", "unknown"}
  /\ passthrough \in SUBSET Flags
  /\ pc \in {"cmd_run", "run_one", "child", "outcome", "exit"}
  /\ k \in 1..Len(BENCHES)
  /\ results \in Seq([bench : Benches, ran : BOOLEAN, why : Reasons,
                      out : Seq({"report", "object", "line"})])
  /\ code \in {"none", "SUCCESS", "FAILURE"}
  /\ up \in SUBSET Services
  /\ bucket \in BOOLEAN
  /\ dataset \in BOOLEAN
  /\ aws \in {"absent", "object", "line"}
  /\ trouble \in Nat

Init ==
  /\ name \in Benches \cup {"all", "unknown"}
  /\ passthrough \in PassChoices
  /\ pc = "cmd_run"
  /\ k = 1
  /\ results = << >>
  /\ code = "none"
  /\ up \in SUBSET Services
  /\ bucket \in BOOLEAN
  /\ dataset \in BOOLEAN /\ (dataset => bucket)
  /\ aws \in {"absent", "object", "line"}
  /\ trouble = 0

-----------------------------------------------------------------------------
(* The benchmarks as children: their Args and what their main() returns.   *)

Accepts(b) ==
  CASE b = "commit"      -> {"--base-url", "--prefix", "--iterations", "--create", "--json"}
    [] b = "write-data"  -> {"--base-url", "--prefix", "--iterations", "--create"}
    [] b = "cache-scan"  -> {"--prefix", "--files"}
    [] b = "rust-vs-jvm" -> {"--prefix", "--skip-jvm"}
    [] b = "read-write"  -> {"--base-url", "--prefix", "--files"}

RequiresNothing(b) == {}

Requires(b) == IF b = "commit" THEN {"--base-url"} ELSE {}

ArgsParse(b) == Requires(b) \subseteq passthrough /\ passthrough \subseteq Accepts(b)

\* How a child can end: why it fails ("none": it does not), what it printed,
\* and the bucket and the dataset it leaves.
Fails(why) == [why |-> why, out |-> << >>, bucket |-> bucket, dataset |-> dataset]
Reports == [why |-> "none", out |-> <<"report">>, bucket |-> bucket, dataset |-> dataset]

NeedsService(services, ends) == IF services \subseteq up THEN ends ELSE {Fails("service")}
NeedsBucket(ends) == IF bucket THEN ends ELSE {Fails("bucket")}

\* Without --create, the table may be missing.
CommitEnds == IF "--create" \in passthrough THEN {Reports} ELSE {Reports, Fails("no_table")}

\* ensure_bucket: a HEAD that is answered 404 passes for an existing bucket,
\* and the listing then fails; a HEAD that fails otherwise makes it call the
\* aws CLI, which writes to the stdout that it inherits.
CreatedBucket ==
  IF aws = "absent" THEN {}
  ELSE {[why |-> "none", out |-> <<aws, "report">>, bucket |-> TRUE, dataset |-> TRUE]}

CacheScanEnds ==
  IF bucket THEN {[Reports EXCEPT !.dataset = TRUE]}
            ELSE {Fails("bucket")} \cup CreatedBucket

\* Only an empty scan is an error: "is the dataset present?"
RustVsJvmEnds == IF dataset THEN {Reports} ELSE {Fails("no_dataset")}

ChildEnds(b) ==
  IF ~ArgsParse(b) THEN {Fails("args")}
  ELSE CASE b = "commit"      -> NeedsService({"catalog"}, CommitEnds)
         [] b = "write-data"  -> NeedsService({"catalog", "store"}, NeedsBucket({Reports}))
         [] b = "cache-scan"  -> NeedsService({"store"}, CacheScanEnds)
         [] b = "rust-vs-jvm" -> NeedsService({"store"}, NeedsBucket(RustVsJvmEnds))
         [] b = "read-write"  -> NeedsService({"catalog", "store"}, NeedsBucket({Reports}))

-----------------------------------------------------------------------------
(* The driver.                                                             *)

\* The whole of the output, or what follows its first brace, is a report.
parse_report(out) ==
  \E j \in DOMAIN out :
     /\ \A m \in 1..(j - 1) : out[m] = "line"
     /\ SubSeq(out, j, Len(out)) = <<"report">>

ZeroBased(b) == {j - 1 : j \in {m \in DOMAIN BENCHES : BENCHES[m] = b}}

find_bench(b) == {j \in DOMAIN BENCHES : BENCHES[j] = b}

cmd_run ==
  /\ pc = "cmd_run"
  /\ \/ /\ name = "all"
        /\ pc' = "run_one"
        /\ UNCHANGED <<k, code>>
     \/ /\ find_bench(name) # {}
        /\ k' \in find_bench(name)
        /\ pc' = "run_one"
        /\ UNCHANGED code
     \/ /\ name # "all"
        /\ find_bench(name) = {}
        /\ pc' = "exit"
        /\ code' = "FAILURE"
        /\ UNCHANGED k
  /\ UNCHANGED <<name, passthrough, results, worldVars>>

\* run_one returns an Outcome for BENCHES[k].
Outcome(why, out) ==
  /\ results' = Append(results, [bench |-> BENCHES[k], ran |-> why = "none",
                                 why |-> why, out |-> out])
  /\ pc' = "outcome"
  /\ UNCHANGED <<name, passthrough, k, code>>

spawn ==
  /\ pc = "run_one"
  /\ pc' = "child"
  /\ UNCHANGED <<name, passthrough, k, results, code, worldVars>>

SpawnFailureEndsTheSweep ==
  /\ pc = "run_one"
  /\ trouble < MaxTrouble
  /\ trouble' = trouble + 1
  /\ pc' = "exit"
  /\ code' = "FAILURE"
  /\ UNCHANGED <<name, passthrough, k, results, up, bucket, dataset, aws>>

spawn_fails ==
  /\ pc = "run_one"
  /\ trouble < MaxTrouble
  /\ trouble' = trouble + 1
  /\ Outcome("spawn", << >>)
  /\ UNCHANGED <<up, bucket, dataset, aws>>

child_exits ==
  /\ pc = "child"
  /\ \E end \in ChildEnds(BENCHES[k]) :
       /\ bucket' = end.bucket
       /\ dataset' = end.dataset
       /\ Outcome(IF end.why = "none" /\ ~parse_report(end.out) THEN "no_report" ELSE end.why,
                  end.out)
  /\ UNCHANGED <<up, aws, trouble>>

\* The child dies half-way; cache-scan has then written a part of its files.
child_killed ==
  /\ pc = "child"
  /\ trouble < MaxTrouble
  /\ trouble' = trouble + 1
  /\ dataset' \in IF /\ BENCHES[k] = "cache-scan" /\ ArgsParse("cache-scan")
                     /\ bucket /\ "store" \in up
                  THEN {dataset, TRUE} ELSE {dataset}
  /\ Outcome("killed", << >>)
  /\ UNCHANGED <<up, bucket, aws>>

Failed == {j \in DOMAIN results : ~results[j].ran}

FailsOnAnyFailure == IF Failed # {} THEN "FAILURE" ELSE "SUCCESS"

\* Non-zero only if every attempted bench failed.
run_all_code == IF Failed = DOMAIN results THEN "FAILURE" ELSE "SUCCESS"

next_bench ==
  /\ pc = "outcome"
  /\ name = "all"
  /\ k < Len(BENCHES)
  /\ k' = k + 1
  /\ pc' = "run_one"
  /\ UNCHANGED <<name, passthrough, results, code, worldVars>>

run_all_ends ==
  /\ pc = "outcome"
  /\ name = "all"
  /\ k = Len(BENCHES)
  /\ pc' = "exit"
  /\ code' = run_all_code
  /\ UNCHANGED <<name, passthrough, k, results, worldVars>>

run_single_ends ==
  /\ pc = "outcome"
  /\ name # "all"
  /\ pc' = "exit"
  /\ code' = IF results[1].ran THEN "SUCCESS" ELSE "FAILURE"
  /\ UNCHANGED <<name, passthrough, k, results, worldVars>>

-----------------------------------------------------------------------------
(* The world.                                                              *)

ServiceGoesDown ==
  /\ trouble < MaxTrouble
  /\ trouble' = trouble + 1
  /\ \E s \in up : up' = up \ {s}
  /\ UNCHANGED <<driverVars, bucket, dataset, aws>>

ServiceComesUp ==
  /\ \E s \in Services \ up : up' = up \cup {s}
  /\ UNCHANGED <<driverVars, bucket, dataset, aws, trouble>>

Terminated == pc = "exit" /\ UNCHANGED vars

Next ==
  \/ cmd_run \/ spawn \/ spawn_fails \/ child_exits \/ child_killed
  \/ next_bench \/ run_all_ends \/ run_single_ends
  \/ ServiceGoesDown \/ ServiceComesUp
  \/ Terminated

Spec == Init /\ [][Next]_vars

\* The driver runs on, and a child that nobody kills exits: cmd.output() waits
\* for it without a timeout.  That a child exits is assumed here; CommitBench,
\* ReadWrite and WriteData check it of three of the five, and the other two have
\* no loop but over files and iterations.  Nothing makes a service come up
\* again, a spawn fail or a child be killed.
Fairness ==
  /\ WF_vars(cmd_run \/ spawn \/ next_bench \/ run_all_ends \/ run_single_ends)
  /\ WF_vars(child_exits)

FairSpec == Spec /\ Fairness

-----------------------------------------------------------------------------
(* What a caller of the driver relies on.                                  *)

\* The exit code tells a script whether there is anything to read: it is
\* SUCCESS exactly if some bench was run and its report captured, whatever
\* the others did ("best-effort: a single bench failure does not fail the
\* whole invocation").
SuccessMeansAReport ==
  pc = "exit" => (code = "SUCCESS" <=> \E j \in DOMAIN results : results[j].ran)

\* The registry's order is a dependency: rust-vs-jvm reads what cache-scan
\* writes, so in `run all` it never fails for want of the dataset after a
\* cache-scan that ran.
CompareFindsDataset ==
  \A j, m \in DOMAIN results :
     results[j].bench = "cache-scan" /\ results[j].ran => results[m].why # "no_dataset"

\* Every bench asked for gets its outcome, once and in the registry's order,
\* and the driver then exits, whatever is down, does not spawn, dies or prints
\* no report on the way ("so the summary is always shown").
Asked == IF name = "all" THEN BENCHES ELSE SelectSeq(BENCHES, LAMBDA b : b = name)

EveryBenchGetsAnOutcome ==
  <>(pc = "exit" /\ [j \in DOMAIN results |-> results[j].bench] = Asked)

\* What "`run all` runs all five" (README.md:42-43) comes to: run_all hands one
\* set of flags to every bench, and no set suits all five, since commit requires
\* the --base-url that cache-scan and rust-vs-jvm do not know.  When nothing
\* goes wrong, a run all ends with a bench that has refused its arguments.
RunAllMeetsARefusal ==
  pc = "exit" /\ name = "all" /\ trouble = 0 => \E j \in DOMAIN results : results[j].why = "args"

=============================================================================
