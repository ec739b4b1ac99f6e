------------------------------ MODULE WriteData ------------------------------
(***************************************************************************)
(* The write benchmark, crates/write-data/src/main.rs: it prepares a       *)
(* table, PUTs a few warmup files and then, for every iteration, PUTs one  *)
(* Parquet file and records it with one commit, against IcebergCatalog and *)
(* Warehouse.                                                              *)
(*                                                                         *)
(* A commit is the call [run, phase, w, n] of IcebergCatalog; n is the     *)
(* iteration, which is also the bench.files that it sets, and it sets      *)
(* bench.last_file to part-n with it.                                      *)
(*                                                                         *)
(* --create is a switch whose default is on: the table is always created.  *)
(*                                                                         *)
(* Bounds: ArgChoices, the --warmup, --iterations and --rows of a start;   *)
(* MaxRuns, how often it is started on the same table and bucket; and      *)
(* Durations, the durations that a PUT may take in ReportedPercentiles.    *)
(***************************************************************************)
EXTENDS IcebergCatalog, Warehouse, Stats

CONSTANTS ArgChoices, MaxRuns, Durations

\* More iterations than 9 000 000 would run into the seeds of the warmup.
ASSUME WriteDataAssumption ==
  /\ \A a \in ArgChoices : /\ a.warmup \in Nat /\ a.iterations \in Nat /\ a.rows \in Nat
                           /\ a.iterations <= 9000000
  /\ ArgChoices # {}
  /\ MaxRuns \in Nat \ {0}
  /\ Durations \subseteq Nat

\* A definition that no action uses is a plausible bug in the definition right
\* after it, which the mutants of PROJECT.json put in its place.

VARIABLES
  run,        \* which start of the program this is
  args,       \* its arguments
  pc,         \* where main() is
  i,          \* the loop index
  writes,     \* write_durs.len()
  commits,    \* commit_durs.len()
  usedArgs,   \* history: the arguments of all starts so far
  logAtStart  \* history: the length of the log when this start began

argVars == <<run, args, usedArgs, logAtStart>>
clientVars == <<argVars, pc, i, writes, commits>>
vars == <<catalogVars, storeVars, clientVars>>

Calls == [run : 1..MaxRuns, phase : {"write"}, w : {0}, n : Nat]
Files == {"warmup", "part"} \X Nat

Exited == {"killed", "failed", "done"}

TypeOK ==
  /\ CatalogTypeOK(Calls, Nat)
  /\ StoreTypeOK(Files)
  /\ run \in 1..MaxRuns
  /\ args \in ArgChoices
  /\ pc \in {"create_namespace", "create_table", "load_table_uuid", "warmup", "warmup_put",
             "write", "write_put", "commit", "commit_file"} \cup Exited
  /\ i \in Nat
  /\ pc \in {"warmup", "warmup_put"} => i <= args.warmup
  /\ pc \in {"write", "write_put", "commit", "commit_file", "done"} => i <= args.iterations
  /\ writes \in Nat
  /\ commits \in Nat
  /\ usedArgs \in SUBSET ArgChoices
  /\ logAtStart \in Nat

Init ==
  /\ CatalogInit
  /\ StoreInit
  /\ run = 1
  /\ args \in ArgChoices
  /\ pc = "create_namespace"
  /\ i = 0
  /\ writes = 0
  /\ commits = 0
  /\ usedArgs = {args}
  /\ logAtStart = 0

-----------------------------------------------------------------------------
(* main(): the table.                                                      *)

Rank(c) == CASE c = "nothing" -> 0 [] c = "namespace" -> 1 [] c = "table" -> 2

setupUnchanged ==
  UNCHANGED <<log, recorded, requests, reading, open, answers, storeVars, argVars, i, writes, commits>>

\* 2xx and 409 go on; anything else ends the program, done or not done.
CreateRequest(what, after) ==
  LET result == IF Rank(created) < Rank(what) THEN what ELSE created
  IN \/ created' = result /\ pc' = after /\ UNCHANGED faults
     \/ faults < MaxFaults /\ faults' = faults + 1 /\ created' \in {created, result} /\ pc' = "failed"

create_namespace ==
  /\ pc = "create_namespace"
  /\ CreateRequest("namespace", "create_table")
  /\ setupUnchanged

create_table ==
  /\ pc = "create_table"
  /\ CreateRequest("table", "load_table_uuid")
  /\ setupUnchanged

load_table_uuid ==
  /\ pc = "load_table_uuid"
  /\ \/ pc' = "warmup" /\ UNCHANGED faults
     \/ faults < MaxFaults /\ faults' = faults + 1 /\ pc' = "failed"
  /\ UNCHANGED created
  /\ setupUnchanged

-----------------------------------------------------------------------------
(* main(): the files.                                                      *)

SeededByRun(rows, seed) == {(run * 1000 + seed) * rows + r : r \in 0..(rows - 1)}

\* The row ids of the file built from a seed.
make_batch(rows, seed) == {seed * rows + r : r \in 0..(rows - 1)}

SeededFromZero == 0
WarmupSeed == 9000000

WarmupPut == [run |-> run, file |-> <<"warmup", i>>, content |-> make_batch(args.rows, WarmupSeed + i)]
PartPut == [run |-> run, file |-> <<"part", i>>, content |-> make_batch(args.rows, i)]

StartPut(phase, putting, bound, up) ==
  /\ pc = phase
  /\ i < bound
  /\ Upload(up)
  /\ pc' = putting
  /\ UNCHANGED <<catalogVars, argVars, i, writes, commits>>

PutFails(phase, up) ==
  /\ pc = phase
  /\ up \in uploads
  /\ UploadFails(up)
  /\ pc' = "failed"
  /\ UNCHANGED <<catalogVars, argVars, i, writes, commits>>

\* The warmup writes a file; it does not commit it.
warmup_put == StartPut("warmup", "warmup_put", args.warmup, WarmupPut)
warmup_fails == PutFails("warmup_put", WarmupPut)

warmup_returns ==
  /\ pc = "warmup_put"
  /\ WarmupPut \notin uploads
  /\ i' = i + 1
  /\ pc' = "warmup"
  /\ UNCHANGED <<catalogVars, storeVars, argVars, writes, commits>>

IndexKept == i' = i

\* Each of the two loops counts from 0.
RestartIndex == i' = 0

warmup_done ==
  /\ pc = "warmup"
  /\ i = args.warmup
  /\ RestartIndex
  /\ pc' = "write"
  /\ UNCHANGED <<catalogVars, storeVars, argVars, writes, commits>>

write_put == StartPut("write", "write_put", args.iterations, PartPut)
write_fails == PutFails("write_put", PartPut)

NotAwaited == TRUE

PutReturned == PartPut \notin uploads

write_returns ==
  /\ pc = "write_put"
  /\ PutReturned
  /\ writes' = writes + 1
  /\ pc' = "commit"
  /\ UNCHANGED <<catalogVars, storeVars, argVars, i, commits>>

CommitCall == [run |-> run, phase |-> "write", w |-> 0, n |-> i]

commit_file ==
  /\ pc = "commit"
  /\ Send(CommitCall, {})
  /\ pc' = "commit_file"
  /\ UNCHANGED <<storeVars, argVars, i, writes, commits>>

ErrIsSample == Receive(CommitCall, "error") /\ i' = i + 1 /\ commits' = commits + 1 /\ pc' = "write"

ErrIsAwaitedAgain == Receive(CommitCall, "error") /\ UNCHANGED <<pc, i, commits>>

\* The ? after the await.
CommitErr == Receive(CommitCall, "error") /\ pc' = "failed" /\ UNCHANGED <<i, commits>>

\* The bool of commit_file is dropped: a 409 is a sample like any other.
commit_returns ==
  /\ pc = "commit_file"
  /\ \/ /\ \E s \in {"2xx", "409"} : Receive(CommitCall, s)
        /\ i' = i + 1
        /\ commits' = commits + 1
        /\ pc' = "write"
     \/ CommitErr
  /\ UNCHANGED <<storeVars, argVars, writes>>

report ==
  /\ pc = "write"
  /\ i = args.iterations
  /\ pc' = "done"
  /\ UNCHANGED <<catalogVars, storeVars, argVars, i, writes, commits>>

-----------------------------------------------------------------------------
(* The process: killed at any point, started again on the same table.      *)

FreshProcess == i' = 0 /\ writes' = 0 /\ commits' = 0

Crash ==
  /\ pc \notin Exited
  /\ run < MaxRuns
  /\ pc' = "killed"
  /\ HangUp
  /\ FreshProcess
  /\ UNCHANGED <<storeVars, argVars>>

StartAgain ==
  /\ pc \in Exited
  /\ run < MaxRuns
  /\ run' = run + 1
  /\ args' \in ArgChoices
  /\ usedArgs' = usedArgs \cup {args'}
  /\ logAtStart' = Len(log)
  /\ pc' = "create_namespace"
  /\ FreshProcess
  /\ UNCHANGED <<catalogVars, storeVars>>

Terminated == pc \in Exited /\ run = MaxRuns /\ UNCHANGED vars

Main ==
  \/ create_namespace \/ create_table \/ load_table_uuid
  \/ warmup_put \/ warmup_returns \/ warmup_fails \/ warmup_done
  \/ write_put \/ write_returns \/ write_fails
  \/ commit_file \/ commit_returns \/ report

Next ==
  \/ Main
  \/ CatalogNext /\ UNCHANGED <<storeVars, clientVars>>
  \/ StoreNext /\ UNCHANGED <<catalogVars, clientVars>>
  \/ Crash
  \/ StartAgain
  \/ Terminated

Spec == Init /\ [][Next]_vars

\* The program is a task that its runtime polls, a PUT that was sent lands, and
\* the catalog answers the requests it holds.  Nothing is assumed of faults,
\* rivals, kills and restarts.
Fairness ==
  /\ WF_vars(Main)
  /\ WF_vars(StoreNext /\ UNCHANGED <<catalogVars, clientVars>>)
  /\ WF_vars(Progress /\ UNCHANGED <<storeVars, clientVars>>)

FairSpec == Spec /\ Fairness

-----------------------------------------------------------------------------
(* What the write benchmark leaves behind.                                 *)

\* The catalog never names a file that the bucket does not hold, whatever is
\* killed, lost or late.
NoDanglingReference ==
  \A c \in Landed \ {RivalCall} : <<"part", c.n>> \in DOMAIN objects

\* All starts so far were given the same --rows.
SameRows == \A a \in usedArgs : a.rows = args.rows

\* As long as all starts were given the same --rows, the dataset holds no row
\* id twice, although the warmup and every start write into one directory: a
\* start rewrites the files of the one before it, and the warmup's ids are out
\* of the reach of the iterations'.  With another --rows the ids of a new file
\* may be those of an old one's.
NoRowTwice ==
  SameRows =>
    \A g, h \in DOMAIN objects : g # h => objects[g] \cap objects[h] = {}

\* The samples of the catalog-commit phase against the pointer log.  A refused
\* commit is a sample too, but only a commit that landed in the meantime makes
\* the catalog refuse one, and each sample has one of its own: the table has
\* moved at least once for each, in every start, whoever else commits.  In the
\* first start on a table of its own the samples are the commits of the log,
\* in the order of the files.
SamplesAreTheLog ==
  pc \in {"write", "write_put", "commit", "done"} =>
    /\ commits <= Len(log) - logAtStart
    /\ run = 1 /\ RivalCall \notin Landed =>
         commits = Len(log) /\ \A m \in DOMAIN log : log[m].n = m - 1

\* Whatever the durations of the PUTs were, the p50 and the p95 of the report
\* are samples, and each is the nearest-rank percentile that the comment on
\* percentile names (common lib.rs:195) or a neighbour of it in the order.
ReportedPercentiles ==
  pc = "done" /\ writes > 0 =>
    \A durs \in [1..writes -> Durations], p \in {50, 95} :
      LET nearest == NearestRank(writes, p)
      IN \E r \in {nearest - 1, nearest, nearest + 1} : HasRank(durs, percentile(durs, p), r)

\* Whatever fails, conflicts or is left behind, a start of the program comes
\* to its end, and does not go on for ever over a commit that keeps failing.
Termination == []<>(pc \in Exited)

\* "Warmup (writes + commits, not measured)": when the measured loop begins,
\* the table has moved once for each file of the warmup.
WarmupCommits ==
  pc = "write" /\ i = 0 => Len(log) - logAtStart >= args.warmup

-----------------------------------------------------------------------------
(* The abstract specification that the write benchmark implements.         *)

Abstract == INSTANCE FileTable WITH
  stored <- objects,
  referenced <- {<<"part", c.n>> : c \in Landed \ {RivalCall}},
  agreed <- SameRows

\* Whatever is killed, lost or late, files only ever appear and the table
\* refers to none that is missing.  As long as all starts were given the same
\* --rows, a file that the table refers to keeps its rows, although later
\* starts, and late PUTs of earlier ones, write it again.
RefinesFileTable == Abstract!Spec
=============================================================================
