------------------------------ MODULE ReadWrite ------------------------------
(***************************************************************************)
(* The round-trip benchmark, crates/read-write/src/main.rs: it lets a      *)
(* stock client try the catalog, writes Parquet files of rows rows each,   *)
(* one commit a file, and scans what it finds under its prefix in three    *)
(* ways, against IcebergCatalog and Warehouse.                             *)
(*                                                                         *)
(* File f holds the rows f * rows .. (f + 1) * rows - 1 whoever writes it. *)
(* A commit is the call [run, phase, w, n] of IcebergCatalog with n the    *)
(* bench.files it sets; it sets bench.last_file to file n - 1 with it.     *)
(*                                                                         *)
(* Bounds: ArgChoices, the --files and --rows the program is started with, *)
(* and MaxRuns, how often it is started on the same table and prefix.      *)
(***************************************************************************)
EXTENDS StockProbe

CONSTANTS ArgChoices, NoCacheIters, WarmIters, MaxRuns

ASSUME ReadWriteAssumption ==
  /\ ArgChoices \subseteq [files : Nat, rows : Nat] /\ ArgChoices # {}
  /\ NoCacheIters \in Nat
  /\ WarmIters \in Nat
  /\ MaxRuns \in Nat \ {0}

\* A definition that no action uses is a plausible bug in the definition right
\* after it, which the mutants of PROJECT.json put in its place.

VARIABLES
  run,        \* which start of the program this is
  args,       \* its arguments
  pc,         \* where run() is
  f,          \* the loop index of the write phase
  commits,    \* commit_durs.len()
  conflicts,  \* commit_conflicts
  j,          \* the scans done by the current measure_read
  cache,      \* the content of the Foyer cache
  reads,      \* what the threshold's scan and the first scan of each pass have read
  usedArgs    \* history: the arguments of all runs so far

writeVars == <<f, commits, conflicts>>
readVars == <<j, cache, reads>>
benchVars == <<run, args, pc, writeVars, readVars, usedArgs>>
clientVars == <<benchVars, probeVars>>
vars == <<catalogVars, storeVars, clientVars>>

Calls == [run : 1..MaxRuns, phase : {"write"}, w : {0}, n : Nat]

Passes == {"read-no-cache", "read-cold", "read-warm"}
Scans == Passes \cup {"filter_threshold"}
Exited == {"killed", "failed", "done"}

TypeOK ==
  /\ CatalogTypeOK(Calls, Nat)
  /\ StoreTypeOK(Nat)
  /\ run \in 1..MaxRuns
  /\ args \in ArgChoices
  /\ pc \in {"stock_roundtrip", "create_namespace", "create_table", "load_table_uuid",
             "put", "putting", "commit", "committing", "snapshot_count"} \cup Scans \cup Exited
  /\ ProbeTypeOK
  /\ f \in 0..args.files
  /\ commits \in Nat /\ conflicts \in Nat
  /\ j \in 0..(NoCacheIters + WarmIters + 1)
  /\ \A g \in DOMAIN cache : g \in Nat /\ cache[g] \in SUBSET Nat
  /\ DOMAIN reads = Scans
  /\ usedArgs \in SUBSET ArgChoices

NothingRead == [p \in Scans |-> {}]

Init ==
  /\ CatalogInit
  /\ StoreInit
  /\ run = 1
  /\ args \in ArgChoices
  /\ pc = "stock_roundtrip"
  /\ ProbeInit
  /\ f = 0 /\ commits = 0 /\ conflicts = 0
  /\ j = 0
  /\ cache = [g \in {} |-> {}]
  /\ reads = NothingRead
  /\ usedArgs = {args}

-----------------------------------------------------------------------------
(* run(): the stock client and the table.                                  *)

\* stock_roundtrip runs the probe, and never fails the bench.
stock_roundtrip ==
  /\ pc = "stock_roundtrip"
  /\ \/ ProbeStep /\ UNCHANGED pc
     \/ probe = "exited" /\ pc' = "create_namespace" /\ UNCHANGED <<catalogVars, storeVars, probeVars>>
  /\ UNCHANGED <<run, args, writeVars, readVars, usedArgs>>

setupUnchanged ==
  UNCHANGED <<log, recorded, requests, reading, open, answers, storeVars,
              run, args, probeVars, writeVars, readVars, usedArgs>>

Rank(c) == CASE c = "nothing" -> 0 [] c = "namespace" -> 1 [] c = "table" -> 2

\* 2xx and 409 go on; anything else ends the program, done or not done.
CreateRequest(what, after) ==
  LET result == IF Rank(created) < Rank(what) THEN what ELSE created
  IN \/ created' = result /\ pc' = after /\ UNCHANGED faults
     \/ faults < MaxFaults /\ faults' = faults + 1 /\ created' \in {created, result} /\ pc' = "failed"

create_namespace ==
  /\ pc = "create_namespace"
  /\ CreateRequest("namespace", "create_table")
  /\ setupUnchanged

create_table ==
  /\ pc = "create_table"
  /\ CreateRequest("table", "load_table_uuid")
  /\ setupUnchanged

load_table_uuid ==
  /\ pc = "load_table_uuid"
  /\ \/ pc' = "put" /\ UNCHANGED faults
     \/ faults < MaxFaults /\ faults' = faults + 1 /\ pc' = "failed"
  /\ UNCHANGED created
  /\ setupUnchanged

-----------------------------------------------------------------------------
(* write_phase: PUT a file, then commit it.                                *)

FileOfRun(g) == {r + run : r \in (g * args.rows)..((g + 1) * args.rows - 1)}

\* encode_file: the rows of file g are a function of g and of the arguments.
encode_file(g) == (g * args.rows)..((g + 1) * args.rows - 1)

PutOf(g) == [run |-> run, file |-> g, content |-> encode_file(g)]
CommitOf(g) == [run |-> run, phase |-> "write", w |-> 0, n |-> g + 1]

InclusiveLoop == f <= args.files

\* for f in 0..args.files
MoreFiles == f < args.files

put ==
  /\ pc = "put"
  /\ MoreFiles
  /\ Upload(PutOf(f))
  /\ pc' = "putting"
  /\ UNCHANGED <<catalogVars, run, args, probeVars, writeVars, readVars, usedArgs>>

NotAwaited == TRUE

PutReturned == PutOf(f) \notin uploads

put_returns ==
  /\ pc = "putting"
  /\ \/ PutReturned /\ pc' = "commit" /\ UNCHANGED storeVars
     \/ PutOf(f) \in uploads /\ UploadFails(PutOf(f)) /\ pc' = "failed"
  /\ UNCHANGED <<catalogVars, run, args, probeVars, writeVars, readVars, usedArgs>>

commit_file ==
  /\ pc = "commit"
  /\ Send(CommitOf(f), {})
  /\ pc' = "committing"
  /\ UNCHANGED <<storeVars, run, args, probeVars, writeVars, readVars, usedArgs>>

ConflictDropped == conflicts' = conflicts

\* if !ok { commit_conflicts += 1 }
CountConflict == conflicts' = conflicts + 1

commit_returns ==
  /\ pc = "committing"
  /\ \/ Receive(CommitOf(f), "2xx") /\ UNCHANGED conflicts
     \/ Receive(CommitOf(f), "409") /\ CountConflict
  /\ commits' = commits + 1
  /\ f' = f + 1
  /\ pc' = "put"
  /\ UNCHANGED <<storeVars, run, args, probeVars, readVars, usedArgs>>

ErrIsAwaitedAgain ==
  /\ pc = "committing"
  /\ Receive(CommitOf(f), "error")
  /\ UNCHANGED <<storeVars, run, args, pc, probeVars, writeVars, readVars, usedArgs>>

commit_fails ==
  /\ pc = "committing"
  /\ Receive(CommitOf(f), "error")
  /\ pc' = "failed"
  /\ UNCHANGED <<storeVars, run, args, probeVars, writeVars, readVars, usedArgs>>

write_phase_done ==
  /\ pc = "put"
  /\ f = args.files
  /\ pc' = "snapshot_count"
  /\ UNCHANGED <<catalogVars, storeVars, run, args, probeVars, writeVars, readVars, usedArgs>>

\* The status of the answer is not looked at; only a lost one is an error.
snapshot_count ==
  /\ pc = "snapshot_count"
  /\ \/ pc' = "filter_threshold" /\ UNCHANGED faults
     \/ faults < MaxFaults /\ faults' = faults + 1 /\ pc' = "failed"
  /\ UNCHANGED created
  /\ setupUnchanged

-----------------------------------------------------------------------------
(* The threshold and the read passes.  The threshold is the midpoint of    *)
(* the values that a first scan finds, so that a single row never matches. *)

filter_threshold ==
  /\ pc = "filter_threshold"
  /\ \/ /\ reads' = [reads EXCEPT !["filter_threshold"] = Contents(objects)]
        /\ pc' = "read-no-cache"
        /\ UNCHANGED storeVars
     \/ /\ ReadFails
        /\ pc' = "failed"
        /\ UNCHANGED reads
  /\ UNCHANGED <<catalogVars, run, args, probeVars, writeVars, j, cache, usedArgs>>

Iters(p) == CASE p = "read-no-cache" -> IF NoCacheIters = 0 THEN 1 ELSE NoCacheIters
              [] p = "read-cold"     -> 1
              [] p = "read-warm"     -> IF WarmIters = 0 THEN 1 ELSE WarmIters

Seen(p) == IF p = "read-no-cache" THEN Contents(objects)
                                  ELSE Contents(Through(cache, DOMAIN objects))

Matched(seen) == Cardinality(UNION {c[2] : c \in seen}) > 1

\* One scan of measure_read(p), which lists the prefix anew.  Scans that read
\* different rows may or may not match the same number of them, and only the
\* latter is an error; so is, perhaps, a size that does not fit the content.
run_scan(p) ==
  /\ pc = p
  /\ j < Iters(p)
  /\ cache' = IF p = "read-no-cache" THEN cache ELSE Filled(cache, DOMAIN objects)
  /\ \/ /\ reads' = IF j = 0 THEN [reads EXCEPT ![p] = Seen(p)] ELSE reads
        /\ j' = j + 1
        /\ UNCHANGED pc
     \/ /\ (j > 0 /\ Seen(p) # reads[p]) \/ (p # "read-no-cache" /\ Outdated(cache))
        /\ pc' = "failed"
        /\ UNCHANGED <<reads, j>>
  /\ UNCHANGED <<catalogVars, storeVars, run, args, probeVars, writeVars, usedArgs>>

scan_fails(p) ==
  /\ pc = p
  /\ j < Iters(p)
  /\ ReadFails
  /\ pc' = "failed"
  /\ UNCHANGED <<catalogVars, run, args, probeVars, writeVars, readVars, usedArgs>>

\* matched == 0 is an error.  Rows other than those the threshold was taken
\* from may lie on either side of it.
AfterNoCache ==
  IF reads["read-no-cache"] # reads["filter_threshold"] THEN {"read-cold", "failed"}
  ELSE IF Matched(reads["read-no-cache"]) THEN {"read-cold"} ELSE {"failed"}

AfterPass(p) == CASE p = "read-no-cache" -> AfterNoCache
                  [] p = "read-cold"     -> {"read-warm"}
                  [] p = "read-warm"     -> {"done"}

pass_done(p) ==
  /\ pc = p
  /\ j = Iters(p)
  /\ j' = 0
  /\ pc' \in AfterPass(p)
  /\ UNCHANGED <<catalogVars, storeVars, run, args, probeVars, writeVars, cache, reads, usedArgs>>

-----------------------------------------------------------------------------
(* The process: killed at any point, started again with any arguments.     *)

FreshProcess ==
  /\ ProbeFresh
  /\ f' = 0 /\ commits' = 0 /\ conflicts' = 0
  /\ j' = 0
  /\ cache' = [g \in {} |-> {}]
  /\ reads' = NothingRead

Crash ==
  /\ pc \notin Exited
  /\ run < MaxRuns
  /\ pc' = "killed"
  /\ HangUp
  /\ FreshProcess
  /\ UNCHANGED <<storeVars, run, args, usedArgs, tbl, tables, namespace>>

StartAgain ==
  /\ pc \in Exited
  /\ run < MaxRuns
  /\ run' = run + 1
  /\ args' \in ArgChoices
  /\ usedArgs' = usedArgs \cup {args'}
  /\ pc' = "stock_roundtrip"
  /\ FreshProcess
  /\ UNCHANGED <<catalogVars, storeVars, tbl, tables, namespace>>

Terminated == pc \in Exited /\ run = MaxRuns /\ UNCHANGED vars

Run ==
  \/ stock_roundtrip \/ create_namespace \/ create_table \/ load_table_uuid
  \/ put \/ put_returns \/ commit_file \/ commit_returns \/ commit_fails
  \/ write_phase_done \/ snapshot_count \/ filter_threshold
  \/ \E p \in Passes : run_scan(p) \/ scan_fails(p) \/ pass_done(p)

Next ==
  \/ Run
  \/ CatalogNext /\ UNCHANGED <<storeVars, clientVars>>
  \/ StoreNext /\ UNCHANGED <<catalogVars, clientVars>>
  \/ Crash
  \/ StartAgain
  \/ Terminated

Spec == Init /\ [][Next]_vars

\* The program is a task that its runtime polls, a PUT that was sent lands,
\* and the catalog answers the requests it holds: the clients of both have no
\* timeout.  Nothing is assumed of faults, rivals, kills and restarts.
Fairness ==
  /\ WF_vars(Run)
  /\ WF_vars(StoreNext /\ UNCHANGED <<catalogVars, clientVars>>)
  /\ WF_vars(Progress /\ UNCHANGED <<storeVars, clientVars>>)

FairSpec == Spec /\ Fairness

-----------------------------------------------------------------------------
(* What the round-trip is worth.                                           *)

\* The catalog never names a file that the bucket does not hold: the commit
\* of a file is sent after its PUT has returned, so whatever is killed, lost
\* or late, a commit that has landed finds its file in the store.
NoDanglingReference ==
  \A c \in Landed \ {RivalCall} : c.n - 1 \in DOMAIN objects

\* The commit phase of a published report accounts for the commits: its extra
\* "conflicts" is the number of files whose commit the catalog refused, and
\* every other file's commit has landed, since any other answer would have
\* ended the program.  (What the notes of the report say is AcceptedCommits.)
ReportAccountsForLog ==
  pc = "done" =>
    /\ commits = args.files
    /\ Cardinality({c \in Landed : c.run = run}) = args.files - conflicts

\* Runs with the same arguments write the same rows to the same names, so a
\* run that was killed and whose last PUT lands during the next one does no
\* harm: the three passes all read the rows that the write phase was asked
\* for, each once ("the Parquet the write phase produced").
ReadsWhatItWrote ==
  usedArgs = {args} /\ pc = "done" =>
    \A p \in Passes : reads[p] = {<<g, encode_file(g)>> : g \in 0..(args.files - 1)}

\* Runs with the same arguments never fail for what other runs have done: as
\* long as no request fails, neither the leftovers of a killed run nor its
\* late PUTs and commits, nor a rival's, make create_table, a commit, the
\* stability check of a pass or the check for matched rows end the program.
OnlyFaultsFail ==
  faults = 0 /\ outages = 0 /\ usedArgs = {args} /\ args.files * args.rows > 1 => pc # "failed"

\* As long as the arguments stay the same, a file that a landed commit names
\* keeps its rows, although every run writes it again.
ReferencedFilesAreImmutable ==
  [][usedArgs' = {args} =>
       \A c \in Landed \ {RivalCall} : objects'[c.n - 1] = objects[c.n - 1]]_objects

\* A round-trip that is reported as ok is the one append of this probe's own
\* table ("a fresh, empty table -> snapshots after append is deterministically
\* 1"), although the name may be an earlier probe's, and although the failures
\* of create_namespace and drop_table are ignored.
OkIsOneSnapshot == roundtrip = "ok" => snapshots_after = 1

\* Whatever fails, conflicts or is left behind, a start of the program comes
\* to its end.
Termination == []<>(pc \in Exited)

\* "{files} accepted LakeCat set-properties commits (durable metadata.json
\* each)", which the notes of a report say whatever "conflicts" is: each file
\* of the run has a commit that landed.
AcceptedCommits ==
  pc = "done" => Cardinality({c \in Landed : c.run = run}) = args.files

\* READ_CAVEAT's claim for any sequence of runs: the scans read the Parquet
\* that this run's write phase produced, and nothing else.
ReadsOnlyItsOwn ==
  pc = "done" => \A p \in Passes : \A c \in reads[p] : c[1] < args.files
=============================================================================
