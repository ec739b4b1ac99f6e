------------------------------ MODULE CacheScan ------------------------------
(***************************************************************************)
(* The cold-versus-warm scan benchmark, crates/cache-scan/src/main.rs: it  *)
(* writes a dataset under its prefix of Warehouse, or reuses one, lists it *)
(* once, and scans what it has listed three ways, file by file.            *)
(*                                                                         *)
(* File f holds the rows f * rows .. (f + 1) * rows - 1 whoever writes it. *)
(* A listing holds a size for each file; since the size is a function of   *)
(* the rows, the model keeps the rows themselves in its place.             *)
(*                                                                         *)
(* This module has the actions of the program; EngineCompare composes them *)
(* with those of rust-vs-jvm, which scans the same dataset, and of         *)
(* read-write, which can write it.                                         *)
(*                                                                         *)
(* Bounds: ArgChoices, the --files, --rows and --rewrite it is started     *)
(* with, and MaxRuns, how often a program is started on the same prefix.   *)
(***************************************************************************)
EXTENDS Warehouse

CONSTANTS ArgChoices, NoCacheIters, WarmIters, MaxRuns

ASSUME CacheScanAssumption ==
  /\ ArgChoices \subseteq [files : Nat, rows : Nat, rewrite : BOOLEAN] /\ ArgChoices # {}
  /\ NoCacheIters \in Nat
  /\ WarmIters \in Nat
  /\ MaxRuns \in Nat \ {0}

\* A definition that no action uses is a plausible bug in the definition right
\* after it, which the mutants of PROJECT.json put in its place.

VARIABLES
  run,      \* how many programs have been started
  args,     \* the arguments of the last program that writes the dataset
  pc,       \* where the program is
  f,        \* the loop index of ensure_dataset
  listed,   \* the dataset as it was listed
  todo,     \* the files that the current pass has still to scan
  it,       \* the passes that the current phase has finished
  total,    \* total_rows of each phase
  cache     \* the content of the Foyer cache

datasetVars == <<run, args, f, listed>>
scanVars == <<todo, it, total, cache>>

Phases == {"no-cache", "cold", "warm"}

NoFiles == [g \in {} |-> {}]
NoTotals == [p \in Phases |-> 0]

CacheScanInit ==
  /\ StoreInit
  /\ run = 1
  /\ args \in ArgChoices
  /\ f = 0
  /\ listed = NoFiles
  /\ todo = {}
  /\ it = 0
  /\ total = NoTotals
  /\ cache = NoFiles

-----------------------------------------------------------------------------
(* ensure_bucket and ensure_dataset.                                       *)

\* A probe of the bucket that fails is followed by an attempt to create the
\* bucket and by a second probe.
ensure_bucket ==
  /\ \/ pc = "ensure_bucket" /\ pc' = "ensure_dataset" /\ UNCHANGED storeVars
     \/ pc = "ensure_bucket" /\ pc' = "probe_again" /\ ReadFails
     \/ pc = "probe_again" /\ pc' = "ensure_dataset" /\ UNCHANGED storeVars
     \/ pc = "probe_again" /\ pc' = "failed" /\ ReadFails
  /\ UNCHANGED <<datasetVars, scanVars>>

AnyFilesReused == ~args.rewrite /\ DOMAIN objects # {}

\* !args.rewrite && existing.len() >= args.files
Reused == ~args.rewrite /\ Cardinality(DOMAIN objects) >= args.files

ensure_dataset ==
  /\ pc = "ensure_dataset"
  /\ \/ Reused /\ pc' = "listed" /\ listed' = objects
     \/ ~Reused /\ pc' = "put" /\ UNCHANGED listed
  /\ UNCHANGED <<storeVars, run, args, f, scanVars>>

RowsOfRun(g) == ((g + run) * args.rows)..((g + run + 1) * args.rows - 1)

Rows(g) == (g * args.rows)..((g + 1) * args.rows - 1)

PutOf(g) == [run |-> run, file |-> g, content |-> Rows(g)]

put ==
  /\ pc = "put"
  /\ f < args.files
  /\ Upload(PutOf(f))
  /\ pc' = "putting"
  /\ UNCHANGED <<datasetVars, scanVars>>

put_returns ==
  /\ pc = "putting"
  /\ PutOf(f) \notin uploads
  /\ f' = f + 1
  /\ pc' = "put"
  /\ UNCHANGED <<storeVars, run, args, listed, scanVars>>

put_fails ==
  /\ pc = "putting"
  /\ PutOf(f) \in uploads
  /\ UploadFails(PutOf(f))
  /\ pc' = "failed"
  /\ UNCHANGED <<datasetVars, scanVars>>

list_files ==
  /\ pc = "put"
  /\ f = args.files
  /\ listed' = objects
  /\ pc' = "listed"
  /\ UNCHANGED <<storeVars, run, args, f, scanVars>>

\* Either of the two listings is an error.
list_fails ==
  /\ pc = "ensure_dataset" \/ (pc = "put" /\ f = args.files)
  /\ ReadFails
  /\ pc' = "failed"
  /\ UNCHANGED <<datasetVars, scanVars>>

-----------------------------------------------------------------------------
(* run(): the three phases over one listing and one cache.                 *)

ListedAnew == DOMAIN objects

\* Every pass scans the files of the one listing.
AllFiles == DOMAIN listed

start_scans ==
  /\ pc = "listed"
  /\ pc' = IF DOMAIN listed = {} THEN "failed" ELSE "no-cache"
  /\ todo' = AllFiles
  /\ UNCHANGED <<storeVars, datasetVars, it, total, cache>>

\* The files are sorted by path.
First == CHOOSE g \in todo : \A h \in todo : g <= h

ThroughStore(p, g) == IF p = "no-cache" THEN objects[g] ELSE Through(cache, {g})[g]

SizeNotGiven(content, g) == TRUE

\* with_file_size(file.size): a file whose size is no longer the listed one
\* has no footer where the reader looks for it.
Decodes(content, g) == content = listed[g]

scan_file(p) ==
  /\ pc = p
  /\ todo # {}
  /\ LET content == ThroughStore(p, First)
     IN \/ /\ Decodes(content, First)
           /\ total' = [total EXCEPT ![p] = @ + Cardinality(content)]
           /\ todo' = todo \ {First}
           /\ UNCHANGED pc
        \/ /\ ~Decodes(content, First)
           /\ pc' = "failed"
           /\ UNCHANGED <<total, todo>>
  /\ cache' = IF p = "no-cache" THEN cache ELSE Filled(cache, {First})
  /\ UNCHANGED <<storeVars, datasetVars, it>>

scan_fails(p) ==
  /\ pc = p
  /\ todo # {}
  /\ ReadFails
  /\ pc' = "failed"
  /\ UNCHANGED <<datasetVars, scanVars>>

Max1(iters) == IF iters = 0 THEN 1 ELSE iters
Iters(p) == CASE p = "no-cache" -> Max1(NoCacheIters) [] p = "cold" -> 1 [] p = "warm" -> Max1(WarmIters)
NextPhase(p) == CASE p = "no-cache" -> "cold" [] p = "cold" -> "warm" [] p = "warm" -> "scanned"

pass_ends(p) ==
  /\ pc = p
  /\ todo = {}
  /\ \/ it + 1 < Iters(p) /\ it' = it + 1 /\ UNCHANGED pc
     \/ it + 1 = Iters(p) /\ it' = 0 /\ pc' = NextPhase(p)
  /\ todo' = AllFiles
  /\ UNCHANGED <<storeVars, datasetVars, total, cache>>

CacheScanRun ==
  \/ ensure_bucket \/ ensure_dataset
  \/ put \/ put_returns \/ put_fails \/ list_files \/ list_fails
  \/ start_scans
  \/ \E p \in Phases : scan_file(p) \/ scan_fails(p) \/ pass_ends(p)
=============================================================================
