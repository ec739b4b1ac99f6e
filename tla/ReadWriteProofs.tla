---------------------------- MODULE ReadWriteProofs ----------------------------
(***************************************************************************)
(* What holds of the round-trip benchmark for every number of files, rows, *)
(* scans, runs and faults.                                                 *)
(***************************************************************************)
EXTENDS ReadWrite, CatalogProofs

-----------------------------------------------------------------------------
(* What the groups of actions leave alone.                                 *)

Setup == {"stock_roundtrip", "create_namespace", "create_table", "load_table_uuid"}

SetupStep ==
  stock_roundtrip \/ create_namespace \/ create_table \/ load_table_uuid \/ snapshot_count

ScanStep ==
  filter_threshold \/ \E p \in Passes : run_scan(p) \/ scan_fails(p) \/ pass_done(p)

\* The probe has tables of its own, and shares the faults and outages.
LEMMA ProbeFrame ==
  ASSUME ProbeStep
  PROVE  /\ UNCHANGED <<otherCatalogVars, objects, uploads>>
         /\ faults' \in {faults, faults + 1} /\ outages' \in {outages, outages + 1}
  BY DEF ProbeStep, spawn_probe, init_catalog, probe_create_namespace, drop_table,
    probe_create_table, append, scan, probe_dies, NoFault, CatalogFault, StoreFault, ReadFails,
    catalogVars, otherCatalogVars, storeVars

\* What the steps before the first PUT change, and where they lead.
LEMMA SetupFrame ==
  ASSUME SetupStep
  PROVE  /\ UNCHANGED <<log, recorded, requests, reading, open, answers, objects, uploads,
                        run, args, writeVars, readVars, usedArgs>>
         /\ \/ pc \in Setup /\ pc' \in Setup \cup {"put", "failed"}
            \/ pc = "snapshot_count" /\ pc' \in {"filter_threshold", "failed"}
         /\ faults' \in {faults, faults + 1} /\ outages' \in {outages, outages + 1}
         /\ pc' = "failed" => faults' = faults + 1
  <1>1. CASE stock_roundtrip
    <2>1. CASE ProbeStep /\ UNCHANGED pc
      BY <1>1, <2>1, ProbeFrame DEF stock_roundtrip, otherCatalogVars, Setup
    <2>2. CASE ~(ProbeStep /\ UNCHANGED pc)
      BY <1>1, <2>2 DEF stock_roundtrip, catalogVars, storeVars, Setup
    <2>. QED
      BY <2>1, <2>2
  <1>2. CASE create_namespace \/ create_table \/ load_table_uuid \/ snapshot_count
    BY <1>2 DEF create_namespace, create_table, load_table_uuid, snapshot_count, CreateRequest,
      setupUnchanged, storeVars, Setup
  <1>. QED
    BY <1>1, <1>2 DEF SetupStep

\* What the read passes change, and where they lead.
LEMMA ScanFrame ==
  ASSUME ScanStep
  PROVE  /\ UNCHANGED <<catalogVars, objects, uploads, run, args, probeVars, writeVars, usedArgs>>
         /\ pc \in Scans /\ pc' \in Scans \cup {"done", "failed"}
         /\ outages' \in {outages, outages + 1}
  <1>1. CASE filter_threshold
    BY <1>1 DEF filter_threshold, ReadFails, storeVars, Scans, Passes
  <1>2. ASSUME NEW p \in Passes, run_scan(p) \/ scan_fails(p)
        PROVE  /\ UNCHANGED <<catalogVars, objects, uploads, run, args, probeVars, writeVars, usedArgs>>
               /\ pc = p /\ pc' \in {p, "failed"} /\ outages' \in {outages, outages + 1}
    BY <1>2 DEF run_scan, scan_fails, ReadFails, storeVars
  <1>3. ASSUME NEW p \in Passes, pass_done(p)
        PROVE  /\ UNCHANGED <<catalogVars, objects, uploads, run, args, probeVars, writeVars, usedArgs>>
               /\ pc = p /\ pc' \in Scans \cup {"done", "failed"} /\ outages' = outages
    <2>1. pc' \in {"read-cold", "read-warm", "done", "failed"}
      BY <1>3 DEF pass_done, AfterPass, AfterNoCache, Passes
    <2>. QED
      BY <1>3, <2>1 DEF pass_done, storeVars, Scans, Passes
  <1>. QED
    BY <1>1, <1>2, <1>3 DEF ScanStep, Scans

-----------------------------------------------------------------------------
(* The probe.                                                              *)

\* The probe appends to an empty table of its own, and scans it after that.
ProbeInv ==
  /\ probe = "append" => tbl \in DOMAIN tables /\ tables[tbl] = 0
  /\ probe = "scan" => tbl \in DOMAIN tables /\ tables[tbl] = 1
  /\ roundtrip = "ok" => snapshots_after = 1

\* A step of the stock probe keeps its types and its invariant.
LEMMA ProbeStepInv ==
  ASSUME ProbeTypeOK, ProbeInv, ProbeStep
  PROVE  ProbeTypeOK' /\ ProbeInv'
  <1>1. CASE spawn_probe
    BY <1>1 DEF spawn_probe, GoesOn, emit, ProbeTypeOK, ProbeInv
  <1>2. CASE init_catalog
    BY <1>2 DEF init_catalog, GoesOn, emit, ProbeTypeOK, ProbeInv
  <1>3. CASE probe_create_namespace
    BY <1>3 DEF probe_create_namespace, GoesOn, ProbeTypeOK, ProbeInv
  <1>4. CASE drop_table
    <2>1. /\ probe' = "create_table" /\ UNCHANGED <<roundtrip, snapshots_after, tbl, namespace>>
          /\ tables' \in {tables, Dropped}
      BY <1>4 DEF drop_table, GoesOn
    <2>2. DOMAIN Dropped \subseteq DOMAIN tables /\ \A t \in DOMAIN Dropped : Dropped[t] = tables[t]
      BY DEF Dropped
    <2>3. DOMAIN tables' \subseteq DOMAIN tables /\ \A t \in DOMAIN tables' : tables'[t] = tables[t]
      BY <2>1, <2>2
    <2>. QED
      BY <2>1, <2>3 DEF ProbeTypeOK, ProbeInv
  <1>5. CASE probe_create_table
    <2>1. /\ UNCHANGED <<snapshots_after, tbl, namespace>>
          /\ \/ CanCreate /\ tables' = Created /\ probe' = "append" /\ UNCHANGED roundtrip
             \/ tables' \in {tables, Created} /\ probe' = "exited" /\ roundtrip' = "gated"
      BY <1>5 DEF probe_create_table, GoesOn, emit
    <2>2. /\ DOMAIN Created = DOMAIN tables \cup {tbl}
          /\ \A t \in DOMAIN Created : Created[t] = IF t \in DOMAIN tables THEN tables[t] ELSE 0
      BY DEF Created
    <2>3. ProbeTypeOK'
      BY <2>1, <2>2 DEF ProbeTypeOK
    <2>. QED
      BY <2>1, <2>2, <2>3 DEF ProbeInv, CanCreate
  <1>6. CASE append
    <2>1. /\ UNCHANGED <<snapshots_after, tbl, namespace>> /\ probe = "append"
          /\ \/ tables' = Appended /\ probe' = "scan" /\ UNCHANGED roundtrip
             \/ tables' \in {tables, Appended} /\ probe' = "exited" /\ roundtrip' = "gated"
      BY <1>6 DEF append, GoesOn, emit
    <2>2. tbl \in DOMAIN tables /\ tables[tbl] = 0
      BY <2>1 DEF ProbeInv
    <2>3. /\ DOMAIN Appended = DOMAIN tables /\ Appended[tbl] = 1
          /\ \A t \in DOMAIN tables : t # tbl => Appended[t] = tables[t]
      BY <2>2 DEF Appended
    <2>4. ProbeTypeOK'
      BY <2>1, <2>2, <2>3 DEF ProbeTypeOK
    <2>. QED
      BY <2>1, <2>2, <2>3, <2>4 DEF ProbeInv
  <1>7. CASE scan
    BY <1>7 DEF scan, emit, ProbeTypeOK, ProbeInv
  <1>8. CASE probe_dies
    BY <1>8 DEF probe_dies, emit, ProbeTypeOK, ProbeInv
  <1>. QED
    BY <1>1, <1>2, <1>3, <1>4, <1>5, <1>6, <1>7, <1>8 DEF ProbeStep

\* Everything but the probe leaves its variables alone, or starts it afresh.
LEMMA ProbeNext ==
  ASSUME ProbeTypeOK, ProbeInv, [Next]_vars
  PROVE  ProbeTypeOK' /\ ProbeInv'
  <1>1. CASE UNCHANGED probeVars
    BY <1>1 DEF probeVars, ProbeTypeOK, ProbeInv
  <1>2. CASE stock_roundtrip
    BY <1>1, <1>2, ProbeStepInv DEF stock_roundtrip
  <1>3. CASE create_namespace \/ create_table \/ load_table_uuid \/ snapshot_count
    BY <1>1, <1>3 DEF create_namespace, create_table, load_table_uuid, snapshot_count, setupUnchanged
  <1>4. CASE ScanStep
    BY <1>1, <1>4, ScanFrame
  <1>5. CASE put \/ put_returns \/ commit_file \/ commit_returns \/ commit_fails \/ write_phase_done
    BY <1>1, <1>5 DEF put, put_returns, commit_file, commit_returns, commit_fails, write_phase_done
  <1>6. CASE Crash \/ StartAgain
    BY <1>6 DEF Crash, StartAgain, FreshProcess, ProbeFresh, ProbeTypeOK, ProbeInv
  <1>. QED
    BY <1>1, <1>2, <1>3, <1>4, <1>5, <1>6 DEF Next, Run, ScanStep, Terminated, vars, clientVars

\* The types and the invariant of the probe hold at the start.
LEMMA ProbeStart == Init => ProbeTypeOK /\ ProbeInv
  <1>. SUFFICES ASSUME Init PROVE ProbeTypeOK /\ ProbeInv
    OBVIOUS
  <1>1. /\ probe = "spawn" /\ tbl \in Names /\ DOMAIN tables = {}
        /\ namespace = FALSE /\ roundtrip = "none" /\ snapshots_after = 0
    BY DEF Init, ProbeInit
  <1>. QED
    BY <1>1 DEF ProbeTypeOK, ProbeInv

\* A round-trip that is reported as ok is the one append of the probe's own
\* table, however often probes of the same name failed half-way.
THEOREM OkIsOneSnapshotHolds == Spec => []OkIsOneSnapshot
  <1>1. ProbeInv => OkIsOneSnapshot
    BY DEF ProbeInv, OkIsOneSnapshot
  <1>. QED
    BY <1>1, ProbeStart, ProbeNext, PTL DEF Spec

-----------------------------------------------------------------------------
(* Types.                                                                  *)

\* What the program has of its own is of the right type.
ClientTypeOK ==
  /\ run \in 1..MaxRuns
  /\ args \in ArgChoices
  /\ pc \in Setup \cup {"put", "putting", "commit", "committing", "snapshot_count"}
            \cup Scans \cup Exited
  /\ f \in Nat /\ f <= args.files
  /\ commits \in Nat /\ conflicts \in Nat
  /\ j \in Nat
  /\ \A g \in DOMAIN cache : g \in Nat /\ cache[g] \in SUBSET Nat
  /\ DOMAIN reads = Scans
  /\ usedArgs \in SUBSET ArgChoices

\* The loops: f counts the files, and j the scans of a pass.
IndexInv ==
  /\ pc \in Setup => f = 0
  /\ pc \in {"putting", "commit", "committing"} => f < args.files
  /\ pc \in {"snapshot_count", "done"} \cup Scans => f = args.files
  /\ pc \notin Passes \cup {"failed"} => j = 0
  /\ \A p \in Passes : pc = p => j <= Iters(p)
  /\ j <= NoCacheIters + WarmIters + 1
  /\ args \in usedArgs

TypeInv == CatalogTypeOK(Calls, Nat) /\ StoreTypeOK(Nat) /\ ClientTypeOK /\ ProbeTypeOK /\ IndexInv

\* The types of the constants.
LEMMA Sizes ==
  /\ NoCacheIters \in Nat /\ WarmIters \in Nat /\ MaxRuns \in Nat \ {0}
  /\ \A a \in ArgChoices : a.files \in Nat /\ a.rows \in Nat
  BY ReadWriteAssumption

\* A read phase has at least one pass.
LEMMA ItersType ==
  \A p \in Passes : Iters(p) \in Nat \ {0} /\ Iters(p) <= NoCacheIters + WarmIters + 1
  BY Sizes DEF Passes, Iters

\* The strengthened type invariant implies the one that the run checks.
LEMMA TypeInvImplies == TypeInv => TypeOK
  <1>. SUFFICES ASSUME TypeInv PROVE TypeOK
    OBVIOUS
  <1>1. args.files \in Nat
    BY Sizes DEF TypeInv, ClientTypeOK
  <1>2. f \in 0..args.files
    BY <1>1 DEF TypeInv, ClientTypeOK
  <1>3. j \in 0..(NoCacheIters + WarmIters + 1)
    BY Sizes DEF TypeInv, ClientTypeOK, IndexInv
  <1>4. pc \in {"stock_roundtrip", "create_namespace", "create_table", "load_table_uuid",
             "put", "putting", "commit", "committing", "snapshot_count"} \cup Scans \cup Exited
    BY DEF TypeInv, ClientTypeOK, Setup
  <1>. QED
    BY <1>2, <1>3, <1>4 DEF TypeInv, ClientTypeOK, TypeOK

\* The PUTs and the commits of the program are of the right type.
LEMMA EncodeType ==
  ASSUME TypeInv, NEW g \in Nat
  PROVE  encode_file(g) \in SUBSET Nat
  <1>1. g * args.rows \in Nat
    BY Sizes DEF TypeInv, ClientTypeOK
  <1>. QED
    BY <1>1 DEF encode_file

\* The PUT of the file that is next has its type.
LEMMA PutType ==
  ASSUME TypeInv
  PROVE  /\ PutOf(f) \in [run : Nat, file : Nat, content : SUBSET Nat]
         /\ CommitOf(f) \in Calls /\ CommitOf(f).n = f + 1 /\ CommitOf(f).run = run
         /\ CommitOf(f) # RivalCall /\ run \in Nat /\ run > 0
  <1>1. f \in Nat /\ run \in 1..MaxRuns
    BY DEF TypeInv, ClientTypeOK
  <1>2. encode_file(f) \in SUBSET Nat
    BY <1>1, EncodeType
  <1>. QED
    BY <1>1, <1>2 DEF PutOf, CommitOf, Calls, RivalCall

\* A PUT that lands replaces its file and no other.
LEMMA LandsType ==
  ASSUME StoreTypeOK(Nat), NEW up \in uploads, Lands(up)
  PROVE  /\ StoreTypeOK(Nat)'
         /\ DOMAIN objects' = DOMAIN objects \cup {up.file}
         /\ \A g \in DOMAIN objects' : objects'[g] = IF g = up.file THEN up.content ELSE objects[g]
         /\ uploads' = uploads \ {up} /\ outages' = outages
  <1>1. up.file \in Nat /\ up.content \in SUBSET Nat
    BY DEF StoreTypeOK
  <1>2. /\ DOMAIN objects' = DOMAIN objects \cup {up.file}
        /\ \A g \in DOMAIN objects' : objects'[g] = IF g = up.file THEN up.content ELSE objects[g]
        /\ uploads' = uploads \ {up} /\ outages' = outages
    BY DEF Lands, Overwrite
  <1>. QED
    BY <1>1, <1>2 DEF StoreTypeOK

\* The strengthened type invariant holds at the start.
LEMMA TypeInit == Init => TypeInv
  <1>. SUFFICES ASSUME Init PROVE TypeInv
    OBVIOUS
  <1>1. CatalogTypeOK(Calls, Nat)
    BY DEF Init, CatalogInit, CatalogTypeOK
  <1>2. StoreTypeOK(Nat)
    BY DEF Init, StoreInit, StoreTypeOK
  <1>3. args \in ArgChoices /\ args.files \in Nat /\ usedArgs = {args} /\ f = 0 /\ j = 0
    BY Sizes DEF Init
  <1>4. ClientTypeOK
    BY <1>3, Sizes DEF Init, ClientTypeOK, NothingRead, Setup
  <1>5. IndexInv
    BY <1>3, Sizes DEF Init, IndexInv, Setup, Scans, Passes
  <1>. QED
    BY <1>1, <1>2, <1>4, <1>5, ProbeStart DEF TypeInv

\* The steps before the first PUT keep the type of what the catalog has created.
LEMMA SetupCreates ==
  ASSUME SetupStep, created \in {"nothing", "namespace", "table"}
  PROVE  created' \in {"nothing", "namespace", "table"}
  <1>1. CASE stock_roundtrip
    <2>1. ProbeStep => created' = created
      BY ProbeFrame DEF otherCatalogVars
    <2>. QED
      BY <1>1, <2>1 DEF stock_roundtrip, catalogVars
  <1>2. CASE create_namespace \/ create_table \/ load_table_uuid \/ snapshot_count
    BY <1>2 DEF create_namespace, create_table, load_table_uuid, snapshot_count, CreateRequest
  <1>. QED
    BY <1>1, <1>2 DEF SetupStep

\* The steps before the first PUT keep the types.
LEMMA SetupType ==
  ASSUME TypeInv, SetupStep, ProbeTypeOK'
  PROVE  TypeInv'
  <1>1. CatalogTypeOK(Calls, Nat) /\ StoreTypeOK(Nat) /\ ClientTypeOK /\ IndexInv
    BY DEF TypeInv
  <1>2. /\ UNCHANGED <<log, recorded, requests, reading, open, answers, objects, uploads,
                       run, args, f, commits, conflicts, j, cache, reads, usedArgs>>
        /\ \/ pc \in Setup /\ pc' \in Setup \cup {"put", "failed"}
           \/ pc = "snapshot_count" /\ pc' \in {"filter_threshold", "failed"}
        /\ faults' \in {faults, faults + 1} /\ outages' \in {outages, outages + 1}
    BY SetupFrame DEF writeVars, readVars
  <1>3. CatalogTypeOK(Calls, Nat)'
    <2>1. created' \in {"nothing", "namespace", "table"}
      BY <1>1, SetupCreates DEF CatalogTypeOK
    <2>2. faults' \in Nat
      BY <1>1, <1>2 DEF CatalogTypeOK
    <2>. QED
      BY <1>1, <1>2, <2>1, <2>2 DEF CatalogTypeOK, Calls, RivalCall, Statuses
  <1>4. StoreTypeOK(Nat)'
    BY <1>1, <1>2 DEF StoreTypeOK
  <1>5. ClientTypeOK'
    BY <1>1, <1>2 DEF ClientTypeOK, Setup, Exited, Scans
  <1>6. IndexInv'
    BY <1>1, <1>2 DEF IndexInv, Setup, Scans, Passes
  <1>. QED
    BY <1>3, <1>4, <1>5, <1>6 DEF TypeInv

\* The read passes keep the types.
LEMMA ScanType ==
  ASSUME TypeInv, ScanStep, ProbeTypeOK'
  PROVE  TypeInv'
  <1>1. CatalogTypeOK(Calls, Nat) /\ StoreTypeOK(Nat) /\ ClientTypeOK /\ IndexInv
    BY DEF TypeInv
  <1>2. /\ UNCHANGED <<catalogVars, objects, uploads, run, args, f, commits, conflicts, usedArgs>>
        /\ pc \in Scans /\ pc' \in Scans \cup {"done", "failed"}
        /\ outages' \in {outages, outages + 1}
    BY ScanFrame DEF writeVars
  <1>3. CatalogTypeOK(Calls, Nat)'
    BY <1>1, <1>2 DEF CatalogTypeOK, catalogVars, Calls, RivalCall, Statuses
  <1>4. StoreTypeOK(Nat)'
    BY <1>1, <1>2 DEF StoreTypeOK
  <1>5. f = args.files /\ args \in usedArgs
    BY <1>1, <1>2 DEF IndexInv
  <1>6. CASE filter_threshold
    <2>1. /\ pc = "filter_threshold" /\ pc' \in {"read-no-cache", "failed"} /\ j' = j /\ cache' = cache
          /\ DOMAIN reads' = DOMAIN reads
      BY <1>6 DEF filter_threshold
    <2>2. j = 0
      BY <1>1, <2>1 DEF IndexInv, Passes
    <2>3. ClientTypeOK'
      BY <1>1, <1>2, <2>1, <2>2 DEF ClientTypeOK, Exited
    <2>4. IndexInv'
      BY <1>1, <1>2, <1>5, <2>1, <2>2, ItersType, Sizes DEF IndexInv, Passes, Scans, Setup
    <2>. QED
      BY <1>3, <1>4, <2>3, <2>4 DEF TypeInv
  <1>7. ASSUME NEW p \in Passes, run_scan(p) PROVE TypeInv'
    <2>1. /\ pc = p /\ j < Iters(p)
          /\ cache' \in {cache, Filled(cache, DOMAIN objects)}
          /\ DOMAIN reads' = DOMAIN reads
          /\ \/ j' = j + 1 /\ pc' = p
             \/ j' = j /\ pc' = "failed"
      BY <1>7 DEF run_scan
    <2>2. \A g \in DOMAIN cache' : g \in Nat /\ cache'[g] \in SUBSET Nat
      <3>1. \A g \in DOMAIN objects : g \in Nat /\ objects[g] \in SUBSET Nat
        BY <1>1 DEF StoreTypeOK
      <3>2. /\ DOMAIN Filled(cache, DOMAIN objects) = DOMAIN cache \cup DOMAIN objects
            /\ \A g \in DOMAIN Filled(cache, DOMAIN objects) : Filled(cache, DOMAIN objects)[g] =
                 IF g \in DOMAIN cache THEN cache[g] ELSE objects[g]
        BY DEF Filled
      <3>3. \A g \in DOMAIN cache : g \in Nat /\ cache[g] \in SUBSET Nat
        BY <1>1 DEF ClientTypeOK
      <3>4. CASE cache' = cache
        BY <3>3, <3>4
      <3>5. CASE cache' = Filled(cache, DOMAIN objects)
        BY <3>1, <3>2, <3>3, <3>5
      <3>. QED
        BY <2>1, <3>4, <3>5
    <2>3. ClientTypeOK'
      BY <1>1, <1>2, <2>1, <2>2 DEF ClientTypeOK, Exited
    <2>4. IndexInv'
      <3>1. j \in Nat /\ Iters(p) \in Nat /\ Iters(p) <= NoCacheIters + WarmIters + 1
        BY <1>1, ItersType DEF ClientTypeOK
      <3>2. NoCacheIters \in Nat /\ WarmIters \in Nat
        BY Sizes
      <3>3. j' <= Iters(p) /\ j' <= NoCacheIters + WarmIters + 1
        BY <2>1, <3>1, <3>2
      <3>. QED
        BY <1>2, <1>5, <1>7, <2>1, <3>3 DEF IndexInv, Passes, Scans, Setup
    <2>. QED
      BY <1>3, <1>4, <2>3, <2>4 DEF TypeInv
  <1>8. ASSUME NEW p \in Passes, scan_fails(p) \/ pass_done(p) PROVE TypeInv'
    <2>1. /\ cache' = cache /\ reads' = reads
          /\ \/ j' = j /\ pc' = "failed"
             \/ j' = 0
      BY <1>8 DEF scan_fails, pass_done, readVars
    <2>2. ClientTypeOK'
      BY <1>1, <1>2, <2>1 DEF ClientTypeOK, Exited
    <2>3. IndexInv'
      BY <1>1, <1>2, <1>5, <2>1, ItersType, Sizes DEF IndexInv, Passes, Scans, Setup
    <2>. QED
      BY <1>3, <1>4, <2>2, <2>3 DEF TypeInv
  <1>. QED
    BY <1>6, <1>7, <1>8 DEF ScanStep

\* The write phase keeps the types.
LEMMA WriteType ==
  ASSUME TypeInv, ProbeTypeOK',
         put \/ put_returns \/ commit_file \/ commit_returns \/ commit_fails \/ write_phase_done
  PROVE  TypeInv'
  <1>1. /\ CatalogTypeOK(Calls, Nat) /\ StoreTypeOK(Nat) /\ ClientTypeOK /\ IndexInv
        /\ Calls' = Calls /\ args.files \in Nat
    BY Sizes DEF TypeInv, Calls, ClientTypeOK
  <1>c. ASSUME UNCHANGED catalogVars PROVE CatalogTypeOK(Calls, Nat)'
    BY <1>1, <1>c DEF catalogVars, CatalogTypeOK, Calls, RivalCall, Statuses
  <1>s. ASSUME UNCHANGED storeVars PROVE StoreTypeOK(Nat)'
    BY <1>1, <1>s DEF storeVars, StoreTypeOK
  <1>k. ASSUME UNCHANGED <<run, args, readVars, usedArgs>>,
               \/ UNCHANGED <<f, commits, conflicts>>
               \/ f' = f + 1 /\ f < args.files /\ commits' = commits + 1
                    /\ conflicts' \in {conflicts, conflicts + 1},
               pc' \in {"put", "putting", "commit", "committing", "snapshot_count", "failed"},
               pc \in {"put", "putting", "commit", "committing"},
               pc' \in {"putting", "commit", "committing"} => f' < args.files,
               pc' = "snapshot_count" => f' = args.files
        PROVE  ClientTypeOK' /\ IndexInv'
    <2>1. f' \in Nat /\ f' <= args.files
      BY <1>1, <1>k DEF ClientTypeOK
    <2>2. ClientTypeOK'
      BY <1>1, <1>k, <2>1 DEF ClientTypeOK, readVars, Exited
    <2>3. IndexInv'
      BY <1>1, <1>k, <2>1 DEF IndexInv, readVars, Setup, Scans, Passes
    <2>. QED
      BY <2>2, <2>3
  <1>2. CASE put
    <2>1. StoreTypeOK(Nat)'
      BY <1>1, <1>2, PutType DEF put, Upload, StoreTypeOK
    <2>2. ClientTypeOK' /\ IndexInv'
      BY <1>2, <1>k DEF put, MoreFiles, writeVars
    <2>. QED
      BY <1>2, <2>1, <2>2, <1>c DEF put, TypeInv
  <1>3. CASE put_returns
    <2>1. StoreTypeOK(Nat)'
      <3>1. CASE UNCHANGED storeVars
        BY <1>s, <3>1
      <3>2. CASE UploadFails(PutOf(f))
        BY <1>1, <3>2 DEF UploadFails, StoreTypeOK
      <3>. QED
        BY <1>3, <3>1, <3>2 DEF put_returns
    <2>2. f < args.files
      BY <1>1, <1>3 DEF put_returns, IndexInv
    <2>3. ClientTypeOK' /\ IndexInv'
      BY <1>3, <2>2, <1>k DEF put_returns, writeVars
    <2>. QED
      BY <1>3, <2>1, <2>3, <1>c DEF put_returns, TypeInv
  <1>4. CASE commit_file
    <2>1. CatalogTypeOK(Calls, Nat)'
      <3>1. CommitOf(f) \in Calls /\ {} \in SUBSET Nat /\ Send(CommitOf(f), {})
        BY <1>4, PutType DEF commit_file
      <3>. QED
        BY <1>1, <3>1, SendType
    <2>2. f < args.files
      BY <1>1, <1>4 DEF commit_file, IndexInv
    <2>3. ClientTypeOK' /\ IndexInv'
      BY <1>4, <2>2, <1>k DEF commit_file, writeVars
    <2>. QED
      BY <1>4, <2>1, <2>3, <1>s DEF commit_file, TypeInv
  <1>5. CASE commit_returns \/ commit_fails
    <2>1. CatalogTypeOK(Calls, Nat)'
      <3>1. PICK s : Receive(CommitOf(f), s)
        BY <1>5 DEF commit_returns, commit_fails
      <3>. QED
        BY <1>1, <3>1, ReceiveType
    <2>2. f < args.files
      BY <1>1, <1>5 DEF commit_returns, commit_fails, IndexInv
    <2>3. ClientTypeOK' /\ IndexInv'
      BY <1>5, <2>2, <1>k DEF commit_returns, CountConflict, commit_fails, writeVars
    <2>. QED
      BY <1>5, <2>1, <2>3, <1>s DEF commit_returns, commit_fails, TypeInv
  <1>6. CASE write_phase_done
    <2>1. ClientTypeOK' /\ IndexInv'
      BY <1>6, <1>k DEF write_phase_done, writeVars
    <2>. QED
      BY <1>6, <2>1, <1>c, <1>s DEF write_phase_done, TypeInv
  <1>. QED
    BY <1>2, <1>3, <1>4, <1>5, <1>6

\* Every step keeps the types.
LEMMA TypeStep == TypeInv /\ ProbeInv /\ [Next]_vars => TypeInv'
  <1>. SUFFICES ASSUME TypeInv, ProbeInv, [Next]_vars PROVE TypeInv'
    OBVIOUS
  <1>p. /\ CatalogTypeOK(Calls, Nat) /\ StoreTypeOK(Nat) /\ ClientTypeOK /\ IndexInv
        /\ Calls' = Calls
    BY DEF TypeInv, Calls
  <1>t. ProbeTypeOK'
    BY ProbeNext DEF TypeInv
  <1>c. ASSUME UNCHANGED catalogVars PROVE CatalogTypeOK(Calls, Nat)'
    BY <1>p, <1>c DEF catalogVars, CatalogTypeOK, RivalCall, Statuses
  <1>s. ASSUME UNCHANGED storeVars PROVE StoreTypeOK(Nat)'
    BY <1>p, <1>s DEF storeVars, StoreTypeOK
  <1>k. ASSUME UNCHANGED benchVars PROVE ClientTypeOK' /\ IndexInv'
    BY <1>p, <1>k DEF benchVars, writeVars, readVars, ClientTypeOK, IndexInv, Setup, Scans, Passes,
      Exited, Iters
  <1>1. CASE SetupStep
    BY <1>1, <1>t, SetupType
  <1>2. CASE put \/ put_returns \/ commit_file \/ commit_returns \/ commit_fails \/ write_phase_done
    BY <1>2, <1>t, WriteType
  <1>3. CASE ScanStep
    BY <1>3, <1>t, ScanType
  <1>4. CASE CatalogNext /\ UNCHANGED <<storeVars, clientVars>>
    <2>1. CatalogTypeOK(Calls, Nat)'
      BY <1>4, <1>p, CatalogType
    <2>. QED
      BY <1>4, <2>1, <1>t, <1>s, <1>k DEF clientVars, TypeInv
  <1>5. CASE StoreNext /\ UNCHANGED <<catalogVars, clientVars>>
    <2>1. StoreTypeOK(Nat)'
      BY <1>5, <1>p, LandsType DEF StoreNext
    <2>. QED
      BY <1>5, <2>1, <1>t, <1>c, <1>k DEF clientVars, TypeInv
  <1>6. CASE Crash \/ StartAgain
    <2>0. /\ f' = 0 /\ commits' = 0 /\ conflicts' = 0 /\ j' = 0
          /\ DOMAIN cache' = {} /\ DOMAIN reads' = Scans
      <3>1. FreshProcess
        BY <1>6 DEF Crash, StartAgain
      <3>. QED
        BY <3>1 DEF FreshProcess, NothingRead
    <2>1. /\ pc' \in {"killed", "stock_roundtrip"}
          /\ \/ UNCHANGED <<args, usedArgs>>
             \/ args' \in ArgChoices /\ usedArgs' = usedArgs \cup {args'}
          /\ \/ run' = run
             \/ run < MaxRuns /\ run' = run + 1
      BY <1>6 DEF Crash, StartAgain
    <2>2. run' \in 1..MaxRuns
      <3>1. run \in 1..MaxRuns
        BY <1>p DEF ClientTypeOK
      <3>. QED
        BY <2>1, <3>1, Sizes
    <2>3. args' \in ArgChoices /\ usedArgs' \in SUBSET ArgChoices /\ args' \in usedArgs'
      BY <1>p, <2>1 DEF ClientTypeOK, IndexInv
    <2>4. args'.files \in Nat
      BY <2>3, Sizes
    <2>5. ClientTypeOK'
      BY <2>0, <2>1, <2>2, <2>3, <2>4 DEF ClientTypeOK, Exited, Setup
    <2>6. IndexInv'
      BY <2>0, <2>1, <2>3, Sizes DEF IndexInv, Setup, Scans, Passes
    <2>7. CatalogTypeOK(Calls, Nat)' /\ StoreTypeOK(Nat)'
      BY <1>6, <1>p, <1>c, <1>s DEF Crash, HangUp, StartAgain, CatalogTypeOK, RivalCall
    <2>. QED
      BY <1>t, <2>5, <2>6, <2>7 DEF TypeInv
  <1>7. CASE UNCHANGED vars
    BY <1>7, <1>t, <1>c, <1>s, <1>k DEF vars, clientVars, TypeInv
  <1>. QED
    BY <1>1, <1>2, <1>3, <1>4, <1>5, <1>6, <1>7 DEF Next, Run, SetupStep, ScanStep, Terminated

\* Type correctness, for every number of files, rows, scans, runs and faults.
THEOREM TypeCorrect == Spec => []TypeOK
  <1>. QED
    BY TypeInit, ProbeStart, TypeStep, ProbeNext, TypeInvImplies, PTL DEF Spec, TypeInv

-----------------------------------------------------------------------------
(* The references.                                                         *)

Stored(g) == g \in DOMAIN objects

\* A commit that is under way or has landed names a stored file, and so do the
\* files before f: a commit is sent after the PUT of its file has returned.
StoredInv ==
  /\ \A c \in OwnLanded \cup UnderWay : Stored(c.n - 1)
  /\ pc = "putting" => PutOf(f) \in uploads \/ Stored(f)
  /\ pc \in {"commit", "committing"} => Stored(f)
  /\ \A g \in 0..(f - 1) : Stored(g)

\* A step that sends nothing keeps StoredInv, if it stays where it is.
LEMMA StoredKept ==
  ASSUME StoredInv, DOMAIN objects \subseteq DOMAIN objects',
         OwnLanded' \cup UnderWay' \subseteq OwnLanded \cup UnderWay,
         pc' = "putting" => (PutOf(f) \in uploads \/ Stored(f))',
         pc' \in {"commit", "committing"} => Stored(f)',
         \A g \in 0..(f' - 1) : Stored(g)'
  PROVE  StoredInv'
  <1>1. \A g : Stored(g) => Stored(g)'
    BY DEF Stored
  <1>2. \A c \in OwnLanded' \cup UnderWay' : Stored(c.n - 1)'
    BY <1>1 DEF StoredInv
  <1>. QED
    BY <1>2 DEF StoredInv

\* Every step keeps what is known of the files that commits name.
LEMMA StoredStep == TypeInv /\ StoredInv /\ [Next]_vars => StoredInv'
  <1>. SUFFICES ASSUME TypeInv, StoredInv, [Next]_vars PROVE StoredInv'
    OBVIOUS
  <1>t. CatalogTypeOK(Calls, Nat) /\ StoreTypeOK(Nat) /\ f \in Nat
    BY DEF TypeInv, ClientTypeOK
  <1>c. ASSUME UNCHANGED <<log, requests, reading>>
        PROVE  OwnLanded' \cup UnderWay' \subseteq OwnLanded \cup UnderWay
    BY <1>c, LandedStays DEF UnderWay
  <1>f. ASSUME f' = f, objects' = objects PROVE \A g \in 0..(f' - 1) : Stored(g)'
    BY <1>f DEF StoredInv, Stored
  <1>p. ASSUME UNCHANGED <<run, args, f>> PROVE PutOf(f)' = PutOf(f)
    BY <1>p DEF PutOf, encode_file
  <1>1. CASE SetupStep
    <2>1. /\ UNCHANGED <<log, requests, reading, objects, f>>
          /\ pc' \notin {"putting", "commit", "committing"}
      BY <1>1, SetupFrame DEF writeVars, Setup
    <2>. QED
      BY <2>1, <1>c, <1>f, StoredKept
  <1>2. CASE ScanStep
    <2>1. /\ UNCHANGED <<log, requests, reading, objects, f>>
          /\ pc' \notin {"putting", "commit", "committing"}
      BY <1>2, ScanFrame DEF writeVars, catalogVars, Scans, Passes
    <2>. QED
      BY <2>1, <1>c, <1>f, StoredKept
  <1>3. CASE put
    <2>1. /\ UNCHANGED <<log, requests, reading, objects, run, args, f>> /\ pc' = "putting"
          /\ PutOf(f) \in uploads'
      BY <1>3 DEF put, Upload, catalogVars, writeVars
    <2>. QED
      BY <2>1, <1>c, <1>f, <1>p, StoredKept
  <1>4. CASE put_returns
    <2>1. /\ UNCHANGED <<log, requests, reading, objects, f>>
          /\ pc' \in {"commit", "failed"} /\ (pc' = "commit" => Stored(f))
      BY <1>4 DEF put_returns, PutReturned, UploadFails, catalogVars, storeVars, writeVars, StoredInv
    <2>2. Stored(f)' <=> Stored(f)
      BY <2>1 DEF Stored
    <2>. QED
      BY <2>1, <2>2, <1>c, <1>f, StoredKept
  <1>5. CASE commit_file
    <2>1. /\ pc' = "committing" /\ UNCHANGED <<objects, f>> /\ pc = "commit"
          /\ OwnLanded' = OwnLanded /\ UnderWay' = UnderWay \cup {CommitOf(f)}
      BY <1>5, SendCalls DEF commit_file, storeVars, writeVars
    <2>2. Stored(f) /\ CommitOf(f).n - 1 = f
      BY <2>1, <1>t DEF StoredInv, CommitOf
    <2>3. \A g : Stored(g)' <=> Stored(g)
      BY <2>1 DEF Stored
    <2>4. \A c \in OwnLanded' \cup UnderWay' : Stored(c.n - 1)
      BY <2>1, <2>2 DEF StoredInv
    <2>. QED
      BY <2>1, <2>2, <2>3, <2>4, <1>f DEF StoredInv
  <1>6. CASE commit_returns
    <2>1. /\ pc = "committing" /\ pc' = "put" /\ UNCHANGED <<log, requests, reading, objects>>
          /\ f' = f + 1
      BY <1>6 DEF commit_returns, Receive, storeVars
    <2>2. Stored(f) /\ \A g \in 0..(f - 1) : Stored(g)
      BY <2>1 DEF StoredInv
    <2>3. \A g \in 0..(f' - 1) : Stored(g)
      <3>1. \A g \in 0..(f' - 1) : g = f \/ g \in 0..(f - 1)
        BY <2>1, <1>t
      <3>. QED
        BY <2>2, <3>1
    <2>4. \A g : Stored(g)' <=> Stored(g)
      BY <2>1 DEF Stored
    <2>. QED
      BY <2>1, <2>3, <2>4, <1>c, StoredKept
  <1>7. CASE commit_fails \/ write_phase_done
    <2>1. /\ UNCHANGED <<log, requests, reading, objects, f>>
          /\ pc' \in {"failed", "snapshot_count"}
      BY <1>7 DEF commit_fails, write_phase_done, Receive, catalogVars, storeVars, writeVars
    <2>. QED
      BY <2>1, <1>c, <1>f, StoredKept
  <1>8. CASE CatalogNext /\ UNCHANGED <<storeVars, clientVars>>
    <2>1. OwnLanded' \cup UnderWay' \subseteq OwnLanded \cup UnderWay
      BY <1>8, <1>t, CatalogCalls
    <2>2. UNCHANGED <<objects, uploads, pc, f, run, args>>
      BY <1>8 DEF storeVars, clientVars, benchVars, writeVars
    <2>3. Stored(f)' <=> Stored(f)
      BY <2>2 DEF Stored
    <2>. QED
      BY <2>1, <2>2, <2>3, <1>f, <1>p, StoredKept DEF StoredInv
  <1>9. CASE StoreNext /\ UNCHANGED <<catalogVars, clientVars>>
    <2>1. PICK up \in uploads : Lands(up)
      BY <1>9 DEF StoreNext
    <2>2. DOMAIN objects' = DOMAIN objects \cup {up.file} /\ uploads' = uploads \ {up}
      BY <2>1, <1>t, LandsType
    <2>3. UNCHANGED <<log, requests, reading, pc, f, run, args>>
      BY <1>9 DEF catalogVars, clientVars, benchVars, writeVars
    <2>4. up = PutOf(f) => up.file = f
      BY DEF PutOf
    <2>. QED
      BY <2>2, <2>3, <2>4, <1>c, <1>p, StoredKept DEF StoredInv, Stored
  <1>10. CASE Crash \/ StartAgain
    <2>1. /\ UNCHANGED <<log, requests, reading, objects>> /\ f' = 0
          /\ pc' \in {"killed", "stock_roundtrip"}
      BY <1>10 DEF Crash, HangUp, StartAgain, FreshProcess, catalogVars, storeVars
    <2>. QED
      BY <2>1, <1>c, StoredKept
  <1>11. CASE UNCHANGED vars
    <2>1. UNCHANGED <<log, requests, reading, objects, uploads, pc, f, run, args>>
      BY <1>11 DEF vars, catalogVars, storeVars, clientVars, benchVars, writeVars
    <2>. QED
      BY <2>1, <1>c, <1>f, <1>p, StoredKept DEF StoredInv, Stored
  <1>. QED
    BY <1>1, <1>2, <1>3, <1>4, <1>5, <1>6, <1>7, <1>8, <1>9, <1>10, <1>11
    DEF Next, Run, SetupStep, ScanStep, Terminated

\* No commit names a file at the start.
LEMMA StoredInit == Init => StoredInv
  BY DEF Init, CatalogInit, StoredInv, OwnLanded, Landed, UnderWay

\* The catalog never names a file that the bucket does not hold.
THEOREM NoDanglingReferenceHolds == Spec => []NoDanglingReference
  <1>1. StoredInv => NoDanglingReference
    BY DEF StoredInv, NoDanglingReference, OwnLanded, Stored
  <1>. QED
    BY <1>1, TypeInit, ProbeStart, TypeStep, ProbeNext, StoredInit, StoredStep, PTL DEF Spec, TypeInv

-----------------------------------------------------------------------------
(* The files.                                                              *)

SameArgs == usedArgs = {args}

\* Under the same arguments, what a file holds is a function of its name,
\* wherever it is.
FilesInv ==
  SameArgs =>
    /\ \A g \in DOMAIN objects : g < args.files /\ objects[g] = encode_file(g)
    /\ \A up \in uploads : up.file < args.files /\ up.content = encode_file(up.file)
    /\ \A g \in DOMAIN cache : g < args.files /\ cache[g] = encode_file(g)

\* The arguments were the same before a step after which they are.
LEMMA SameArgsBefore ==
  ASSUME TypeInv, [Next]_vars, SameArgs'
  PROVE  SameArgs /\ args' = args /\ \A g : encode_file(g)' = encode_file(g)
  <1>1. CASE StartAgain
    BY <1>1 DEF StartAgain, SameArgs, TypeInv, IndexInv, encode_file
  <1>2. CASE UNCHANGED <<args, usedArgs>>
    BY <1>2 DEF SameArgs, encode_file
  <1>. QED
    BY <1>1, <1>2, SetupFrame, ScanFrame DEF Next, Run, SetupStep, ScanStep, put, put_returns,
      commit_file, commit_returns, commit_fails, write_phase_done, Crash, Terminated, vars,
      clientVars, benchVars

\* Every step keeps what is known of the rows of the files, as long as the
\* arguments stay the same.
LEMMA FilesStep == TypeInv /\ FilesInv /\ [Next]_vars => FilesInv'
  <1>. SUFFICES ASSUME TypeInv, FilesInv, [Next]_vars, SameArgs' PROVE FilesInv'
    BY DEF FilesInv
  <1>a. SameArgs /\ args' = args /\ \A g : encode_file(g)' = encode_file(g)
    BY SameArgsBefore
  <1>b. /\ \A g \in DOMAIN objects : g < args.files /\ objects[g] = encode_file(g)
        /\ \A up \in uploads : up.file < args.files /\ up.content = encode_file(up.file)
        /\ \A g \in DOMAIN cache : g < args.files /\ cache[g] = encode_file(g)
    BY <1>a DEF FilesInv
  <1>1. CASE objects' = objects /\ uploads' \subseteq uploads /\ (cache' = cache \/ DOMAIN cache' = {})
    BY <1>1, <1>a, <1>b DEF FilesInv
  <1>2. CASE put
    <2>1. /\ uploads' = uploads \cup {PutOf(f)} /\ objects' = objects /\ cache' = cache
          /\ f < args.files
      BY <1>2 DEF put, MoreFiles, Upload, readVars
    <2>2. PutOf(f).file = f /\ PutOf(f).content = encode_file(f)
      BY DEF PutOf
    <2>. QED
      BY <2>1, <2>2, <1>a, <1>b DEF FilesInv
  <1>3. CASE StoreNext /\ UNCHANGED <<catalogVars, clientVars>>
    <2>1. PICK up \in uploads : Lands(up)
      BY <1>3 DEF StoreNext
    <2>2. /\ DOMAIN objects' = DOMAIN objects \cup {up.file} /\ uploads' \subseteq uploads
          /\ \A g \in DOMAIN objects' : objects'[g] = IF g = up.file THEN up.content ELSE objects[g]
      BY <2>1, LandsType DEF TypeInv
    <2>3. cache' = cache
      BY <1>3 DEF clientVars, benchVars, readVars
    <2>. QED
      BY <2>2, <2>3, <1>a, <1>b DEF FilesInv
  <1>4. ASSUME NEW p \in Passes, run_scan(p) PROVE FilesInv'
    <2>1. UNCHANGED <<objects, uploads>> /\ cache' \in {cache, Filled(cache, DOMAIN objects)}
      BY <1>4 DEF run_scan, storeVars
    <2>2. CASE cache' = cache
      BY <1>1, <2>1, <2>2
    <2>3. CASE cache' = Filled(cache, DOMAIN objects)
      <3>1. /\ DOMAIN cache' = DOMAIN cache \cup DOMAIN objects
            /\ \A g \in DOMAIN cache' :
                 cache'[g] = IF g \in DOMAIN cache THEN cache[g] ELSE objects[g]
        BY <2>3 DEF Filled
      <3>. QED
        BY <2>1, <3>1, <1>a, <1>b DEF FilesInv
    <2>. QED
      BY <2>1, <2>2, <2>3
  <1>5. CASE SetupStep
    BY <1>1, <1>5, SetupFrame DEF readVars
  <1>6. CASE filter_threshold \/ \E p \in Passes : scan_fails(p) \/ pass_done(p)
    <2>1. UNCHANGED <<objects, uploads, cache>>
      BY <1>6 DEF filter_threshold, scan_fails, pass_done, ReadFails, storeVars, readVars
    <2>. QED
      BY <2>1, <1>1
  <1>7. CASE put_returns \/ commit_file \/ commit_returns \/ commit_fails \/ write_phase_done
    <2>1. objects' = objects /\ uploads' \subseteq uploads /\ cache' = cache
      BY <1>7 DEF put_returns, UploadFails, commit_file, commit_returns, commit_fails,
        write_phase_done, storeVars, readVars
    <2>. QED
      BY <2>1, <1>1
  <1>8. CASE Crash \/ StartAgain
    <2>1. UNCHANGED storeVars /\ FreshProcess
      BY <1>8 DEF Crash, StartAgain
    <2>2. UNCHANGED <<objects, uploads>> /\ DOMAIN cache' = {}
      BY <2>1 DEF storeVars, FreshProcess
    <2>. QED
      BY <2>2, <1>1
  <1>9. CASE (CatalogNext /\ UNCHANGED <<storeVars, clientVars>>) \/ UNCHANGED vars
    BY <1>1, <1>9 DEF vars, storeVars, clientVars, benchVars, readVars
  <1>. QED
    BY <1>2, <1>3, <1>4, <1>5, <1>6, <1>7, <1>8, <1>9 DEF Next, Run, SetupStep, Terminated

\* There is no file at the start.
LEMMA FilesInit == Init => FilesInv
  <1>. SUFFICES ASSUME Init PROVE FilesInv
    OBVIOUS
  <1>1. DOMAIN objects = {} /\ uploads = {} /\ DOMAIN cache = {}
    BY DEF Init, StoreInit
  <1>. QED
    BY <1>1 DEF FilesInv

\* What every step of the program keeps.
LEMMA Invariants == Spec => [](TypeInv /\ ProbeInv /\ StoredInv /\ FilesInv)
  <1>. QED
    BY TypeInit, ProbeStart, TypeStep, ProbeNext, StoredInit, StoredStep, FilesInit, FilesStep, PTL
    DEF Spec, TypeInv

\* Objects change by PUTs that land, and a PUT under the same arguments brings
\* a stored file what it holds.
LEMMA ImmutableStep ==
  ASSUME TypeInv, StoredInv, FilesInv, [Next]_vars, SameArgs'
  PROVE  \A c \in Landed \ {RivalCall} : objects'[c.n - 1] = objects[c.n - 1]
  <1>1. CASE objects' = objects
    BY <1>1
  <1>2. CASE StoreNext /\ UNCHANGED <<catalogVars, clientVars>>
    <2>1. PICK up \in uploads : Lands(up)
      BY <1>2 DEF StoreNext
    <2>2. /\ DOMAIN objects' = DOMAIN objects \cup {up.file}
          /\ \A g \in DOMAIN objects' : objects'[g] = IF g = up.file THEN up.content ELSE objects[g]
      BY <2>1, LandsType DEF TypeInv
    <2>3. SameArgs
      BY SameArgsBefore
    <2>4. \A g \in DOMAIN objects : objects'[g] = objects[g]
      BY <2>2, <2>3 DEF FilesInv
    <2>. QED
      BY <2>4 DEF StoredInv, Stored, OwnLanded
  <1>3. CASE SetupStep \/ ScanStep
    BY <1>1, <1>3, SetupFrame, ScanFrame
  <1>. QED
    BY <1>1, <1>2, <1>3 DEF Next, Run, SetupStep, ScanStep, put, Upload, put_returns, UploadFails,
      commit_file, commit_returns, commit_fails, write_phase_done, Crash, StartAgain, Terminated,
      vars, storeVars

\* As long as the arguments stay the same, a file that a landed commit names
\* keeps its rows, although every run writes it again.
THEOREM ReferencedFilesAreImmutableHolds == Spec => ReferencedFilesAreImmutable
  <1>1. TypeInv /\ StoredInv /\ FilesInv /\ [Next]_vars =>
          [usedArgs' = {args} =>
             \A c \in Landed \ {RivalCall} : objects'[c.n - 1] = objects[c.n - 1]]_objects
    <2>. SUFFICES ASSUME TypeInv, StoredInv, FilesInv, [Next]_vars, usedArgs' = {args}
                  PROVE  objects' = objects \/
                         \A c \in Landed \ {RivalCall} : objects'[c.n - 1] = objects[c.n - 1]
      OBVIOUS
    <2>1. CASE args' = args
      BY <2>1, ImmutableStep DEF SameArgs
    <2>2. CASE args' # args
      <3>1. ~UNCHANGED <<args, usedArgs>>
        BY <2>2
      <3>2. StartAgain
        BY <3>1, SetupFrame, ScanFrame DEF Next, Run, SetupStep, ScanStep, put, put_returns,
          commit_file, commit_returns, commit_fails, write_phase_done, Crash, Terminated, vars,
          clientVars, benchVars
      <3>. QED
        BY <3>2 DEF StartAgain, storeVars
    <2>. QED
      BY <2>1, <2>2
  <1>. QED
    BY <1>1, Invariants, PTL DEF Spec, ReferencedFilesAreImmutable

-----------------------------------------------------------------------------
(* The commits.                                                            *)

\* A call is in one place at a time: a request, being validated, or landed; and
\* no request has a key.
OnePlace ==
  /\ \A p, q \in requests : p.id = q.id => p = q
  /\ \A p, q \in reading : p.id = q.id => p = q
  /\ \A p \in requests, q \in reading : p.id # q.id
  /\ \A p \in requests \cup reading : p.id \notin OwnLanded /\ p.key = {}

\* An answer tells what has become of its call.
AnswersInv ==
  /\ \A a \in answers : a.status = "2xx" => a.id \in OwnLanded
  /\ \A a \in answers : a.status = "409" => a.id \notin OwnLanded \cup UnderWay
  /\ \A a \in answers : a.status = "error" => faults > 0

\* A step of the catalog keeps every call in one place and every answer true.
LEMMA PlacesCatalog ==
  ASSUME CatalogTypeOK(Calls, Nat), OnePlace, AnswersInv, CatalogNext
  PROVE  OnePlace' /\ AnswersInv'
  <1>1. /\ \A p \in requests \cup reading : p.id \in UnderWay /\ p.id # RivalCall
        /\ RivalCall' = RivalCall /\ faults \in Nat
    BY DEF CatalogTypeOK, UnderWay, Calls, RivalCall
  <1>2. OwnLanded \subseteq OwnLanded' /\ UnderWay' \subseteq UnderWay
    BY CatalogCalls
  <1>3. ASSUME NEW r \in requests, ReadVersion(r) PROVE OnePlace' /\ AnswersInv'
    <2>. DEFINE q == [id |-> r.id, key |-> r.key, base |-> Version]
    <2>1. /\ q.id = r.id /\ q.key = r.key /\ requests' = requests \ {r} /\ reading' = reading \cup {q}
          /\ UNCHANGED <<log, answers, faults>>
      BY <1>3 DEF ReadVersion
    <2>2. OwnLanded' = OwnLanded
      BY <2>1, LandedStays
    <2>. HIDE DEF q
    <2>3. OnePlace'
      BY <2>1, <2>2 DEF OnePlace
    <2>4. AnswersInv'
      BY <2>1, <2>2, <1>2 DEF AnswersInv
    <2>. QED
      BY <2>3, <2>4
  <1>4. ASSUME NEW r \in requests PROVE ~Replay(r)
    BY DEF Replay, Known, OnePlace
  <1>5. ASSUME NEW r \in reading, Land(r) PROVE OnePlace' /\ AnswersInv'
    <2>1. /\ log' = Append(log, r.id) /\ reading' = reading \ {r} /\ requests' = requests
          /\ \A a \in answers' : a \in answers \/ (a.id = r.id /\ a.status = "2xx")
          /\ faults' = faults
      BY <1>5 DEF Land, Respond
    <2>2. OwnLanded' = OwnLanded \cup {r.id}
      BY <2>1, <1>1, LandedGrows
    <2>3. OnePlace'
      BY <2>1, <2>2 DEF OnePlace
    <2>4. AnswersInv'
      BY <2>1, <2>2, <1>1, <1>2 DEF AnswersInv
    <2>. QED
      BY <2>3, <2>4
  <1>6. ASSUME NEW r \in reading, Conflict(r) PROVE OnePlace' /\ AnswersInv'
    <2>1. /\ reading' = reading \ {r} /\ UNCHANGED <<log, requests, faults>>
          /\ \A a \in answers' : a \in answers \/ (a.id = r.id /\ a.status = "409")
      BY <1>6 DEF Conflict, Respond
    <2>2. OwnLanded' = OwnLanded
      BY <2>1, LandedStays
    <2>3. OnePlace'
      BY <2>1, <2>2 DEF OnePlace
    <2>4. r.id \notin OwnLanded \cup UnderWay'
      BY <2>1 DEF OnePlace, UnderWay
    <2>5. AnswersInv'
      BY <2>1, <2>2, <2>4, <1>2 DEF AnswersInv
    <2>. QED
      BY <2>3, <2>5
  <1>7. CASE (\E r \in reading : ServerError(r)) \/ \E c \in open : Disconnect(c)
    <2>1. /\ reading' \subseteq reading /\ requests' \subseteq requests /\ log' = log
          /\ \A a \in answers' : a \in answers \/ a.status = "error"
          /\ faults' = faults + 1
      BY <1>7 DEF ServerError, Respond, Disconnect
    <2>2. OwnLanded' = OwnLanded
      BY <2>1, LandedStays
    <2>3. OnePlace'
      BY <2>1, <2>2 DEF OnePlace
    <2>4. AnswersInv'
      BY <2>1, <2>2, <1>1, <1>2 DEF AnswersInv
    <2>. QED
      BY <2>3, <2>4
  <1>8. CASE RivalCommit
    <2>1. log' = Append(log, RivalCall) /\ UNCHANGED <<requests, reading, answers, faults>>
      BY <1>8 DEF RivalCommit
    <2>2. OwnLanded' = OwnLanded
      BY <2>1, LandedGrows
    <2>3. UnderWay' = UnderWay
      BY <2>1 DEF UnderWay
    <2>. QED
      BY <2>1, <2>2, <2>3 DEF OnePlace, AnswersInv
  <1>. QED
    BY <1>3, <1>4, <1>5, <1>6, <1>7, <1>8 DEF CatalogNext, Progress, Trouble

\* The program awaits nothing but the commit it is at, and has made no calls of
\* later runs.
CallInv ==
  /\ OneAnswer
  /\ Awaited \subseteq {CommitOf(f)} /\ (pc # "committing" => Awaited = {})
  /\ \A c \in OwnLanded \cup UnderWay : c.run <= run

\* The commits of this run that have been answered 2xx.
Settled == {c \in Landed : c.run = run /\ c.n <= f}

\* Until it fails or is killed, every file before f has been committed or
\* refused, and of this run nothing else has landed or is under way but the
\* commit that it awaits.
AccountInv ==
  pc \notin {"killed", "failed"} =>
    /\ \A c \in OwnLanded : c.run = run => c.n <= f \/ (pc = "committing" /\ c = CommitOf(f))
    /\ \A c \in UnderWay : c.run = run => pc = "committing" /\ c = CommitOf(f)
    /\ commits = f
    /\ Cardinality(Settled) + conflicts = f

CommitInv == OnePlace /\ AnswersInv /\ CallInv /\ AccountInv

\* What holds of the commits while no call is made, answered or landed.
LEMMA CommitKept ==
  ASSUME TypeInv, CommitInv, UNCHANGED <<log, requests, reading, open, answers, run, f, commits, conflicts>>,
         pc' # pc => pc # "committing" /\ pc # "killed" /\ pc # "failed",
         faults' \in {faults, faults + 1}
  PROVE  CommitInv'
  <1>1. UNCHANGED <<OwnLanded, Landed, UnderWay, Awaited>> /\ CommitOf(f)' = CommitOf(f)
    BY LandedStays DEF UnderWay, Awaited, CommitOf
  <1>2. Settled' = Settled
    BY <1>1 DEF Settled
  <1>3. OnePlace'
    BY <1>1 DEF CommitInv, OnePlace
  <1>4. AnswersInv'
    <2>1. faults \in Nat
      BY DEF TypeInv, CatalogTypeOK
    <2>2. \A a \in answers : a.status = "error" => faults' > 0
      BY <2>1 DEF CommitInv, AnswersInv
    <2>. QED
      BY <1>1, <2>2 DEF CommitInv, AnswersInv
  <1>5. CallInv'
    BY <1>1 DEF CommitInv, CallInv, OneAnswer
  <1>6. AccountInv'
    BY <1>1, <1>2 DEF CommitInv, AccountInv
  <1>. QED
    BY <1>3, <1>4, <1>5, <1>6 DEF CommitInv

\* Sending a commit keeps the account of the commits.
LEMMA CommitSend ==
  ASSUME TypeInv, CommitInv, commit_file
  PROVE  CommitInv'
  <1>. DEFINE q == [id |-> CommitOf(f), key |-> {}]
  <1>1. /\ pc = "commit" /\ pc' = "committing" /\ Send(CommitOf(f), {})
        /\ UNCHANGED <<run, f, commits, conflicts>>
    BY DEF commit_file, writeVars
  <1>2. /\ requests' = requests \cup {q} /\ UNCHANGED <<log, reading, faults>>
        /\ q.id = CommitOf(f) /\ q.key = {}
    BY <1>1 DEF Send
  <1>3. /\ open' = open \cup {CommitOf(f)} /\ answers' = answers /\ Awaited' = Awaited \cup {CommitOf(f)}
        /\ UnderWay' = UnderWay \cup {CommitOf(f)} /\ OwnLanded' = OwnLanded /\ Landed' = Landed
    BY <1>1, SendAwaits, SendCalls
  <1>4. /\ CommitOf(f)' = CommitOf(f) /\ CommitOf(f).run = run /\ CommitOf(f).n = f + 1
        /\ run \in Nat /\ f \in Nat
    BY <1>1, PutType DEF CommitOf, TypeInv, ClientTypeOK
  <1>5. CommitOf(f) \notin UnderWay \cup OwnLanded
    BY <1>1, <1>4 DEF CommitInv, AccountInv
  <1>6. Awaited = {} /\ answers = {}
    BY <1>1 DEF CommitInv, CallInv, Awaited
  <1>7. \A p \in requests \cup reading : p.id # CommitOf(f)
    BY <1>5 DEF UnderWay
  <1>. HIDE DEF q
  <1>8. OnePlace'
    BY <1>2, <1>3, <1>5, <1>7 DEF CommitInv, OnePlace
  <1>9. AnswersInv'
    BY <1>3, <1>6 DEF AnswersInv
  <1>10. CallInv'
    BY <1>1, <1>3, <1>4, <1>6 DEF CommitInv, CallInv, OneAnswer
  <1>11. Settled' = Settled
    BY <1>1, <1>3 DEF Settled
  <1>12. AccountInv'
    BY <1>1, <1>3, <1>4, <1>11 DEF CommitInv, AccountInv
  <1>. QED
    BY <1>8, <1>9, <1>10, <1>12 DEF CommitInv

\* Receiving the answer to a commit keeps the account of the commits.
LEMMA CommitReceive ==
  ASSUME TypeInv, CommitInv, commit_returns \/ commit_fails
  PROVE  CommitInv'
  <1>1. PICK s : Receive(CommitOf(f), s) /\ (commit_returns => s \in {"2xx", "409"})
    BY DEF commit_returns, commit_fails
  <1>2. /\ pc = "committing" /\ pc' \in {"put", "failed"} /\ run' = run
        /\ UNCHANGED <<log, requests, reading, open, faults>> /\ answers' \subseteq answers
        /\ [id |-> CommitOf(f), status |-> s] \in answers
    BY <1>1 DEF commit_returns, commit_fails, Receive
  <1>3. Awaited' = {} /\ OneAnswer'
    BY <1>1, ReceiveAwaits DEF CommitInv, CallInv
  <1>4. UNCHANGED <<OwnLanded, Landed, UnderWay>>
    BY <1>2, LandedStays DEF UnderWay
  <1>5. OnePlace'
    BY <1>2, <1>4 DEF CommitInv, OnePlace
  <1>6. AnswersInv'
    BY <1>2, <1>4 DEF CommitInv, AnswersInv
  <1>7. CallInv'
    BY <1>2, <1>3, <1>4 DEF CommitInv, CallInv
  <1>8. CASE commit_fails
    <2>1. AccountInv'
      BY <1>8 DEF commit_fails, AccountInv
    <2>. QED
      BY <1>5, <1>6, <1>7, <2>1 DEF CommitInv
  <1>9. CASE commit_returns
    <2>1. /\ commits' = commits + 1 /\ f' = f + 1 /\ pc' = "put"
          /\ \/ s = "2xx" /\ conflicts' = conflicts
             \/ s = "409" /\ conflicts' = conflicts + 1
      <3>1. \A t : Receive(CommitOf(f), t) => t = s
        <4>1. ASSUME NEW t, Receive(CommitOf(f), t) PROVE t = s
          <5>. DEFINE a == [id |-> CommitOf(f), status |-> t]
                      b == [id |-> CommitOf(f), status |-> s]
          <5>1. a \in answers /\ b \in answers /\ a.id = b.id /\ a.status = t /\ b.status = s
            BY <4>1, <1>2 DEF Receive
          <5>2. a = b
            BY <5>1 DEF CommitInv, CallInv, OneAnswer
          <5>. QED
            BY <5>1, <5>2
        <4>. QED
          BY <4>1
      <3>2. CASE Receive(CommitOf(f), "2xx") /\ UNCHANGED conflicts
        BY <1>9, <3>1, <3>2 DEF commit_returns
      <3>3. CASE Receive(CommitOf(f), "409") /\ CountConflict
        BY <1>9, <3>1, <3>3 DEF commit_returns, CountConflict
      <3>. QED
        BY <1>9, <3>2, <3>3 DEF commit_returns
    <2>2. /\ CommitOf(f).run = run /\ CommitOf(f).n = f + 1 /\ f \in Nat /\ conflicts \in Nat
          /\ run > 0 /\ run \in Nat /\ RivalCall.run = 0
      BY PutType DEF TypeInv, ClientTypeOK, RivalCall
    <2>3. /\ \A c \in OwnLanded : c.run = run => c.n <= f \/ c = CommitOf(f)
          /\ \A c \in UnderWay : c.run = run => c = CommitOf(f)
          /\ commits = f /\ Cardinality(Settled) + conflicts = f
      BY <1>2 DEF CommitInv, AccountInv
    <2>4. CommitOf(f) \notin UnderWay
      <3>1. CASE s = "409"
        BY <1>2, <3>1 DEF CommitInv, AnswersInv
      <3>2. CASE s = "2xx"
        <4>1. CommitOf(f) \in OwnLanded
          BY <1>2, <3>2 DEF CommitInv, AnswersInv
        <4>. QED
          BY <4>1 DEF CommitInv, OnePlace, UnderWay
      <3>. QED
        BY <2>1, <3>1, <3>2
    <2>5. \A c \in Landed : c.run = run => c \in OwnLanded
      BY <2>2 DEF OwnLanded
    <2>6. \A c \in OwnLanded : c.n \in Nat
      BY DEF TypeInv, CatalogTypeOK, OwnLanded, Landed, Calls
    <2>7. IsFiniteSet(Settled) /\ CommitOf(f) \notin Settled /\ Cardinality(Settled) \in Nat
      <3>1. IsFiniteSet(Landed)
        BY CatalogLandedFinite DEF TypeInv
      <3>2. IsFiniteSet(Settled)
        BY <3>1, FS_Subset DEF Settled
      <3>. QED
        BY <3>2, <2>2, FS_CardinalityType DEF Settled
    <2>8. Cardinality(Settled') + conflicts' = f'
      <3>1. CASE s = "2xx"
        <4>1. CommitOf(f) \in OwnLanded
          BY <1>2, <3>1 DEF CommitInv, AnswersInv
        <4>2. Settled' = Settled \cup {CommitOf(f)}
          BY <1>2, <1>4, <2>1, <2>2, <2>3, <2>5, <2>6, <4>1 DEF Settled, OwnLanded
        <4>3. Cardinality(Settled') = Cardinality(Settled) + 1
          BY <2>7, <4>2, FS_AddElement
        <4>. QED
          BY <2>1, <2>2, <2>3, <2>7, <3>1, <4>3
      <3>2. CASE s = "409"
        <4>1. CommitOf(f) \notin OwnLanded
          BY <1>2, <3>2 DEF CommitInv, AnswersInv
        <4>2. Settled' = Settled
          BY <1>2, <1>4, <2>1, <2>2, <2>3, <2>5, <2>6, <4>1 DEF Settled
        <4>. QED
          BY <2>1, <2>2, <2>3, <2>7, <3>2, <4>2
      <3>. QED
        BY <2>1, <3>1, <3>2
    <2>9. \A c \in OwnLanded : c.run = run => c.n <= f + 1
      BY <2>2, <2>3, <2>6
    <2>10. AccountInv'
      BY <1>2, <1>4, <2>1, <2>3, <2>4, <2>8, <2>9 DEF AccountInv
    <2>. QED
      BY <1>5, <1>6, <1>7, <2>10 DEF CommitInv
  <1>. QED
    BY <1>8, <1>9

\* A step of the catalog keeps the account of the commits.
LEMMA CommitCatalog ==
  ASSUME TypeInv, CommitInv, CatalogNext, UNCHANGED clientVars
  PROVE  CommitInv'
  <1>1. /\ UNCHANGED <<run, f, commits, conflicts, pc>> /\ CommitOf(f)' = CommitOf(f)
        /\ CatalogTypeOK(Calls, Nat)
    BY DEF clientVars, benchVars, writeVars, CommitOf, TypeInv
  <1>2. OnePlace' /\ AnswersInv'
    BY <1>1, PlacesCatalog DEF CommitInv
  <1>3. /\ UnderWay' \subseteq UnderWay
        /\ OwnLanded \subseteq OwnLanded' /\ OwnLanded' \subseteq OwnLanded \cup UnderWay
        /\ Landed \subseteq Landed' /\ Landed' \subseteq Landed \cup UnderWay \cup {RivalCall}
    BY <1>1, CatalogCalls
  <1>4. Awaited' = Awaited /\ OneAnswer'
    BY CatalogAwaits DEF CommitInv, CallInv
  <1>5. CallInv'
    BY <1>1, <1>3, <1>4 DEF CommitInv, CallInv
  <1>6. ASSUME pc \notin {"killed", "failed"} PROVE Settled' = Settled
    <2>1. /\ \A c \in UnderWay : c.run = run => c = CommitOf(f)
          /\ CommitOf(f).n = f + 1 /\ RivalCall.run = 0 /\ run > 0 /\ f \in Nat /\ run \in Nat
      BY <1>6, PutType DEF CommitInv, AccountInv, RivalCall, TypeInv, ClientTypeOK
    <2>2. \A c \in Landed' : c.run = run /\ c.n <= f => c \in Landed
      BY <1>3, <2>1
    <2>. QED
      BY <1>1, <1>3, <2>2 DEF Settled
  <1>7. AccountInv'
    BY <1>1, <1>3, <1>6 DEF CommitInv, AccountInv
  <1>. QED
    BY <1>2, <1>5, <1>7 DEF CommitInv

\* A crash and a new start keep the account of the commits.
LEMMA CommitFresh ==
  ASSUME TypeInv, CommitInv, Crash \/ StartAgain
  PROVE  CommitInv'
  <1>1. UNCHANGED <<log, requests, reading, faults>> /\ answers' \subseteq answers
    BY DEF Crash, HangUp, StartAgain, catalogVars
  <1>2. UNCHANGED <<OwnLanded, Landed, UnderWay>>
    BY <1>1, LandedStays DEF UnderWay
  <1>3. OnePlace' /\ AnswersInv'
    BY <1>1, <1>2 DEF CommitInv, OnePlace, AnswersInv
  <1>4. CASE Crash
    <2>1. open' = {} /\ answers' = {} /\ run' = run /\ pc' = "killed"
      BY <1>4 DEF Crash, HangUp
    <2>2. CallInv' /\ AccountInv'
      BY <1>2, <2>1 DEF CommitInv, CallInv, OneAnswer, Awaited, AccountInv
    <2>. QED
      BY <1>3, <2>2 DEF CommitInv
  <1>5. CASE StartAgain
    <2>1. /\ open' = open /\ answers' = answers /\ run' = run + 1 /\ pc' = "stock_roundtrip"
          /\ pc \in Exited /\ FreshProcess
      BY <1>5 DEF StartAgain, catalogVars
    <2>2. f' = 0 /\ commits' = 0 /\ conflicts' = 0
      BY <2>1 DEF FreshProcess
    <2>3. Awaited = {} /\ OneAnswer
      BY <2>1 DEF CommitInv, CallInv, Exited
    <2>4. /\ run \in Nat /\ run > 0 /\ RivalCall.run = 0
          /\ \A c \in OwnLanded \cup UnderWay : c.run \in Nat /\ c.run <= run
      <3>1. run \in Nat /\ run > 0 /\ CatalogTypeOK(Calls, Nat)
        BY PutType DEF TypeInv
      <3>2. OwnLanded \cup UnderWay \subseteq Calls
        BY <3>1 DEF CatalogTypeOK, OwnLanded, Landed, UnderWay
      <3>3. \A c \in Calls : c.run \in Nat
        BY DEF Calls
      <3>4. RivalCall.run = 0
        BY DEF RivalCall
      <3>5. \A c \in OwnLanded \cup UnderWay : c.run <= run
        BY DEF CommitInv, CallInv
      <3>. QED
        BY <3>1, <3>2, <3>3, <3>4, <3>5
    <2>5. \A c \in OwnLanded \cup UnderWay : c.run <= run' /\ c.run # run'
      BY <2>1, <2>4
    <2>6. Awaited' = {} /\ OneAnswer'
      BY <2>1, <2>3 DEF Awaited, OneAnswer
    <2>7. CallInv'
      BY <1>2, <2>5, <2>6 DEF CallInv
    <2>8. Settled' = {}
      BY <1>2, <2>1, <2>4, <2>5 DEF Settled, OwnLanded
    <2>9. Cardinality(Settled') + conflicts' = f'
      BY <2>2, <2>8, FS_EmptySet
    <2>10. AccountInv'
      BY <1>2, <2>2, <2>5, <2>9 DEF AccountInv
    <2>. QED
      BY <1>3, <2>7, <2>10 DEF CommitInv
  <1>. QED
    BY <1>4, <1>5

\* Faults and outages only ever grow.
LEMMA FaultsGrow ==
  ASSUME TypeInv, [Next]_vars
  PROVE  /\ faults \in Nat /\ faults' \in {faults, faults + 1}
         /\ outages \in Nat /\ outages' \in {outages, outages + 1}
  <1>1. faults \in Nat /\ outages \in Nat
    BY DEF TypeInv, CatalogTypeOK, StoreTypeOK
  <1>2. faults' \in {faults, faults + 1}
    <2>1. CatalogNext => faults' \in {faults, faults + 1}
      BY DEF CatalogNext, Progress, Trouble, ReadVersion, Replay, Land, Conflict, ServerError,
        Disconnect, RivalCommit
    <2>. QED
      BY <2>1, SetupFrame, ScanFrame DEF Next, Run, SetupStep, ScanStep, put, put_returns,
        commit_file, Send, commit_returns, commit_fails, Receive, write_phase_done, Crash, HangUp,
        StartAgain, Terminated, vars, catalogVars
  <1>3. outages' \in {outages, outages + 1}
    <2>1. StoreNext => outages' = outages
      BY DEF StoreNext, Lands
    <2>. QED
      BY <2>1, SetupFrame, ScanFrame DEF Next, Run, SetupStep, ScanStep, put, Upload, put_returns,
        UploadFails, commit_file, commit_returns, commit_fails, write_phase_done, Crash,
        StartAgain, Terminated, vars, storeVars
  <1>. QED
    BY <1>1, <1>2, <1>3

\* Every step keeps the account of the commits.
LEMMA CommitStep == TypeInv /\ CommitInv /\ [Next]_vars => CommitInv'
  <1>. SUFFICES ASSUME TypeInv, CommitInv, [Next]_vars PROVE CommitInv'
    OBVIOUS
  <1>f. faults' \in {faults, faults + 1}
    BY FaultsGrow
  <1>1. CASE SetupStep
    <2>1. /\ UNCHANGED <<log, requests, reading, open, answers, run, f, commits, conflicts>>
          /\ pc # "committing" /\ pc # "killed" /\ pc # "failed"
      BY <1>1, SetupFrame DEF writeVars, Setup
    <2>. QED
      BY <2>1, <1>f, CommitKept
  <1>2. CASE ScanStep
    <2>1. /\ UNCHANGED <<log, requests, reading, open, answers, run, f, commits, conflicts>>
          /\ pc # "committing" /\ pc # "killed" /\ pc # "failed"
      BY <1>2, ScanFrame DEF writeVars, catalogVars, Scans, Passes
    <2>. QED
      BY <2>1, <1>f, CommitKept
  <1>3. CASE put \/ put_returns \/ write_phase_done
    <2>1. /\ UNCHANGED <<log, requests, reading, open, answers, run, f, commits, conflicts>>
          /\ pc # "committing" /\ pc # "killed" /\ pc # "failed"
      BY <1>3 DEF put, put_returns, write_phase_done, writeVars, catalogVars
    <2>. QED
      BY <2>1, <1>f, CommitKept
  <1>4. CASE (StoreNext /\ UNCHANGED <<catalogVars, clientVars>>) \/ UNCHANGED vars
    <2>1. UNCHANGED <<log, requests, reading, open, answers, run, f, commits, conflicts, pc>>
      BY <1>4 DEF vars, catalogVars, clientVars, benchVars, writeVars
    <2>. QED
      BY <2>1, <1>f, CommitKept
  <1>. QED
    BY <1>1, <1>2, <1>3, <1>4, CommitSend, CommitReceive, CommitCatalog, CommitFresh
    DEF Next, Run, SetupStep, ScanStep, Terminated

\* There is nothing to account for at the start.
LEMMA CommitInit == Init => CommitInv
  <1>. SUFFICES ASSUME Init PROVE CommitInv
    OBVIOUS
  <1>1. /\ log = << >> /\ requests = {} /\ reading = {} /\ open = {} /\ answers = {}
        /\ f = 0 /\ commits = 0 /\ conflicts = 0
    BY DEF Init, CatalogInit
  <1>2. Landed = {} /\ OwnLanded = {} /\ UnderWay = {} /\ Awaited = {} /\ Settled = {}
    BY <1>1 DEF Landed, OwnLanded, UnderWay, Awaited, Settled
  <1>3. Cardinality(Settled) + conflicts = f
    BY <1>1, <1>2, FS_EmptySet
  <1>. QED
    BY <1>1, <1>2, <1>3 DEF CommitInv, OnePlace, AnswersInv, CallInv, OneAnswer, AccountInv

\* A published report accounts for its commits: conflicts counts the refused
\* files, and the commit of every other file has landed, once.
THEOREM ReportAccountsForLogHolds == Spec => []ReportAccountsForLog
  <1>1. TypeInv /\ CommitInv => ReportAccountsForLog
    <2>. SUFFICES ASSUME TypeInv, CommitInv, pc = "done"
                  PROVE  /\ commits = args.files
                         /\ Cardinality({c \in Landed : c.run = run}) = args.files - conflicts
      BY DEF ReportAccountsForLog
    <2>1. f = args.files /\ f \in Nat /\ conflicts \in Nat /\ run > 0 /\ RivalCall.run = 0
      BY PutType DEF TypeInv, IndexInv, ClientTypeOK, RivalCall
    <2>2. /\ \A c \in OwnLanded : c.run = run => c.n <= f
          /\ commits = f /\ Cardinality(Settled) + conflicts = f
      BY DEF CommitInv, AccountInv
    <2>3. {c \in Landed : c.run = run} = Settled
      BY <2>1, <2>2 DEF Settled, OwnLanded
    <2>4. Cardinality(Settled) \in Nat
      <3>1. IsFiniteSet(Landed)
        BY CatalogLandedFinite DEF TypeInv
      <3>. QED
        BY <3>1, FS_Subset, FS_CardinalityType DEF Settled
    <2>5. args.files \in Nat /\ commits = args.files
      BY <2>1, <2>2
    <2>6. Cardinality(Settled) = args.files - conflicts
      BY <2>1, <2>2, <2>4
    <2>. QED
      BY <2>3, <2>5, <2>6
  <1>. QED
    BY <1>1, Invariants, CommitInit, CommitStep, PTL DEF Spec

-----------------------------------------------------------------------------
(* The scans.                                                              *)

\* What the write phase was asked to write.
Expected == {<<g, encode_file(g)>> : g \in 0..(args.files - 1)}

\* Where the program is once it has finished with p.
After(p) == CASE p = "filter_threshold" -> Passes \cup {"done"}
              [] p = "read-no-cache" -> {"read-cold", "read-warm", "done"}
              [] p = "read-cold" -> {"read-warm", "done"}
              [] p = "read-warm" -> {"done"}

\* Under the same arguments every scan of this run has read that.
ReadsInv ==
  SameArgs => \A p \in Scans : pc \in After(p) \/ (pc = p /\ j > 0) => reads[p] = Expected

\* Once its write phase is done, a run finds all its files and no others, in
\* the store and through the cache.
LEMMA ScansFindThem ==
  ASSUME TypeInv, StoredInv, FilesInv, SameArgs, pc \in Scans
  PROVE  /\ Contents(objects) = Expected
         /\ \A p \in Passes : Seen(p) = Expected
         /\ ~Outdated(cache)
  <1>1. args.files \in Nat /\ f = args.files /\ DOMAIN objects \subseteq Nat
    BY Sizes DEF TypeInv, IndexInv, ClientTypeOK, StoreTypeOK
  <1>2. /\ \A g \in DOMAIN objects : g < args.files /\ objects[g] = encode_file(g)
        /\ \A g \in DOMAIN cache : cache[g] = encode_file(g)
    BY DEF FilesInv
  <1>3. DOMAIN objects = 0..(args.files - 1)
    <2>1. \A g \in 0..(args.files - 1) : g \in DOMAIN objects
      BY <1>1 DEF StoredInv, Stored
    <2>2. \A g \in DOMAIN objects : g \in 0..(args.files - 1)
      BY <1>1, <1>2
    <2>. QED
      BY <2>1, <2>2
  <1>4. Contents(objects) = Expected
    BY <1>2, <1>3 DEF Contents, Expected
  <1>5. Contents(Through(cache, DOMAIN objects)) = Expected
    <2>. DEFINE T == Through(cache, DOMAIN objects)
    <2>1. DOMAIN T = 0..(args.files - 1) /\ \A g \in DOMAIN T : T[g] = encode_file(g)
      BY <1>2, <1>3 DEF Through
    <2>. HIDE DEF T
    <2>2. Contents(T) = Expected
      BY <2>1 DEF Contents, Expected
    <2>. QED
      BY <2>2 DEF T
  <1>6. ~Outdated(cache)
    BY <1>2 DEF Outdated
  <1>. QED
    BY <1>4, <1>5, <1>6 DEF Seen

\* Every step keeps what the passes have read.
LEMMA ReadsStep == TypeInv /\ StoredInv /\ FilesInv /\ ReadsInv /\ [Next]_vars => ReadsInv'
  <1>. SUFFICES ASSUME TypeInv, StoredInv, FilesInv, ReadsInv, [Next]_vars, SameArgs'
                PROVE  \A p \in Scans : (pc \in After(p) \/ (pc = p /\ j > 0) => reads[p] = Expected)'
    BY DEF ReadsInv
  <1>1. SameArgs /\ args' = args /\ Expected' = Expected
    BY SameArgsBefore DEF Expected
  <1>2. \A p \in Scans : pc \in After(p) \/ (pc = p /\ j > 0) => reads[p] = Expected
    BY <1>1 DEF ReadsInv
  <1>3. DOMAIN reads = Scans /\ j \in Nat
    BY DEF TypeInv, ClientTypeOK
  <1>4. CASE pc' \notin Scans \cup {"done"}
    BY <1>4 DEF Scans, Passes, After
  <1>5. CASE filter_threshold
    <2>1. CASE pc' = "failed"
      BY <1>4, <2>1 DEF Scans, Passes
    <2>2. CASE pc' # "failed"
      <3>1. /\ reads' = [reads EXCEPT !["filter_threshold"] = Contents(objects)]
            /\ pc' = "read-no-cache" /\ j' = j /\ pc = "filter_threshold"
        BY <1>5, <2>2 DEF filter_threshold
      <3>2. j = 0 /\ Contents(objects) = Expected
        BY <3>1, <1>1, ScansFindThem DEF TypeInv, IndexInv, Scans, Passes
      <3>. QED
        BY <1>1, <1>3, <3>1, <3>2 DEF Scans, Passes, After
    <2>. QED
      BY <2>1, <2>2
  <1>6. ASSUME NEW q \in Passes, run_scan(q)
        PROVE  \A p \in Scans : (pc \in After(p) \/ (pc = p /\ j > 0) => reads[p] = Expected)'
    <2>1. CASE pc' = "failed"
      BY <1>4, <2>1 DEF Scans, Passes
    <2>2. CASE pc' # "failed"
      <3>1. /\ pc = q /\ pc' = q
            /\ reads' = IF j = 0 THEN [reads EXCEPT ![q] = Seen(q)] ELSE reads
        BY <1>6, <2>2 DEF run_scan
      <3>2. Seen(q) = Expected
        BY <3>1, <1>1, ScansFindThem DEF Scans
      <3>3. q \in Scans /\ (j > 0 => reads[q] = Expected)
        BY <3>1, <1>2 DEF Scans
      <3>4. reads'[q] = Expected /\ \A p \in Scans : p # q => reads'[p] = reads[p]
        BY <1>3, <3>1, <3>2, <3>3
      <3>. QED
        BY <1>1, <1>2, <3>1, <3>4
    <2>. QED
      BY <2>1, <2>2
  <1>7. ASSUME NEW q \in Passes, pass_done(q)
        PROVE  \A p \in Scans : (pc \in After(p) \/ (pc = p /\ j > 0) => reads[p] = Expected)'
    <2>1. pc = q /\ j = Iters(q) /\ j' = 0 /\ pc' \in AfterPass(q) /\ reads' = reads
      BY <1>7 DEF pass_done
    <2>2. q \in Scans /\ reads[q] = Expected
      BY <2>1, <1>2, ItersType DEF Scans
    <2>3. \A p \in Scans : pc' \in After(p) => p = q \/ pc \in After(p)
      BY <2>1 DEF AfterPass, AfterNoCache, After, Scans, Passes
    <2>. QED
      BY <1>1, <1>2, <2>1, <2>2, <2>3
  <1>8. CASE \E p \in Passes : scan_fails(p)
    BY <1>8, <1>4 DEF scan_fails, Scans, Passes
  <1>9. CASE UNCHANGED <<pc, j, reads>>
    BY <1>9, <1>1, <1>2
  <1>10. CASE SetupStep
    <2>1. /\ UNCHANGED <<j, reads>> /\ j = 0
          /\ pc' \in Setup \cup {"put", "failed", "filter_threshold"}
      BY <1>10, SetupFrame DEF readVars, TypeInv, IndexInv, Setup, Passes
    <2>. QED
      BY <2>1 DEF Setup, Scans, Passes, After
  <1>11. CASE put \/ put_returns \/ commit_file \/ commit_returns \/ commit_fails \/ write_phase_done
              \/ Crash \/ StartAgain
    <2>1. pc' \notin Scans \cup {"done"}
      BY <1>11 DEF put, put_returns, commit_file, commit_returns, commit_fails, write_phase_done,
        Crash, StartAgain, Scans, Passes
    <2>. QED
      BY <1>4, <2>1
  <1>12. CASE ((CatalogNext \/ StoreNext) /\ UNCHANGED clientVars) \/ UNCHANGED vars
    BY <1>9, <1>12 DEF vars, clientVars, benchVars, readVars
  <1>. QED
    BY <1>5, <1>6, <1>7, <1>8, <1>10, <1>11, <1>12 DEF Next, Run, SetupStep, Terminated

\* Nothing is read at the start.
LEMMA ReadsInit == Init => ReadsInv
  BY DEF Init, ReadsInv, Scans, Passes, After

\* Runs with the same arguments do each other no harm: the three passes all
\* read the rows that the write phase was asked for, each once.
THEOREM ReadsWhatItWroteHolds == Spec => []ReadsWhatItWrote
  <1>1. ReadsInv => ReadsWhatItWrote
    BY DEF ReadsInv, ReadsWhatItWrote, SameArgs, Expected, After, Scans, Passes
  <1>. QED
    BY <1>1, Invariants, ReadsInit, ReadsStep, PTL DEF Spec

-----------------------------------------------------------------------------
(* What makes the program fail.                                            *)

\* More than one row is more than one row however it is split into files.
LEMMA ExpectedIsMatched ==
  ASSUME TypeInv, args.files * args.rows > 1
  PROVE  Matched(Expected)
  <1>. DEFINE F == args.files
              R == args.rows
              U == UNION {c[2] : c \in Expected}
  <1>1. F \in Nat /\ R \in Nat /\ F * R > 1
    BY Sizes DEF TypeInv, ClientTypeOK
  <1>2. \A x : x \in U <=> \E g \in 0..(F - 1) : x \in encode_file(g)
    <2>1. \A x \in U : \E g \in 0..(F - 1) : x \in encode_file(g)
      BY DEF Expected
    <2>2. ASSUME NEW g \in 0..(F - 1) PROVE encode_file(g) \subseteq U
      <3>1. <<g, encode_file(g)>> \in Expected /\ <<g, encode_file(g)>>[2] = encode_file(g)
        BY DEF Expected
      <3>. QED
        BY <3>1
    <2>. QED
      BY <2>1, <2>2
  <1>3. \A g \in 0..(F - 1) : encode_file(g) = (g * R)..((g + 1) * R - 1)
    BY DEF encode_file
  <1>. HIDE DEF F, R, U
  <1>4. F > 0 /\ R > 0 /\ (F > 1 \/ R > 1)
    <2>1. F # 0 /\ R # 0
      BY <1>1
    <2>2. ~(F = 1 /\ R = 1)
      BY <1>1
    <2>. QED
      BY <1>1, <2>1, <2>2
  <1>5. 0 \in U
    <2>1. 0 \in 0..(F - 1) /\ encode_file(0) = (0 * R)..((0 + 1) * R - 1)
      BY <1>1, <1>3, <1>4
    <2>2. 0 \in encode_file(0)
      BY <1>1, <1>4, <2>1
    <2>. QED
      BY <1>2, <2>1, <2>2
  <1>6. 1 \in U
    <2>1. CASE R > 1
      <3>1. 0 \in 0..(F - 1) /\ encode_file(0) = (0 * R)..((0 + 1) * R - 1)
        BY <1>1, <1>3, <1>4
      <3>2. 1 \in encode_file(0)
        BY <1>1, <2>1, <3>1
      <3>. QED
        BY <1>2, <3>1, <3>2
    <2>2. CASE R = 1
      <3>1. 1 \in 0..(F - 1) /\ encode_file(1) = (1 * R)..((1 + 1) * R - 1)
        BY <1>1, <1>3, <1>4, <2>2
      <3>2. 1 \in encode_file(1)
        BY <2>2, <3>1
      <3>. QED
        BY <1>2, <3>1, <3>2
    <2>. QED
      BY <1>1, <1>4, <2>1, <2>2
  <1>7. \A x \in U : x \in Nat /\ x <= F * R
    <2>. SUFFICES ASSUME NEW g \in 0..(F - 1), NEW x \in encode_file(g) PROVE x \in Nat /\ x <= F * R
      BY <1>2
    <2>1. g \in Nat /\ g * R \in Nat /\ (g + 1) * R \in Nat /\ F - (g + 1) \in Nat
      BY <1>1
    <2>2. x \in Nat /\ x <= (g + 1) * R
      BY <1>3, <2>1
    <2>3. F * R = (g + 1) * R + (F - (g + 1)) * R /\ (F - (g + 1)) * R \in Nat
      BY <1>1, <2>1
    <2>. QED
      BY <2>1, <2>2, <2>3
  <1>8. IsFiniteSet(U) /\ Cardinality(U) \in Nat
    <2>1. U \in SUBSET Nat /\ F * R \in Nat /\ \A x \in U : x <= F * R
      BY <1>1, <1>7
    <2>2. IsFiniteSet(U)
      BY <2>1, FS_BoundedSetOfNaturals
    <2>. QED
      BY <2>2, FS_CardinalityType
  <1>9. Cardinality(U) # 0
    BY <1>5, <1>8, FS_EmptySet
  <1>10. Cardinality(U) # 1
    BY <1>5, <1>6, <1>8, FS_Singleton
  <1>11. Cardinality(U) > 1
    BY <1>8, <1>9, <1>10
  <1>. QED
    BY <1>11 DEF Matched, U

\* No request has failed, the arguments are the first run's, and there is more
\* than one row to read.
Quiet == faults = 0 /\ outages = 0 /\ SameArgs /\ args.files * args.rows > 1

\* Without a failed request no step ends the program early.
LEMMA QuietStep ==
  ASSUME TypeInv, StoredInv, FilesInv, CommitInv, ReadsInv, pc # "failed", [Next]_vars, Quiet'
  PROVE  pc' # "failed"
  <1>1. Quiet /\ faults' = faults /\ outages' = outages /\ faults = 0 /\ outages = 0
    BY FaultsGrow, SameArgsBefore DEF Quiet
  <1>2. SameArgs /\ args.files * args.rows > 1
    BY <1>1 DEF Quiet
  <1>3. CASE SetupStep
    BY <1>1, <1>3, SetupFrame
  <1>4. CASE put_returns
    BY <1>1, <1>4 DEF put_returns, UploadFails
  <1>5. CASE commit_fails
    <2>1. [id |-> CommitOf(f), status |-> "error"] \in answers
      BY <1>5 DEF commit_fails, Receive
    <2>. QED
      BY <1>1, <2>1 DEF CommitInv, AnswersInv
  <1>6. CASE filter_threshold \/ \E p \in Passes : scan_fails(p)
    BY <1>1, <1>6 DEF filter_threshold, scan_fails, ReadFails
  <1>7. ASSUME NEW p \in Passes, run_scan(p) PROVE pc' # "failed"
    <2>1. pc = p /\ p \in Scans /\ j \in Nat
      BY <1>7 DEF run_scan, Scans, TypeInv, ClientTypeOK
    <2>2. Seen(p) = Expected /\ ~Outdated(cache)
      BY <1>2, <2>1, ScansFindThem
    <2>3. j > 0 => reads[p] = Expected
      BY <1>2, <2>1 DEF ReadsInv
    <2>. QED
      BY <1>7, <2>2, <2>3 DEF run_scan
  <1>8. ASSUME NEW p \in Passes, pass_done(p) PROVE pc' # "failed"
    <2>1. pc = p /\ j = Iters(p) /\ j > 0 /\ pc' \in AfterPass(p)
      BY <1>8, ItersType DEF pass_done
    <2>2. CASE p = "read-no-cache"
      <3>1. reads["read-no-cache"] = Expected /\ reads["filter_threshold"] = Expected
        BY <1>2, <2>1, <2>2 DEF ReadsInv, Scans, Passes, After
      <3>2. Matched(Expected)
        BY <1>2, ExpectedIsMatched
      <3>3. AfterNoCache = {"read-cold"}
        BY <3>1, <3>2 DEF AfterNoCache
      <3>. QED
        BY <2>1, <2>2, <3>3 DEF AfterPass
    <2>3. CASE p # "read-no-cache"
      BY <2>1, <2>3 DEF AfterPass, Passes
    <2>. QED
      BY <2>2, <2>3
  <1>9. CASE put \/ commit_file \/ commit_returns \/ write_phase_done \/ Crash \/ StartAgain
    BY <1>9 DEF put, commit_file, commit_returns, write_phase_done, Crash, StartAgain
  <1>10. CASE ((CatalogNext \/ StoreNext) /\ UNCHANGED clientVars) \/ UNCHANGED vars
    BY <1>10 DEF vars, clientVars, benchVars
  <1>. QED
    BY <1>3, <1>4, <1>5, <1>6, <1>7, <1>8, <1>9, <1>10 DEF Next, Run, SetupStep, Terminated

\* As long as no request fails, runs with the same arguments never fail for
\* what other runs have left behind or for what a rival commits.
THEOREM OnlyFaultsFailHolds == Spec => []OnlyFaultsFail
  <1>1. Init => OnlyFaultsFail
    BY DEF Init, OnlyFaultsFail
  <1>2. TypeInv /\ StoredInv /\ FilesInv /\ CommitInv /\ ReadsInv /\ OnlyFaultsFail /\ [Next]_vars
          => OnlyFaultsFail'
    <2>. SUFFICES ASSUME TypeInv, StoredInv, FilesInv, CommitInv, ReadsInv, OnlyFaultsFail,
                         [Next]_vars
                  PROVE  OnlyFaultsFail'
      OBVIOUS
    <2>1. CASE Quiet'
      <3>1. Quiet
        BY <2>1, FaultsGrow, SameArgsBefore DEF Quiet
      <3>2. pc # "failed"
        BY <3>1 DEF OnlyFaultsFail, Quiet, SameArgs
      <3>3. pc' # "failed"
        BY <2>1, <3>2, QuietStep
      <3>. QED
        BY <3>3 DEF OnlyFaultsFail
    <2>2. CASE ~Quiet'
      BY <2>2 DEF OnlyFaultsFail, Quiet, SameArgs
    <2>. QED
      BY <2>1, <2>2
  <1>. QED
    BY <1>1, <1>2, Invariants, CommitInit, CommitStep, ReadsInit, ReadsStep, PTL DEF Spec
=============================================================================
