---------------------------- MODULE WriteDataProofs ----------------------------
(***************************************************************************)
(* What holds of the write benchmark for all arguments of its starts and   *)
(* every number of runs and faults, and that it implements FileTable.      *)
(***************************************************************************)
EXTENDS WriteData, StatsProofs, CatalogProofs

-----------------------------------------------------------------------------
(* The bucket.                                                             *)

\* The sizes, and that the iterations stay below the seeds of the warmup.
LEMMA Sizes ==
  /\ MaxRuns \in Nat \ {0} /\ WarmupSeed \in Nat
  /\ \A a \in ArgChoices : /\ a.warmup \in Nat /\ a.iterations \in Nat /\ a.rows \in Nat
                           /\ a.iterations <= WarmupSeed
  BY WriteDataAssumption, SMT DEF WarmupSeed

\* A row id is a natural number.
LEMMA BatchType == \A rows, seed \in Nat : make_batch(rows, seed) \in SUBSET Nat
  <1>. SUFFICES ASSUME NEW rows \in Nat, NEW seed \in Nat
                PROVE  \A r \in 0..(rows - 1) : seed * rows + r \in Nat
    BY DEF make_batch
  <1>. QED
    OBVIOUS

\* Files of one size built from different seeds share no row id.
LEMMA BatchesDisjoint ==
  \A rows, a, b \in Nat : a # b => make_batch(rows, a) \cap make_batch(rows, b) = {}
  <1>. SUFFICES ASSUME NEW rows \in Nat, NEW a \in Nat, NEW b \in Nat, a < b
                PROVE  \A r, s \in 0..(rows - 1) : a * rows + r # b * rows + s
    BY DEF make_batch
  <1>1. PICK d \in Nat : b = a + 1 + d
    <2>1. b - a - 1 \in Nat /\ b = a + 1 + (b - a - 1)
      OBVIOUS
    <2>. QED
      BY <2>1
  <1>2. b * rows = a * rows + rows + d * rows
    BY <1>1
  <1>3. a * rows \in Nat /\ d * rows \in Nat /\ b * rows \in Nat
    OBVIOUS
  <1>. QED
    BY <1>2, <1>3

\* The PUTs of the program are of the right type.
LEMMA PutType ==
  ASSUME TypeOK
  PROVE  /\ WarmupPut \in [run : Nat, file : Files, content : SUBSET Nat]
         /\ PartPut \in [run : Nat, file : Files, content : SUBSET Nat]
  <1>0. i \in Nat /\ run \in 1..MaxRuns /\ args \in ArgChoices
    BY DEF TypeOK
  <1>1. i \in Nat /\ WarmupSeed + i \in Nat /\ run \in Nat /\ args.rows \in Nat
    BY <1>0, Sizes
  <1>2. make_batch(args.rows, WarmupSeed + i) \in SUBSET Nat /\ make_batch(args.rows, i) \in SUBSET Nat
    BY <1>1, BatchType
  <1>. QED
    BY <1>1, <1>2 DEF WarmupPut, PartPut, Files

\* Sending, failing and landing keep the types of the bucket.
LEMMA UploadType ==
  ASSUME StoreTypeOK(Files), NEW up \in [run : Nat, file : Files, content : SUBSET Nat], Upload(up)
  PROVE  StoreTypeOK(Files)'
  BY DEF StoreTypeOK, Upload, Files

\* A failing PUT keeps the types of the bucket.
LEMMA UploadFailsType ==
  ASSUME StoreTypeOK(Files), NEW up, UploadFails(up)
  PROVE  StoreTypeOK(Files)'
  BY DEF StoreTypeOK, UploadFails, Files

\* A PUT that lands replaces its file and no other.
LEMMA LandsType ==
  ASSUME StoreTypeOK(Files), NEW up \in uploads, Lands(up)
  PROVE  /\ StoreTypeOK(Files)'
         /\ DOMAIN objects' = DOMAIN objects \cup {up.file}
         /\ \A g \in DOMAIN objects' : objects'[g] = IF g = up.file THEN up.content ELSE objects[g]
         /\ uploads' = uploads \ {up}
  <1>1. up.file \in Files /\ up.content \in SUBSET Nat
    BY DEF StoreTypeOK
  <1>2. /\ DOMAIN objects' = DOMAIN objects \cup {up.file}
        /\ \A g \in DOMAIN objects' : objects'[g] = IF g = up.file THEN up.content ELSE objects[g]
        /\ uploads' = uploads \ {up} /\ outages' = outages
    BY DEF Lands, Overwrite
  <1>3. Files' = Files
    BY DEF Files
  <1>. QED
    BY <1>1, <1>2, <1>3 DEF StoreTypeOK

-----------------------------------------------------------------------------
(* Types.                                                                  *)

\* The fault budget of the catalog's setup requests.
LEMMA SetupType ==
  ASSUME CatalogTypeOK(Calls, Nat), NEW what \in {"namespace", "table"}, NEW after,
         CreateRequest(what, after), UNCHANGED <<log, recorded, requests, reading, open, answers>>
  PROVE  CatalogTypeOK(Calls, Nat)' /\ pc' \in {after, "failed"}
  <1>1. created' \in {"nothing", "namespace", "table"} /\ faults' \in Nat
    BY CatalogAssumption DEF CreateRequest, CatalogTypeOK
  <1>2. Calls' = Calls
    BY DEF Calls
  <1>. QED
    BY <1>1, <1>2 DEF CatalogTypeOK, CreateRequest, RivalCall, Statuses

\* What the program has of its own is of the right type.
ClientTypeOK ==
  /\ run \in 1..MaxRuns
  /\ pc \in {"create_namespace", "create_table", "load_table_uuid", "warmup", "warmup_put",
             "write", "write_put", "commit", "commit_file"} \cup Exited
  /\ i \in Nat
  /\ writes \in Nat
  /\ commits \in Nat

\* The arguments are those of one of the starts.
ArgsOK ==
  /\ args \in ArgChoices
  /\ args \in usedArgs
  /\ usedArgs \in SUBSET ArgChoices
  /\ logAtStart \in Nat

\* The index starts at 0 and stays in its loop.
IndexInv ==
  /\ pc \in {"create_namespace", "create_table", "load_table_uuid"} => i = 0
  /\ pc = "warmup" => i <= args.warmup
  /\ pc = "warmup_put" => i < args.warmup
  /\ pc \in {"write", "done"} => i <= args.iterations
  /\ pc \in {"write_put", "commit", "commit_file"} => i < args.iterations

TypeInv == CatalogTypeOK(Calls, Nat) /\ StoreTypeOK(Files) /\ ClientTypeOK /\ ArgsOK /\ IndexInv

\* The numbers of files and rows of this start.
LEMMA ArgSizes ==
  ASSUME ArgsOK
  PROVE  /\ args.warmup \in Nat /\ args.iterations \in Nat /\ args.rows \in Nat
         /\ args.iterations <= WarmupSeed
  BY Sizes DEF ArgsOK

\* The arguments are read once: only another start has other ones.
LEMMA ArgsKept ==
  ASSUME [Next]_vars
  PROVE  StartAgain \/ UNCHANGED <<run, args, usedArgs, logAtStart>>
  BY DEF Next, Main, Terminated, vars, clientVars, argVars, create_namespace, create_table,
    load_table_uuid, setupUnchanged, warmup_put, write_put, StartPut, warmup_returns, warmup_fails,
    write_fails, PutFails, warmup_done, write_returns, commit_file, commit_returns, report, Crash

\* Every step keeps the arguments those of one of the starts.
LEMMA ArgsStep ==
  ASSUME ArgsOK, CatalogTypeOK(Calls, Nat), [Next]_vars
  PROVE  ArgsOK'
  <1>1. CASE UNCHANGED <<run, args, usedArgs, logAtStart>>
    BY <1>1 DEF ArgsOK
  <1>2. CASE StartAgain
    BY <1>2 DEF StartAgain, ArgsOK, CatalogTypeOK
  <1>. QED
    BY <1>1, <1>2, ArgsKept

\* The strengthened type invariant implies the one that the run checks.
LEMMA TypeInvImplies == TypeInv => TypeOK
  <1>. SUFFICES ASSUME TypeInv PROVE TypeOK
    OBVIOUS
  <1>1. pc \in {"warmup", "warmup_put"} => i <= args.warmup
    BY ArgSizes DEF TypeInv, ClientTypeOK, IndexInv
  <1>2. pc \in {"write", "write_put", "commit", "commit_file", "done"} => i <= args.iterations
    BY ArgSizes DEF TypeInv, ClientTypeOK, IndexInv
  <1>. QED
    BY <1>1, <1>2 DEF TypeInv, ClientTypeOK, ArgsOK, TypeOK

\* The call of the file that is next has its type.
LEMMA CommitCallType ==
  ASSUME ClientTypeOK
  PROVE  CommitCall \in Calls /\ CommitCall.n = i
  <1>1. run \in 1..MaxRuns /\ i \in Nat
    BY DEF ClientTypeOK
  <1>. QED
    BY <1>1 DEF CommitCall, Calls

\* The strengthened type invariant holds at the start.
LEMMA TypeInit == Init => TypeInv
  <1>. SUFFICES ASSUME Init PROVE TypeInv
    OBVIOUS
  <1>1. CatalogTypeOK(Calls, Nat)
    BY DEF Init, CatalogInit, CatalogTypeOK
  <1>2. StoreTypeOK(Files)
    BY DEF Init, StoreInit, StoreTypeOK
  <1>3. ClientTypeOK /\ ArgsOK /\ IndexInv
    BY Sizes DEF Init, ClientTypeOK, ArgsOK, IndexInv
  <1>. QED
    BY <1>1, <1>2, <1>3 DEF TypeInv

\* Every step keeps the types.
LEMMA TypeStep == TypeInv /\ [Next]_vars => TypeInv'
  <1>. SUFFICES ASSUME TypeInv, [Next]_vars PROVE TypeInv'
    OBVIOUS
  <1>p. /\ CatalogTypeOK(Calls, Nat) /\ StoreTypeOK(Files) /\ ClientTypeOK /\ IndexInv /\ TypeOK
        /\ ArgsOK
    BY TypeInvImplies DEF TypeInv
  <1>z. args.warmup \in Nat /\ args.iterations \in Nat
    BY <1>p, ArgSizes
  <1>a. StartAgain \/ UNCHANGED <<run, args, usedArgs, logAtStart>>
    BY ArgsKept
  <1>q. CatalogTypeOK(Calls, Nat)' /\ StoreTypeOK(Files)' /\ ClientTypeOK' /\ IndexInv' => TypeInv'
    BY <1>p, ArgsStep DEF TypeInv
  <1>c. ASSUME UNCHANGED catalogVars PROVE CatalogTypeOK(Calls, Nat)'
    BY <1>p, <1>c DEF catalogVars, CatalogTypeOK, Calls, RivalCall, Statuses
  <1>s. ASSUME UNCHANGED storeVars PROVE StoreTypeOK(Files)'
    BY <1>p, <1>s DEF storeVars, StoreTypeOK, Files
  <1>k. ASSUME UNCHANGED clientVars PROVE ClientTypeOK' /\ IndexInv'
    BY <1>p, <1>k DEF clientVars, argVars, ClientTypeOK, IndexInv, Exited
  <1>1. CASE create_namespace
    <2>1. CatalogTypeOK(Calls, Nat)' /\ pc' \in {"create_table", "failed"}
      BY <1>1, <1>p, SetupType DEF create_namespace, setupUnchanged
    <2>2. ClientTypeOK' /\ IndexInv'
      BY <1>1, <2>1, <1>p DEF create_namespace, setupUnchanged, argVars, ClientTypeOK, IndexInv, Exited
    <2>. QED
      BY <1>1, <2>1, <2>2, <1>s, <1>q DEF create_namespace, setupUnchanged
  <1>2. CASE create_table
    <2>1. CatalogTypeOK(Calls, Nat)' /\ pc' \in {"load_table_uuid", "failed"}
      BY <1>2, <1>p, SetupType DEF create_table, setupUnchanged
    <2>2. ClientTypeOK' /\ IndexInv'
      BY <1>2, <2>1, <1>p DEF create_table, setupUnchanged, argVars, ClientTypeOK, IndexInv, Exited
    <2>. QED
      BY <1>2, <2>1, <2>2, <1>s, <1>q DEF create_table, setupUnchanged
  <1>3. CASE load_table_uuid
    <2>1. CatalogTypeOK(Calls, Nat)'
      BY <1>3, <1>p DEF load_table_uuid, setupUnchanged, CatalogTypeOK, Calls, RivalCall, Statuses
    <2>2. i = 0
      BY <1>3, <1>p DEF load_table_uuid, IndexInv
    <2>3. ClientTypeOK' /\ IndexInv'
      <3>1. pc' \in {"warmup", "failed"} /\ i' = 0 /\ UNCHANGED <<run, args, writes, commits>>
        BY <1>3, <2>2 DEF load_table_uuid, setupUnchanged, argVars
      <3>2. ClientTypeOK'
        BY <1>p, <3>1 DEF ClientTypeOK, Exited
      <3>3. IndexInv'
        BY <1>z, <3>1 DEF IndexInv
      <3>. QED
        BY <3>2, <3>3
    <2>. QED
      BY <1>3, <2>1, <2>3, <1>s, <1>q DEF load_table_uuid, setupUnchanged
  <1>4. CASE warmup_put
    <2>1. StoreTypeOK(Files)'
      BY <1>4, <1>p, PutType, UploadType DEF warmup_put, StartPut
    <2>2. ClientTypeOK' /\ IndexInv'
      BY <1>4, <1>p DEF warmup_put, StartPut, argVars, ClientTypeOK, IndexInv, Exited
    <2>. QED
      BY <1>4, <2>1, <2>2, <1>c, <1>q DEF warmup_put, StartPut
  <1>5. CASE write_put
    <2>1. StoreTypeOK(Files)'
      BY <1>5, <1>p, PutType, UploadType DEF write_put, StartPut
    <2>2. ClientTypeOK' /\ IndexInv'
      BY <1>5, <1>p DEF write_put, StartPut, argVars, ClientTypeOK, IndexInv, Exited
    <2>. QED
      BY <1>5, <2>1, <2>2, <1>c, <1>q DEF write_put, StartPut
  <1>6. CASE warmup_fails
    <2>1. StoreTypeOK(Files)'
      BY <1>6, <1>p, UploadFailsType DEF warmup_fails, PutFails
    <2>2. ClientTypeOK' /\ IndexInv'
      BY <1>6, <1>p DEF warmup_fails, PutFails, argVars, ClientTypeOK, IndexInv, Exited
    <2>. QED
      BY <1>6, <2>1, <2>2, <1>c, <1>q DEF warmup_fails, PutFails
  <1>7. CASE write_fails
    <2>1. StoreTypeOK(Files)'
      BY <1>7, <1>p, UploadFailsType DEF write_fails, PutFails
    <2>2. ClientTypeOK' /\ IndexInv'
      BY <1>7, <1>p DEF write_fails, PutFails, argVars, ClientTypeOK, IndexInv, Exited
    <2>. QED
      BY <1>7, <2>1, <2>2, <1>c, <1>q DEF write_fails, PutFails
  <1>8. CASE warmup_returns \/ warmup_done \/ write_returns \/ report
    <2>1. UNCHANGED <<catalogVars, storeVars>>
      BY <1>8 DEF warmup_returns, warmup_done, write_returns, report
    <2>2. CatalogTypeOK(Calls, Nat)' /\ StoreTypeOK(Files)'
      BY <2>1, <1>c, <1>s
    <2>3. ClientTypeOK'
      <3>1. /\ pc' \in {"warmup", "write", "commit", "done"} /\ i' \in {i, i + 1, 0}
            /\ writes' \in {writes, writes + 1} /\ UNCHANGED <<run, commits>>
        BY <1>8 DEF warmup_returns, warmup_done, write_returns, report, RestartIndex, argVars
      <3>. QED
        BY <1>p, <3>1 DEF ClientTypeOK, Exited
    <2>4. IndexInv'
      <3>1. i \in Nat
        BY <1>p DEF ClientTypeOK
      <3>2. CASE warmup_returns
        BY <3>1, <3>2, <1>p, <1>z DEF warmup_returns, argVars, IndexInv
      <3>3. CASE warmup_done
        BY <3>3, <1>z DEF warmup_done, RestartIndex, argVars, IndexInv
      <3>4. CASE write_returns
        BY <3>4, <1>p DEF write_returns, argVars, IndexInv
      <3>5. CASE report
        BY <3>5, <1>p DEF report, argVars, IndexInv
      <3>. QED
        BY <1>8, <3>2, <3>3, <3>4, <3>5
    <2>. QED
      BY <2>2, <2>3, <2>4, <1>q
  <1>9. CASE commit_file
    <2>1. CatalogTypeOK(Calls, Nat)'
      <3>1. CatalogTypeOK(Calls, Nat) /\ CommitCall \in Calls /\ {} \in SUBSET Nat /\ Send(CommitCall, {})
        BY <1>9, <1>p, CommitCallType DEF commit_file
      <3>2. Calls' = Calls
        BY DEF Calls
      <3>. QED
        BY <3>1, <3>2, SendType
    <2>2. ClientTypeOK' /\ IndexInv'
      BY <1>9, <1>p DEF commit_file, argVars, ClientTypeOK, IndexInv, Exited
    <2>. QED
      BY <1>9, <2>1, <2>2, <1>s, <1>q DEF commit_file
  <1>10. CASE commit_returns
    <2>1. CatalogTypeOK(Calls, Nat)'
      BY <1>10, <1>p, ReceiveType DEF commit_returns, CommitErr, Calls
    <2>2. ClientTypeOK' /\ IndexInv'
      <3>1. \/ i' = i + 1 /\ commits' = commits + 1 /\ pc' = "write"
            \/ pc' = "failed" /\ UNCHANGED <<i, commits>>
        BY <1>10 DEF commit_returns, CommitErr
      <3>2. pc = "commit_file" /\ UNCHANGED <<run, args, writes>>
        BY <1>10 DEF commit_returns, argVars
      <3>3. ClientTypeOK'
        BY <3>1, <3>2, <1>p DEF ClientTypeOK, Exited
      <3>4. i \in Nat /\ i < args.iterations
        BY <3>2, <1>p DEF ClientTypeOK, IndexInv
      <3>5. IndexInv'
        BY <3>1, <3>2, <3>4, <1>z DEF IndexInv
      <3>. QED
        BY <3>3, <3>5
    <2>. QED
      BY <1>10, <2>1, <2>2, <1>s, <1>q DEF commit_returns
  <1>11. CASE CatalogNext /\ UNCHANGED <<storeVars, clientVars>>
    <2>1. CatalogTypeOK(Calls, Nat)'
      BY <1>11, <1>p, CatalogType DEF Calls
    <2>. QED
      BY <1>11, <2>1, <1>k, <1>s, <1>q
  <1>12. CASE StoreNext /\ UNCHANGED <<catalogVars, clientVars>>
    <2>1. StoreTypeOK(Files)'
      BY <1>12, <1>p, LandsType DEF StoreNext
    <2>. QED
      BY <1>12, <2>1, <1>k, <1>c, <1>q
  <1>13. CASE Crash
    <2>1. CatalogTypeOK(Calls, Nat)'
      BY <1>13, <1>p DEF Crash, HangUp, CatalogTypeOK, Calls, RivalCall
    <2>2. ClientTypeOK' /\ IndexInv'
      BY <1>13, <1>p DEF Crash, FreshProcess, argVars, ClientTypeOK, IndexInv, Exited
    <2>. QED
      BY <1>13, <2>1, <2>2, <1>s, <1>q DEF Crash
  <1>14. CASE StartAgain
    <2>1. run' \in 1..MaxRuns
      <3>1. run \in 1..MaxRuns /\ run < MaxRuns /\ run' = run + 1
        BY <1>14, <1>p DEF StartAgain, ClientTypeOK
      <3>. QED
        BY <3>1, Sizes
    <2>2. ClientTypeOK' /\ IndexInv'
      BY <1>14, <2>1, <1>p DEF StartAgain, FreshProcess, argVars, ClientTypeOK, IndexInv, Exited
    <2>. QED
      BY <1>14, <2>2, <1>s, <1>c, <1>q DEF StartAgain
  <1>15. CASE UNCHANGED vars
    BY <1>15, <1>s, <1>c, <1>k, <1>q DEF vars
  <1>. QED
    BY <1>1, <1>2, <1>3, <1>4, <1>5, <1>6, <1>7, <1>8, <1>9, <1>10, <1>11, <1>12, <1>13, <1>14,
       <1>15 DEF Next, Main, Terminated

\* Type correctness, for all arguments and every number of runs and faults.
THEOREM TypeCorrect == Spec => []TypeOK
  <1>. QED
    BY TypeInit, TypeStep, TypeInvImplies, PTL DEF Spec

-----------------------------------------------------------------------------
(* The files.  While all starts have the same --rows, a file is a function *)
(* of its name, whichever start writes it, and the seeds of the warmup's   *)
(* files are beyond those of the iterations'.                              *)

Seed(g) == IF g[1] = "warmup" THEN WarmupSeed + g[2] ELSE g[2]

\* What a file holds, wherever it is.
Written(g, content) ==
  /\ content = make_batch(args.rows, Seed(g))
  /\ g[1] = "part" => g[2] < WarmupSeed

FilesInv ==
  SameRows =>
    /\ \A g \in DOMAIN objects : Written(g, objects[g])
    /\ \A up \in uploads : Written(up.file, up.content)

\* When all starts have had the same --rows after a step, they had before it,
\* and the step leaves the number of rows as it is.
LEMMA SameRowsKept ==
  ASSUME TypeInv, [Next]_vars, SameRows'
  PROVE  SameRows /\ args'.rows = args.rows
  <1>1. CASE UNCHANGED <<run, args, usedArgs, logAtStart>>
    BY <1>1 DEF SameRows
  <1>2. CASE StartAgain
    BY <1>2 DEF StartAgain, SameRows, TypeInv, ArgsOK
  <1>. QED
    BY <1>1, <1>2, ArgsKept

\* Two files have different seeds, the warmup's and the iterations' included.
LEMMA SeedsDiffer ==
  ASSUME NEW g \in Files, NEW h \in Files, g # h,
         g[1] = "part" => g[2] < WarmupSeed, h[1] = "part" => h[2] < WarmupSeed
  PROVE  Seed(g) \in Nat /\ Seed(h) \in Nat /\ Seed(g) # Seed(h)
  <1>1. /\ g[1] \in {"warmup", "part"} /\ g[2] \in Nat /\ h[1] \in {"warmup", "part"} /\ h[2] \in Nat
        /\ g[1] # h[1] \/ g[2] # h[2]
    BY DEF Files
  <1>2. WarmupSeed \in Nat
    BY Sizes
  <1>. QED
    BY <1>1, <1>2 DEF Seed

\* The PUTs of the warmup and of the iterations hold the rows of their file.
LEMMA PutWritten ==
  ASSUME TypeInv
  PROVE  /\ Written(WarmupPut.file, WarmupPut.content) /\ WarmupPut.file = <<"warmup", i>>
         /\ i < args.iterations => Written(PartPut.file, PartPut.content)
         /\ PartPut.file = <<"part", i>>
  <1>1. i < args.iterations => i < WarmupSeed
    BY ArgSizes, Sizes DEF TypeInv, ClientTypeOK
  <1>. QED
    BY <1>1 DEF Written, Seed, WarmupPut, PartPut

\* Every step writes files by their names.
LEMMA FilesStep == TypeInv /\ FilesInv /\ [Next]_vars => FilesInv'
  <1>. SUFFICES ASSUME TypeInv, FilesInv, [Next]_vars, SameRows' PROVE FilesInv'
    BY DEF FilesInv
  <1>r. SameRows /\ args'.rows = args.rows
    BY SameRowsKept
  <1>w. \A g, content : Written(g, content)' <=> Written(g, content)
    BY <1>r DEF Written, Seed, make_batch, WarmupSeed
  <1>1. CASE UNCHANGED objects /\ uploads' \subseteq uploads
    BY <1>1, <1>r, <1>w DEF FilesInv
  <1>2. CASE warmup_put
    <2>1. uploads' = uploads \cup {WarmupPut} /\ objects' = objects
      BY <1>2 DEF warmup_put, StartPut, Upload
    <2>. QED
      BY <2>1, <1>r, <1>w, PutWritten DEF FilesInv
  <1>3. CASE write_put
    <2>1. uploads' = uploads \cup {PartPut} /\ objects' = objects /\ i < args.iterations
      BY <1>3 DEF write_put, StartPut, Upload
    <2>. QED
      BY <2>1, <1>r, <1>w, PutWritten DEF FilesInv
  <1>4. CASE warmup_fails \/ write_fails
    BY <1>1, <1>4 DEF warmup_fails, write_fails, PutFails, UploadFails
  <1>5. CASE StoreNext
    <2>1. PICK up \in uploads : Lands(up)
      BY <1>5 DEF StoreNext
    <2>2. StoreTypeOK(Files)
      BY DEF TypeInv
    <2>3. /\ DOMAIN objects' = DOMAIN objects \cup {up.file} /\ uploads' \subseteq uploads
          /\ \A g \in DOMAIN objects' : objects'[g] = IF g = up.file THEN up.content ELSE objects[g]
      BY <2>1, <2>2, LandsType
    <2>. QED
      BY <2>3, <1>r, <1>w DEF FilesInv
  <1>6. CASE UNCHANGED storeVars
    BY <1>1, <1>6 DEF storeVars
  <1>. QED
    BY <1>2, <1>3, <1>4, <1>5, <1>6 DEF Next, Main, Terminated, vars, create_namespace, create_table,
      load_table_uuid, setupUnchanged, warmup_returns, warmup_done, write_returns, commit_file,
      commit_returns, report, Crash, StartAgain

\* Files written by their names share no row id.
LEMMA NoRowTwiceFollows == TypeInv /\ FilesInv => NoRowTwice
  <1>. SUFFICES ASSUME TypeInv, FilesInv, SameRows,
                       NEW g \in DOMAIN objects, NEW h \in DOMAIN objects, g # h
                PROVE  objects[g] \cap objects[h] = {}
    BY DEF NoRowTwice
  <1>1. g \in Files /\ h \in Files
    BY DEF TypeInv, StoreTypeOK
  <1>2. Written(g, objects[g]) /\ Written(h, objects[h])
    BY DEF FilesInv
  <1>3. Seed(g) \in Nat /\ Seed(h) \in Nat /\ Seed(g) # Seed(h)
    BY <1>1, <1>2, SeedsDiffer DEF Written
  <1>4. args.rows \in Nat
    BY ArgSizes DEF TypeInv
  <1>. QED
    BY <1>2, <1>3, <1>4, BatchesDisjoint DEF Written

\* As long as all starts were given the same --rows, no two files of the bucket
\* hold the same row id, whichever start wrote them.
THEOREM NoRowTwiceHolds == Spec => []NoRowTwice
  <1>1. Init => FilesInv
    BY DEF Init, StoreInit, FilesInv
  <1>. QED
    BY <1>1, TypeInit, TypeStep, FilesStep, NoRowTwiceFollows, PTL DEF Spec

-----------------------------------------------------------------------------
(* The references.                                                         *)

Stored(n) == <<"part", n>> \in DOMAIN objects

\* A commit that is under way or has landed names a stored file, since it is
\* sent after the PUT of its file has returned.
StoredInv ==
  /\ \A c \in OwnLanded \cup UnderWay : Stored(c.n)
  /\ pc = "write_put" => PartPut \in uploads \/ Stored(i)
  /\ pc = "commit" => Stored(i)

\* A step that sends nothing and stays where it is keeps StoredInv.
LEMMA StoredKept ==
  ASSUME StoredInv, DOMAIN objects \subseteq DOMAIN objects',
         OwnLanded' \cup UnderWay' \subseteq OwnLanded \cup UnderWay,
         pc' = "write_put" => (PartPut \in uploads \/ Stored(i))',
         pc' = "commit" => Stored(i)'
  PROVE  StoredInv'
  <1>1. \A n : Stored(n) => Stored(n)'
    BY DEF Stored
  <1>2. \A c \in OwnLanded' \cup UnderWay' : Stored(c.n)'
    BY <1>1 DEF StoredInv
  <1>. QED
    BY <1>2 DEF StoredInv

\* Every step keeps what is known of the files that commits name.
LEMMA StoredStep == TypeInv /\ StoredInv /\ [Next]_vars => StoredInv'
  <1>. SUFFICES ASSUME TypeInv, StoredInv, [Next]_vars PROVE StoredInv'
    OBVIOUS
  <1>t. CatalogTypeOK(Calls, Nat) /\ StoreTypeOK(Files)
    BY DEF TypeInv
  <1>c. ASSUME UNCHANGED <<log, requests, reading>>
        PROVE  OwnLanded' \cup UnderWay' \subseteq OwnLanded \cup UnderWay
    BY <1>c, LandedStays DEF UnderWay
  <1>1. CASE create_namespace \/ create_table \/ load_table_uuid \/ warmup_returns \/ warmup_done
             \/ report \/ Crash \/ StartAgain
    <2>1. pc' \notin {"write_put", "commit"} /\ UNCHANGED <<log, requests, reading, objects>>
      BY <1>1 DEF create_namespace, create_table, load_table_uuid, CreateRequest, setupUnchanged,
        storeVars, catalogVars, warmup_returns, warmup_done, report, Crash, HangUp, StartAgain
    <2>. QED
      BY <2>1, <1>c, StoredKept
  <1>2. CASE warmup_put \/ warmup_fails \/ write_fails
    <2>1. pc' \notin {"write_put", "commit"} /\ UNCHANGED <<log, requests, reading, objects>>
      BY <1>2 DEF warmup_put, StartPut, Upload, warmup_fails, write_fails, PutFails, UploadFails,
        catalogVars
    <2>. QED
      BY <2>1, <1>c, StoredKept
  <1>3. CASE write_put
    <2>1. /\ pc' = "write_put" /\ UNCHANGED <<log, requests, reading, objects, run, args, i>>
          /\ PartPut \in uploads'
      BY <1>3 DEF write_put, StartPut, Upload, catalogVars, argVars
    <2>2. PartPut' = PartPut
      BY <2>1 DEF PartPut, make_batch
    <2>. QED
      BY <2>1, <2>2, <1>c, StoredKept
  <1>4. CASE write_returns
    <2>1. /\ pc' = "commit" /\ UNCHANGED <<log, requests, reading, objects, i>>
          /\ Stored(i)
      BY <1>4 DEF write_returns, PutReturned, storeVars, catalogVars, StoredInv
    <2>2. Stored(i)'
      BY <2>1 DEF Stored
    <2>. QED
      BY <2>1, <2>2, <1>c, StoredKept
  <1>5. CASE commit_file
    <2>1. /\ pc' = "commit_file" /\ objects' = objects
          /\ OwnLanded' = OwnLanded /\ UnderWay' = UnderWay \cup {CommitCall}
      BY <1>5, SendCalls DEF commit_file, storeVars
    <2>2. Stored(CommitCall.n)
      BY <1>5 DEF commit_file, StoredInv, CommitCall
    <2>3. \A n : Stored(n)' <=> Stored(n)
      BY <2>1 DEF Stored
    <2>. QED
      BY <2>1, <2>2, <2>3 DEF StoredInv
  <1>6. CASE commit_returns
    <2>1. pc' \notin {"write_put", "commit"} /\ UNCHANGED <<log, requests, reading, objects>>
      BY <1>6 DEF commit_returns, CommitErr, Receive, storeVars
    <2>. QED
      BY <2>1, <1>c, StoredKept
  <1>7. CASE CatalogNext /\ UNCHANGED <<storeVars, clientVars>>
    <2>1. OwnLanded' \cup UnderWay' \subseteq OwnLanded \cup UnderWay
      BY <1>7, <1>t, CatalogCalls
    <2>2. UNCHANGED <<objects, uploads, pc, i, run, args>>
      BY <1>7 DEF storeVars, clientVars, argVars
    <2>3. PartPut' = PartPut /\ (Stored(i)' <=> Stored(i))
      BY <2>2 DEF PartPut, make_batch, Stored
    <2>. QED
      BY <2>1, <2>2, <2>3, StoredKept DEF StoredInv
  <1>8. CASE StoreNext /\ UNCHANGED <<catalogVars, clientVars>>
    <2>1. PICK up \in uploads : Lands(up)
      BY <1>8 DEF StoreNext
    <2>2. DOMAIN objects' = DOMAIN objects \cup {up.file} /\ uploads' = uploads \ {up}
      BY <2>1, <1>t, LandsType
    <2>3. UNCHANGED <<log, requests, reading, pc, i, run, args>>
      BY <1>8 DEF catalogVars, clientVars, argVars
    <2>4. PartPut' = PartPut /\ (up = PartPut => up.file = <<"part", i>>)
      BY <2>3 DEF PartPut, make_batch
    <2>. QED
      BY <2>2, <2>3, <2>4, <1>c, StoredKept DEF StoredInv, Stored
  <1>9. CASE UNCHANGED vars
    <2>1. UNCHANGED <<log, requests, reading, objects, uploads, pc, i, run, args>>
      BY <1>9 DEF vars, catalogVars, storeVars, clientVars, argVars
    <2>2. PartPut' = PartPut
      BY <2>1 DEF PartPut, make_batch
    <2>. QED
      BY <2>1, <2>2, <1>c, StoredKept DEF StoredInv, Stored
  <1>. QED
    BY <1>1, <1>2, <1>3, <1>4, <1>5, <1>6, <1>7, <1>8, <1>9 DEF Next, Main, Terminated

\* There is no file at the start, and no commit names one.
LEMMA StoredInit == Init => FilesInv /\ StoredInv
  BY DEF Init, CatalogInit, StoreInit, FilesInv, StoredInv, OwnLanded, Landed, UnderWay

\* The catalog never names a file that the bucket does not hold.
THEOREM NoDanglingReferenceHolds == Spec => []NoDanglingReference
  <1>1. StoredInv => NoDanglingReference
    BY DEF StoredInv, NoDanglingReference, OwnLanded, Stored
  <1>. QED
    BY <1>1, TypeInit, TypeStep, StoredInit, StoredStep, PTL DEF Spec

-----------------------------------------------------------------------------
(* The refinement.                                                         *)

\* The files that the landed commits of the benchmark name.
Referenced == {<<"part", c.n>> : c \in Landed \ {RivalCall}}

\* A PUT that lands stores its file, and leaves what the table refers to.
LEMMA LandsStores ==
  ASSUME TypeInv, FilesInv, NEW up \in uploads, Lands(up), UNCHANGED <<log, args, usedArgs>>
  PROVE  Abstract!Next
  <1>1. /\ DOMAIN objects' = DOMAIN objects \cup {up.file}
        /\ \A g \in DOMAIN objects' : objects'[g] = IF g = up.file THEN up.content ELSE objects[g]
    BY LandsType DEF TypeInv
  <1>2. SameRows /\ up.file \in DOMAIN objects => up.content = objects[up.file]
    BY DEF FilesInv, Written
  <1>3. Referenced' = Referenced /\ SameRows' = SameRows
    BY DEF Referenced, Landed, RivalCall, SameRows
  <1>. QED
    BY <1>1, <1>2, <1>3 DEF Abstract!Next, Abstract!Store, Referenced

\* A step of the catalog makes the table refer to stored files.
LEMMA CatalogRefers ==
  ASSUME TypeInv, StoredInv, StoredInv', CatalogNext, UNCHANGED <<objects, args, usedArgs>>
  PROVE  Abstract!Next
  <1>1. OwnLanded \subseteq OwnLanded'
    BY CatalogCalls DEF TypeInv
  <1>2. Referenced = {<<"part", c.n>> : c \in OwnLanded} /\ Referenced' = {<<"part", c.n>> : c \in OwnLanded'}
    BY DEF Referenced, OwnLanded
  <1>3. Referenced \subseteq Referenced'
    BY <1>1, <1>2
  <1>4. Referenced' \subseteq DOMAIN objects
    BY <1>2 DEF StoredInv, Stored
  <1>5. SameRows' = SameRows
    BY DEF SameRows
  <1>. QED
    BY <1>3, <1>4, <1>5 DEF Abstract!Next, Abstract!Refer, Referenced

\* A start with another --rows ends the agreement, and no other start does.
LEMMA StartDisagrees ==
  ASSUME TypeInv, [Next]_vars, StartAgain
  PROVE  [Abstract!Next]_<<objects, Referenced, SameRows>>
  <1>1. objects' = objects /\ Referenced' = Referenced
    BY DEF StartAgain, storeVars, catalogVars, Referenced, Landed, RivalCall
  <1>2. SameRows \in BOOLEAN /\ SameRows' \in BOOLEAN
    BY DEF SameRows
  <1>3. CASE SameRows'
    BY <1>1, <1>2, <1>3, SameRowsKept
  <1>4. CASE ~SameRows'
    BY <1>1, <1>2, <1>4 DEF Abstract!Next, Abstract!Disagree, Referenced
  <1>. QED
    BY <1>3, <1>4

\* Every step is a step of the table of immutable files, or none.
LEMMA RefinementStep ==
  TypeInv /\ FilesInv /\ StoredInv /\ StoredInv' /\ [Next]_vars
    => [Abstract!Next]_<<objects, Referenced, SameRows>>
  <1>. SUFFICES ASSUME TypeInv, FilesInv, StoredInv, StoredInv', [Next]_vars
                PROVE  [Abstract!Next]_<<objects, Referenced, SameRows>>
    OBVIOUS
  <1>1. CASE UNCHANGED <<objects, log, args, usedArgs>>
    BY <1>1 DEF Referenced, Landed, RivalCall, SameRows
  <1>2. CASE CatalogNext /\ UNCHANGED <<storeVars, clientVars>>
    BY <1>2, CatalogRefers DEF storeVars, clientVars, argVars
  <1>3. CASE StoreNext /\ UNCHANGED <<catalogVars, clientVars>>
    BY <1>3, LandsStores DEF StoreNext, catalogVars, clientVars, argVars
  <1>4. CASE warmup_put \/ write_put \/ warmup_fails \/ write_fails
    BY <1>1, <1>4 DEF warmup_put, write_put, StartPut, Upload, warmup_fails, write_fails, PutFails,
      UploadFails, catalogVars, argVars
  <1>5. CASE create_namespace \/ create_table \/ load_table_uuid \/ warmup_returns \/ warmup_done
             \/ write_returns \/ report
    BY <1>1, <1>5 DEF create_namespace, create_table, load_table_uuid, setupUnchanged, warmup_returns,
      warmup_done, write_returns, report, catalogVars, storeVars, argVars
  <1>6. CASE commit_file \/ commit_returns \/ Crash \/ UNCHANGED vars
    BY <1>1, <1>6 DEF commit_file, Send, commit_returns, CommitErr, Receive, Crash, HangUp,
      vars, catalogVars, storeVars, clientVars, argVars
  <1>7. CASE StartAgain
    BY <1>7, StartDisagrees
  <1>. QED
    BY <1>2, <1>3, <1>4, <1>5, <1>6, <1>7 DEF Next, Main, Terminated

\* Whatever is killed, lost or late, files only ever appear and the table refers
\* to none that is missing; and until a start is given another --rows than the
\* ones before it, a file that the table refers to keeps its rows.
THEOREM RefinesFileTableHolds == Spec => RefinesFileTable
  <1>1. Init => Abstract!Init
    BY DEF Init, CatalogInit, StoreInit, Landed, SameRows, Abstract!Init
  <1>2. TypeInv /\ FilesInv /\ StoredInv /\ StoredInv' /\ [Next]_vars
          => [Abstract!Next]_<<objects, {<<"part", c.n>> : c \in Landed \ {RivalCall}}, SameRows>>
    BY RefinementStep DEF Referenced
  <1>. QED
    BY <1>1, <1>2, TypeInit, TypeStep, StoredInit, FilesStep, StoredStep, PTL
    DEF Spec, RefinesFileTable, Abstract!Spec

-----------------------------------------------------------------------------
(* The samples.                                                            *)

\* The program awaits nothing but the commit it is at, and no request has a key.
CallInv ==
  /\ OneAnswer
  /\ Awaited \subseteq {CommitCall} /\ (pc # "commit_file" => Awaited = {})
  /\ \A r \in requests \cup reading : r.key = {}

\* Every step keeps the one call that the program waits for.
LEMMA CallStep == TypeInv /\ CallInv /\ [Next]_vars => CallInv'
  <1>. SUFFICES ASSUME TypeInv, CallInv, [Next]_vars PROVE CallInv'
    OBVIOUS
  <1>1. CASE UNCHANGED <<requests, reading, open, answers>> /\ pc # "commit_file"
    BY <1>1 DEF CallInv, OneAnswer, Awaited
  <1>2. CASE UNCHANGED <<requests, reading, open, answers, pc, run, i>>
    BY <1>2 DEF CallInv, OneAnswer, Awaited, CommitCall
  <1>3. CASE create_namespace \/ create_table \/ load_table_uuid \/ warmup_put \/ warmup_returns
             \/ warmup_fails \/ warmup_done \/ write_put \/ write_returns \/ write_fails \/ report
             \/ StartAgain
    BY <1>1, <1>3 DEF create_namespace, create_table, load_table_uuid, setupUnchanged, warmup_put,
      write_put, StartPut, warmup_returns, warmup_fails, write_fails, PutFails, warmup_done,
      write_returns, report, StartAgain, catalogVars, argVars, Exited, argVars
  <1>4. CASE commit_file
    <2>1. /\ pc = "commit" /\ pc' = "commit_file" /\ UNCHANGED <<run, i>>
          /\ Send(CommitCall, {})
      BY <1>4 DEF commit_file, argVars
    <2>2. open' = open \cup {CommitCall} /\ answers' = answers /\ Awaited' = Awaited \cup {CommitCall}
      BY <2>1, SendAwaits
    <2>3. requests' = requests \cup {[id |-> CommitCall, key |-> {}]} /\ reading' = reading
      BY <2>1 DEF Send
    <2>4. Awaited = {} /\ answers = {}
      BY <2>1 DEF CallInv, Awaited
    <2>5. CommitCall' = CommitCall
      BY <2>1 DEF CommitCall
    <2>. QED
      BY <2>1, <2>2, <2>3, <2>4, <2>5 DEF CallInv, OneAnswer
  <1>5. CASE commit_returns
    <2>1. PICK s : Receive(CommitCall, s)
      BY <1>5 DEF commit_returns, CommitErr
    <2>2. Awaited' = Awaited \ {CommitCall} /\ OneAnswer'
      BY <2>1, ReceiveAwaits DEF CallInv
    <2>3. requests' = requests /\ reading' = reading
      BY <2>1 DEF Receive
    <2>. QED
      BY <2>2, <2>3 DEF CallInv
  <1>6. CASE CatalogNext /\ UNCHANGED <<storeVars, clientVars>>
    <2>1. Awaited' = Awaited /\ OneAnswer' /\ UNCHANGED <<pc, run, i>>
      BY <1>6, CatalogAwaits DEF CallInv, clientVars, argVars
    <2>2. CommitCall' = CommitCall
      BY <2>1 DEF CommitCall
    <2>3. \A r \in requests' \cup reading' : \E q \in requests \cup reading : r.key = q.key
      BY <1>6 DEF CatalogNext, Progress, Trouble, ReadVersion, Replay, Land, Conflict, ServerError,
        Disconnect, RivalCommit
    <2>. QED
      BY <2>1, <2>2, <2>3 DEF CallInv
  <1>7. CASE StoreNext /\ UNCHANGED <<catalogVars, clientVars>>
    BY <1>2, <1>7 DEF catalogVars, clientVars, argVars
  <1>8. CASE Crash
    BY <1>8 DEF Crash, HangUp, CallInv, OneAnswer, Awaited
  <1>9. CASE UNCHANGED vars
    BY <1>2, <1>9 DEF vars, catalogVars, clientVars, argVars
  <1>. QED
    BY <1>3, <1>4, <1>5, <1>6, <1>7, <1>8, <1>9 DEF Next, Main, Terminated

\* The first run on a table that no other client writes to.
Alone == run = 1 /\ RivalCall \notin Landed

Idle == requests = {} /\ reading = {}

\* The commit of iteration i has not landed yet, or it has.
NotLanded ==
  /\ Len(log) = i
  /\ requests = {} \/ reading = {}
  /\ \A r \in requests \cup reading : r.id = CommitCall
  /\ \A r \in reading : r.base = i
  /\ \A a \in answers : a.status = "error"

HasLanded ==
  /\ Len(log) = i + 1
  /\ Idle
  /\ \A a \in answers : a.status # "409"

Ordered == \A m \in DOMAIN log : log[m].n = m - 1

\* Until it fails or is killed, a first run of its own has landed the commits
\* of the iterations before i, in their order, and nothing else is under way.
AloneInv ==
  Alone /\ pc \notin {"killed", "failed"} =>
    /\ Ordered
    /\ pc \in {"create_namespace", "create_table", "load_table_uuid", "warmup", "warmup_put"} =>
         Len(log) = 0 /\ commits = 0 /\ Idle
    /\ pc \in {"write", "write_put", "commit", "done"} => Len(log) = i /\ commits = i /\ Idle
    /\ pc = "commit_file" => commits = i /\ (NotLanded \/ HasLanded)

\* What the catalog does to the commit that a first run awaits.
LEMMA AloneCatalog ==
  ASSUME TypeInv, CallInv, Alone, pc = "commit_file", Ordered, NotLanded \/ HasLanded,
         CatalogNext, UNCHANGED clientVars, RivalCall \notin Landed'
  PROVE  Ordered' /\ (NotLanded' \/ HasLanded')
  <1>1. /\ UNCHANGED <<run, i>> /\ CommitCall' = CommitCall /\ CommitCall.n = i /\ i \in Nat
        /\ CatalogTypeOK(Calls, Nat)
    BY CommitCallType DEF clientVars, argVars, CommitCall, TypeInv, ClientTypeOK
  <1>2. /\ \A r \in requests : r = [id |-> r.id, key |-> r.key]
        /\ \A r \in reading : r = [id |-> r.id, key |-> r.key, base |-> r.base]
        /\ \A r \in requests \cup reading : r.key = {}
        /\ log \in Seq(Calls \cup {RivalCall})
    BY <1>1 DEF CatalogTypeOK, CallInv
  <1>3. /\ NotLanded => \A p, q \in requests : p = q
        /\ NotLanded => \A p, q \in reading : p = q
    <2>. SUFFICES ASSUME NotLanded
                  PROVE  (\A p, q \in requests : p = q) /\ (\A p, q \in reading : p = q)
      OBVIOUS
    <2>1. ASSUME NEW p \in requests, NEW q \in requests PROVE p = q
      <3>1. p.id = q.id /\ p.key = q.key
        BY <1>2 DEF NotLanded
      <3>. QED
        BY <1>2, <3>1
    <2>2. ASSUME NEW p \in reading, NEW q \in reading PROVE p = q
      <3>1. p.id = q.id /\ p.key = q.key /\ p.base = q.base
        BY <1>2 DEF NotLanded
      <3>. QED
        BY <1>2, <3>1
    <2>. QED
      BY <2>1, <2>2
  <1>4. \A r \in requests : ~Known(r)
    BY <1>2 DEF Known
  <1>5. ASSUME NEW r \in requests, ReadVersion(r) PROVE Ordered' /\ NotLanded'
    <2>. DEFINE q == [id |-> r.id, key |-> r.key, base |-> Version]
    <2>1. /\ requests' = requests \ {r} /\ reading' = reading \cup {q}
          /\ UNCHANGED <<log, answers>>
          /\ q.id = r.id /\ q.base = Len(log)
      BY <1>5 DEF ReadVersion, Version
    <2>2. NotLanded /\ requests' = {} /\ reading = {}
      BY <2>1, <1>3 DEF NotLanded, HasLanded, Idle
    <2>. HIDE DEF q
    <2>3. Ordered'
      BY <2>1 DEF Ordered
    <2>. QED
      BY <2>1, <2>2, <2>3, <1>1 DEF NotLanded
  <1>6. ASSUME NEW r \in reading, Land(r) PROVE Ordered' /\ HasLanded'
    <2>1. NotLanded /\ requests = {} /\ r.id = CommitCall
      BY <1>6 DEF NotLanded, HasLanded, Idle
    <2>2. /\ log' = Append(log, CommitCall) /\ reading' = reading \ {r} /\ requests' = requests
          /\ \A a \in answers' : a \in answers \/ a.status = "2xx"
      BY <1>6, <2>1 DEF Land, Respond
    <2>3. reading' = {}
      BY <2>1, <2>2, <1>3
    <2>4. /\ DOMAIN log' = DOMAIN log \cup {Len(log) + 1} /\ \A m \in DOMAIN log : log'[m] = log[m]
          /\ log'[Len(log) + 1] = CommitCall /\ Len(log') = Len(log) + 1
      BY <1>1, <2>2, LandedGrows
    <2>5. Ordered'
      BY <2>4, <2>1, <1>1 DEF Ordered, NotLanded
    <2>. QED
      BY <2>1, <2>2, <2>3, <2>4, <2>5, <1>1 DEF HasLanded, Idle, NotLanded
  <1>7. ASSUME NEW r \in reading, Conflict(r) PROVE FALSE
    BY <1>7 DEF Conflict, Version, NotLanded, HasLanded, Idle
  <1>8. CASE (\E r \in reading : ServerError(r)) \/ \E id \in open : Disconnect(id)
    <2>1. /\ log' = log /\ requests' \subseteq requests /\ reading' \subseteq reading
          /\ \A a \in answers' : a \in answers \/ a.status = "error"
      BY <1>8 DEF ServerError, Respond, Disconnect
    <2>. QED
      BY <2>1, <1>1 DEF Ordered, NotLanded, HasLanded, Idle
  <1>9. CASE RivalCommit
    <2>1. log' = Append(log, RivalCall)
      BY <1>9 DEF RivalCommit
    <2>. QED
      BY <2>1, <1>1, LandedGrows
  <1>. QED
    BY <1>4, <1>5, <1>6, <1>7, <1>8, <1>9 DEF CatalogNext, Progress, Trouble, Replay

\* Every step keeps, on a table of one's own, the order of the log.
LEMMA AloneStep == TypeInv /\ CallInv /\ AloneInv /\ [Next]_vars => AloneInv'
  <1>. SUFFICES ASSUME TypeInv, CallInv, AloneInv, [Next]_vars,
                       Alone', pc' \notin {"killed", "failed"}
                PROVE  AloneInv'
    BY DEF AloneInv
  <1>t. CatalogTypeOK(Calls, Nat) /\ run \in Nat /\ i \in Nat
    BY Sizes DEF TypeInv, ClientTypeOK
  <1>l. ASSUME UNCHANGED <<log, run>> PROVE Alone
    BY <1>l, LandedStays DEF Alone, RivalCall
  <1>o. ASSUME log' = log, Ordered PROVE Ordered'
    BY <1>o DEF Ordered
  <1>1. CASE create_namespace \/ create_table \/ load_table_uuid
    <2>1. /\ pc \in {"create_namespace", "create_table", "load_table_uuid"}
          /\ pc' \in {"create_table", "load_table_uuid", "warmup", "failed"}
          /\ UNCHANGED <<log, requests, reading, run, i, commits>>
      BY <1>1 DEF create_namespace, create_table, load_table_uuid, CreateRequest, setupUnchanged, argVars
    <2>. QED
      BY <2>1, <1>l, <1>o DEF AloneInv, Idle
  <1>2. CASE warmup_put \/ warmup_returns
    <2>1. /\ pc \in {"warmup", "warmup_put"} /\ pc' \in {"warmup", "warmup_put"}
          /\ UNCHANGED <<log, requests, reading, run, commits>>
      BY <1>2 DEF warmup_put, StartPut, warmup_returns, catalogVars, argVars
    <2>. QED
      BY <2>1, <1>l, <1>o DEF AloneInv, Idle
  <1>3. CASE warmup_done
    <2>1. /\ pc = "warmup" /\ pc' = "write" /\ i' = 0
          /\ UNCHANGED <<log, requests, reading, run, commits>>
      BY <1>3 DEF warmup_done, RestartIndex, catalogVars, argVars
    <2>. QED
      BY <2>1, <1>l, <1>o DEF AloneInv, Idle
  <1>4. CASE write_put \/ write_returns \/ report
    <2>1. /\ pc \in {"write", "write_put"} /\ pc' \in {"write_put", "commit", "done"}
          /\ UNCHANGED <<log, requests, reading, run, i, commits>>
      BY <1>4 DEF write_put, StartPut, write_returns, report, catalogVars, argVars
    <2>. QED
      BY <2>1, <1>l, <1>o DEF AloneInv, Idle
  <1>5. CASE commit_file
    <2>. DEFINE q == [id |-> CommitCall, key |-> {}]
    <2>1. /\ pc = "commit" /\ pc' = "commit_file" /\ UNCHANGED <<log, reading, answers, run, i, commits>>
          /\ requests' = requests \cup {q}
      BY <1>5 DEF commit_file, Send, argVars
    <2>2. q.id = CommitCall /\ CommitCall' = CommitCall
      BY <2>1 DEF CommitCall
    <2>3. Alone /\ Ordered /\ Len(log) = i /\ commits = i /\ Idle
      BY <2>1, <1>l DEF AloneInv
    <2>4. answers = {}
      BY <2>1 DEF CallInv, Awaited
    <2>. HIDE DEF q
    <2>5. NotLanded'
      BY <2>1, <2>2, <2>3, <2>4 DEF NotLanded, Idle
    <2>. QED
      BY <2>1, <2>3, <2>5, <1>o DEF AloneInv
  <1>6. CASE commit_returns
    <2>1. /\ pc = "commit_file" /\ pc' = "write" /\ i' = i + 1 /\ commits' = commits + 1
          /\ UNCHANGED <<log, requests, reading, run>>
          /\ \E s \in {"2xx", "409"} : [id |-> CommitCall, status |-> s] \in answers
      BY <1>6 DEF commit_returns, CommitErr, Receive, argVars
    <2>2. Alone /\ Ordered /\ commits = i /\ (NotLanded \/ HasLanded)
      BY <2>1, <1>l DEF AloneInv
    <2>3. HasLanded
      BY <2>1, <2>2 DEF NotLanded
    <2>. QED
      BY <2>1, <2>2, <2>3, <1>o DEF AloneInv, HasLanded, Idle
  <1>7. CASE CatalogNext /\ UNCHANGED <<storeVars, clientVars>>
    <2>1. UNCHANGED <<pc, run, i, commits>> /\ RivalCall' = RivalCall
      BY <1>7 DEF clientVars, argVars, RivalCall
    <2>2. Landed \subseteq Landed'
      BY <1>7, <1>t, CatalogCalls
    <2>3. Alone /\ RivalCall \notin Landed'
      BY <2>1, <2>2 DEF Alone
    <2>4. CASE pc = "commit_file"
      <3>1. Ordered /\ commits = i /\ (NotLanded \/ HasLanded)
        BY <2>3, <2>4 DEF AloneInv
      <3>2. Ordered' /\ (NotLanded' \/ HasLanded')
        BY <1>7, <2>3, <2>4, <3>1, AloneCatalog
      <3>. QED
        BY <2>1, <2>4, <3>1, <3>2 DEF AloneInv
    <2>5. CASE pc # "commit_file"
      <3>1. pc \in {"create_namespace", "create_table", "load_table_uuid", "warmup", "warmup_put",
                    "write", "write_put", "commit", "done"}
        BY <2>1, <2>5 DEF TypeInv, ClientTypeOK, Exited
      <3>2. Idle /\ open = {}
        BY <2>1, <2>3, <2>5, <3>1 DEF AloneInv, CallInv, Awaited
      <3>3. RivalCommit
        BY <1>7, <3>2 DEF CatalogNext, Progress, Trouble, Idle
      <3>4. log' = Append(log, RivalCall)
        BY <3>3 DEF RivalCommit
      <3>5. RivalCall \in Landed'
        BY <3>4, <1>t, LandedGrows
      <3>. QED
        BY <2>3, <3>5
    <2>. QED
      BY <2>4, <2>5
  <1>8. CASE (StoreNext /\ UNCHANGED <<catalogVars, clientVars>>) \/ UNCHANGED vars
    <2>1. UNCHANGED <<log, requests, reading, answers, pc, run, i, commits>>
      BY <1>8 DEF vars, catalogVars, clientVars, argVars
    <2>. QED
      BY <2>1, <1>l, <1>o DEF AloneInv, Idle, NotLanded, HasLanded, CommitCall
  <1>9. CASE Crash \/ warmup_fails \/ write_fails \/ StartAgain
    <2>1. pc' \in {"killed", "failed"} \/ run' = run + 1
      BY <1>9 DEF Crash, warmup_fails, write_fails, PutFails, StartAgain
    <2>2. run \in 1..MaxRuns
      BY DEF TypeInv, ClientTypeOK
    <2>. QED
      BY <2>1, <2>2, Sizes DEF Alone
  <1>. QED
    BY <1>1, <1>2, <1>3, <1>4, <1>5, <1>6, <1>7, <1>8, <1>9 DEF Next, Main, Terminated

\* A commit under way is of an earlier start, or of this one and not of an
\* iteration that is still to come.
SentInv ==
  \A c \in UnderWay :
    \/ c.run < run
    \/ /\ c.run = run
       /\ \/ pc \in Exited
          \/ pc \in {"write", "write_put", "commit"} /\ c.n < i
          \/ pc = "commit_file" /\ c.n <= i

\* Every step but that of the catalog keeps the commits under way in the past.
LEMMA SentStep == TypeInv /\ SentInv /\ [Next]_vars => SentInv'
  <1>. SUFFICES ASSUME TypeInv, SentInv, [Next]_vars PROVE SentInv'
    OBVIOUS
  <1>t. /\ CatalogTypeOK(Calls, Nat) /\ run \in Nat /\ i \in Nat /\ ClientTypeOK
        /\ \A c \in UnderWay : c.run \in Nat /\ c.n \in Nat
    BY Sizes DEF TypeInv, ClientTypeOK, CatalogTypeOK, Calls, UnderWay
  <1>1. CASE create_namespace \/ create_table \/ load_table_uuid \/ warmup_put \/ warmup_returns
             \/ warmup_done
    <2>1. /\ pc \in {"create_namespace", "create_table", "load_table_uuid", "warmup", "warmup_put"}
          /\ UNCHANGED <<requests, reading, run>>
      BY <1>1 DEF create_namespace, create_table, load_table_uuid, setupUnchanged, warmup_put, StartPut,
        warmup_returns, warmup_done, catalogVars, argVars
    <2>2. UnderWay' = UnderWay /\ \A c \in UnderWay : c.run < run
      BY <2>1 DEF UnderWay, SentInv, Exited
    <2>. QED
      BY <2>1, <2>2 DEF SentInv
  <1>2. CASE write_put \/ write_returns \/ report
    <2>1. /\ pc \in {"write", "write_put"} /\ pc' \in {"write_put", "commit", "done"}
          /\ UNCHANGED <<requests, reading, run, i>>
      BY <1>2 DEF write_put, StartPut, write_returns, report, catalogVars, argVars
    <2>. QED
      BY <2>1 DEF SentInv, UnderWay, Exited
  <1>3. CASE warmup_fails \/ write_fails \/ Crash
    <2>1. pc' \in Exited /\ UNCHANGED <<requests, reading, run>>
      BY <1>3 DEF warmup_fails, write_fails, PutFails, Crash, HangUp, catalogVars, argVars, Exited
    <2>. QED
      BY <2>1 DEF SentInv, UnderWay
  <1>4. CASE commit_file
    <2>1. /\ pc = "commit" /\ pc' = "commit_file" /\ UNCHANGED <<run, i>>
          /\ UnderWay' = UnderWay \cup {CommitCall}
      BY <1>4, SendCalls DEF commit_file, argVars
    <2>2. CommitCall.run = run /\ CommitCall.n = i
      BY DEF CommitCall
    <2>. QED
      BY <2>1, <2>2, <1>t DEF SentInv, Exited
  <1>5. CASE commit_returns
    <2>1. /\ pc = "commit_file" /\ UNCHANGED <<requests, reading, run>>
          /\ pc' = "failed" \/ (pc' = "write" /\ i' = i + 1)
      BY <1>5 DEF commit_returns, CommitErr, Receive, argVars
    <2>. QED
      BY <2>1, <1>t DEF SentInv, UnderWay, Exited
  <1>6. CASE CatalogNext /\ UNCHANGED <<storeVars, clientVars>>
    <2>1. UnderWay' \subseteq UnderWay /\ UNCHANGED <<pc, run, i>>
      BY <1>6, <1>t, CatalogCalls DEF clientVars, argVars
    <2>. QED
      BY <2>1 DEF SentInv
  <1>7. CASE (StoreNext /\ UNCHANGED <<catalogVars, clientVars>>) \/ UNCHANGED vars
    <2>1. UNCHANGED <<requests, reading, pc, run, i>>
      BY <1>7 DEF vars, catalogVars, clientVars, argVars
    <2>. QED
      BY <2>1 DEF SentInv, UnderWay
  <1>8. CASE StartAgain
    <2>1. run' = run + 1 /\ UNCHANGED <<requests, reading>>
      BY <1>8 DEF StartAgain, catalogVars
    <2>. QED
      BY <2>1, <1>t DEF SentInv, UnderWay
  <1>. QED
    BY <1>1, <1>2, <1>3, <1>4, <1>5, <1>6, <1>7, <1>8 DEF Next, Main, Terminated

\* The table has moved once for each sample of this start, and once more when
\* an answer to the commit of iteration i has come, whichever answer it is.
SampleInv ==
  /\ logAtStart <= Len(log)
  /\ pc \in {"create_namespace", "create_table", "load_table_uuid", "warmup", "warmup_put"} =>
       commits = 0
  /\ pc \notin {"killed", "failed"} => commits + logAtStart <= Len(log)
  /\ pc = "commit_file" =>
       /\ \A r \in reading : r.id = CommitCall => commits + logAtStart <= r.base /\ r.base <= Len(log)
       /\ \A a \in answers : a.status # "error" => commits + 1 + logAtStart <= Len(log)

\* What the catalog does to the awaited commit: it lands it, or refuses it
\* because the table has moved since the request has read it.
LEMMA SampleCatalog ==
  ASSUME TypeInv, CallInv, SampleInv, CatalogNext, UNCHANGED clientVars
  PROVE  SampleInv'
  <1>t. /\ CatalogTypeOK(Calls, Nat) /\ Len(log) \in Nat /\ commits \in Nat /\ logAtStart \in Nat
        /\ \A r \in reading : r.base \in Nat /\ r.id \in Calls
    BY DEF TypeInv, CatalogTypeOK, ClientTypeOK, ArgsOK
  <1>u. UNCHANGED <<pc, run, i, commits, logAtStart>> /\ CommitCall' = CommitCall
    BY DEF clientVars, argVars, CommitCall
  <1>k. ASSUME Len(log) <= Len(log'), Len(log') \in Nat,
               pc = "commit_file" =>
                 /\ \A r \in reading' : r.id = CommitCall =>
                      commits + logAtStart <= r.base /\ r.base <= Len(log')
                 /\ \A a \in answers' : a.status # "error" => commits + 1 + logAtStart <= Len(log')
        PROVE  SampleInv'
    BY <1>k, <1>t, <1>u DEF SampleInv
  <1>o. ASSUME NEW c, NEW s, Respond(c, s)
        PROVE  \A a \in answers' : a \in answers \/ (a.status = s /\ c = CommitCall)
    BY <1>o DEF Respond, CallInv, Awaited
  <1>1. ASSUME NEW r \in requests, ReadVersion(r) PROVE SampleInv'
    <2>. DEFINE q == [id |-> r.id, key |-> r.key, base |-> Version]
    <2>1. /\ reading' = reading \cup {q} /\ UNCHANGED <<log, answers>>
          /\ q.id = r.id /\ q.base = Len(log)
      BY <1>1 DEF ReadVersion, Version
    <2>. HIDE DEF q
    <2>. QED
      BY <2>1, <1>k, <1>t DEF SampleInv
  <1>2. ASSUME NEW r \in requests, Replay(r) PROVE FALSE
    BY <1>2 DEF Replay, Known, CallInv
  <1>3. ASSUME NEW r \in reading, Land(r) PROVE SampleInv'
    <2>1. /\ log' = Append(log, r.id) /\ reading' \subseteq reading /\ Respond(r.id, "2xx")
      BY <1>3 DEF Land
    <2>2. Len(log') = Len(log) + 1
      BY <2>1, <1>t, LandedGrows
    <2>. QED
      BY <2>1, <2>2, <1>k, <1>t DEF SampleInv, Respond
  <1>4. ASSUME NEW r \in reading, Conflict(r) PROVE SampleInv'
    <2>1. /\ log' = log /\ reading' \subseteq reading /\ Respond(r.id, "409") /\ r.base # Len(log)
      BY <1>4 DEF Conflict, Version
    <2>2. \A a \in answers' : a \in answers \/ r.id = CommitCall
      BY <2>1, <1>o
    <2>3. pc = "commit_file" /\ r.id = CommitCall => commits + 1 + logAtStart <= Len(log)
      BY <2>1, <1>t DEF SampleInv
    <2>. QED
      BY <2>1, <2>2, <2>3, <1>k, <1>t DEF SampleInv
  <1>5. CASE (\E r \in reading : ServerError(r)) \/ \E id \in open : Disconnect(id)
    <2>1. /\ log' = log /\ reading' \subseteq reading
          /\ \A a \in answers' : a \in answers \/ a.status = "error"
      BY <1>5 DEF ServerError, Respond, Disconnect
    <2>. QED
      BY <2>1, <1>k, <1>t DEF SampleInv
  <1>6. CASE RivalCommit
    <2>1. log' = Append(log, RivalCall) /\ UNCHANGED <<reading, answers>>
      BY <1>6 DEF RivalCommit
    <2>2. Len(log') = Len(log) + 1
      BY <2>1, <1>t, LandedGrows
    <2>. QED
      BY <2>1, <2>2, <1>k, <1>t DEF SampleInv
  <1>. QED
    BY <1>1, <1>2, <1>3, <1>4, <1>5, <1>6 DEF CatalogNext, Progress, Trouble

\* Every step keeps the samples within the moves of the table.
LEMMA SampleStep == TypeInv /\ CallInv /\ SentInv /\ SampleInv /\ [Next]_vars => SampleInv'
  <1>. SUFFICES ASSUME TypeInv, CallInv, SentInv, SampleInv, [Next]_vars PROVE SampleInv'
    OBVIOUS
  <1>t. /\ CatalogTypeOK(Calls, Nat) /\ Len(log) \in Nat /\ commits \in Nat /\ logAtStart \in Nat
        /\ run \in Nat /\ i \in Nat
    BY Sizes DEF TypeInv, CatalogTypeOK, ClientTypeOK, ArgsOK
  <1>1. CASE create_namespace \/ create_table \/ load_table_uuid \/ warmup_put \/ warmup_returns
             \/ warmup_done \/ write_put \/ write_returns \/ report
    <2>1. /\ UNCHANGED <<log, commits, logAtStart>> /\ pc \notin {"killed", "failed"}
          /\ pc' # "commit_file"
          /\ pc' \in {"create_namespace", "create_table", "load_table_uuid", "warmup", "warmup_put"} =>
               pc \in {"create_namespace", "create_table", "load_table_uuid", "warmup", "warmup_put"}
      BY <1>1 DEF create_namespace, create_table, load_table_uuid, CreateRequest, setupUnchanged,
        warmup_put, write_put, StartPut, warmup_returns, warmup_done, write_returns, report, catalogVars,
        argVars
    <2>. QED
      BY <2>1 DEF SampleInv
  <1>2. CASE warmup_fails \/ write_fails \/ Crash
    <2>1. pc' \in {"killed", "failed"} /\ UNCHANGED <<log, logAtStart>>
      BY <1>2 DEF warmup_fails, write_fails, PutFails, Crash, HangUp, catalogVars, argVars
    <2>. QED
      BY <2>1 DEF SampleInv
  <1>3. CASE commit_file
    <2>1. /\ pc = "commit" /\ pc' = "commit_file"
          /\ UNCHANGED <<log, reading, answers, run, i, commits, logAtStart>>
      BY <1>3 DEF commit_file, Send, argVars
    <2>2. CommitCall' = CommitCall /\ CommitCall.run = run /\ CommitCall.n = i
      BY <2>1 DEF CommitCall
    <2>3. answers = {}
      BY <2>1 DEF CallInv, Awaited
    <2>5. CommitCall \notin UnderWay
      <3>1. \A c \in UnderWay : c.run < run \/ c.n < i
        BY <2>1 DEF SentInv, Exited
      <3>. QED
        BY <3>1, <2>2, <1>t
    <2>4. \A r \in reading : r.id # CommitCall
      BY <2>5 DEF UnderWay
    <2>. QED
      BY <2>1, <2>2, <2>3, <2>4 DEF SampleInv
  <1>4. CASE commit_returns
    <2>1. /\ pc = "commit_file" /\ UNCHANGED <<log, logAtStart>>
          /\ \/ pc' = "failed"
             \/ /\ pc' = "write" /\ commits' = commits + 1
                /\ \E s \in {"2xx", "409"} : [id |-> CommitCall, status |-> s] \in answers
      BY <1>4 DEF commit_returns, CommitErr, Receive, argVars
    <2>2. CASE pc' = "failed"
      BY <2>1, <2>2 DEF SampleInv
    <2>3. CASE pc' = "write"
      <3>1. /\ commits' = commits + 1
            /\ \E s \in {"2xx", "409"} : [id |-> CommitCall, status |-> s] \in answers
        BY <2>1, <2>3
      <3>2. PICK a \in answers : a.status # "error"
        BY <3>1
      <3>3. commits + 1 + logAtStart <= Len(log)
        BY <2>1, <3>2 DEF SampleInv
      <3>. QED
        BY <2>1, <2>3, <3>1, <3>3, <1>t DEF SampleInv
    <2>. QED
      BY <2>1, <2>2, <2>3
  <1>5. CASE CatalogNext /\ UNCHANGED <<storeVars, clientVars>>
    BY <1>5, SampleCatalog
  <1>6. CASE (StoreNext /\ UNCHANGED <<catalogVars, clientVars>>) \/ UNCHANGED vars
    <2>1. UNCHANGED <<log, reading, answers, pc, run, i, commits, logAtStart>>
      BY <1>6 DEF vars, catalogVars, clientVars, argVars
    <2>. QED
      BY <2>1 DEF SampleInv, CommitCall
  <1>7. CASE StartAgain
    <2>1. logAtStart' = Len(log) /\ log' = log /\ commits' = 0 /\ pc' = "create_namespace"
      BY <1>7 DEF StartAgain, FreshProcess, catalogVars
    <2>. QED
      BY <2>1, <1>t DEF SampleInv
  <1>. QED
    BY <1>1, <1>2, <1>3, <1>4, <1>5, <1>6, <1>7 DEF Next, Main, Terminated

\* The table has moved at least once for each sample of the catalog-commit
\* phase, in every start and whoever else commits; and in the first start on a
\* table of its own the samples are the commits of the log, in their order.
THEOREM SamplesAreTheLogHolds == Spec => []SamplesAreTheLog
  <1>1. Init => CallInv /\ AloneInv /\ SentInv /\ SampleInv
    BY DEF Init, CatalogInit, CallInv, OneAnswer, Awaited, AloneInv, Ordered, Idle, SentInv, UnderWay,
      SampleInv
  <1>2. TypeInv /\ AloneInv /\ SampleInv => SamplesAreTheLog
    <2>. SUFFICES ASSUME TypeInv, AloneInv, SampleInv PROVE SamplesAreTheLog
      OBVIOUS
    <2>1. Len(log) \in Nat /\ commits \in Nat /\ logAtStart \in Nat
      BY DEF TypeInv, CatalogTypeOK, ClientTypeOK, ArgsOK
    <2>2. pc \in {"write", "write_put", "commit", "done"} => commits <= Len(log) - logAtStart
      BY <2>1 DEF SampleInv
    <2>. QED
      BY <2>2 DEF AloneInv, Alone, Ordered, SamplesAreTheLog
  <1>. QED
    BY <1>1, <1>2, TypeInit, TypeStep, CallStep, AloneStep, SentStep, SampleStep, PTL DEF Spec

-----------------------------------------------------------------------------
(* The figures of the report.                                              *)

\* However many PUTs a report is about and whatever their durations were, its
\* p50 and p95 are the nearest-rank percentiles or neighbours of them.
THEOREM ReportedPercentilesHolds == Spec => []ReportedPercentiles
  <1>. DEFINE Nearest(n, s, p) ==
         \E r \in {NearestRank(n, p) - 1, NearestRank(n, p), NearestRank(n, p) + 1} :
            HasRank(s, percentile(s, p), r)
  <1>1. \A n \in Nat \ {0} : \A s \in [1..n -> Nat] : \A p \in 0..100 : Nearest(n, s, p)
    BY PercentileIsNearest
  <1>2. \A n : [1..n -> Durations] \subseteq [1..n -> Nat]
    <2>1. Durations \subseteq Nat
      BY WriteDataAssumption, SMT
    <2>. QED
      BY <2>1
  <1>3. 50 \in 0..100 /\ 95 \in 0..100
    OBVIOUS
  <1>4. TypeOK /\ writes > 0 => writes \in Nat \ {0}
    BY Sizes DEF TypeOK
  <1>5. ReportedPercentiles <=>
          (pc = "done" /\ writes > 0 =>
             \A s \in [1..writes -> Durations], p \in {50, 95} : Nearest(writes, s, p))
    BY DEF ReportedPercentiles
  <1>. HIDE DEF Nearest
  <1>6. TypeOK => ReportedPercentiles
    BY <1>1, <1>2, <1>3, <1>4, <1>5
  <1>. QED
    BY <1>6, TypeCorrect, PTL
=============================================================================
