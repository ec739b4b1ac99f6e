-------------------------- MODULE EngineCompareProofs --------------------------
(***************************************************************************)
(* What holds of cache-scan, rust-vs-jvm and read-write on one prefix for  *)
(* every size of the dataset, any number of iterations and runs, and       *)
(* however many requests to the store fail.                                *)
(***************************************************************************)
EXTENDS EngineCompare, StatsProofs, FiniteSetTheorems, FunctionTheorems, WellFoundedInduction, TLAPS

-----------------------------------------------------------------------------
(* Files and the rows they hold.                                           *)

\* A directory: finitely many files of finitely many rows.
IsDir(m) ==
  /\ m = [g \in DOMAIN m |-> m[g]]
  /\ IsFiniteSet(DOMAIN m)
  /\ \A g \in DOMAIN m : g \in Nat /\ m[g] \in SUBSET Nat /\ IsFiniteSet(m[g])

\* The rows of the files in D, each with its file.
RowsIn(m, D) == UNION {{g} \X m[g] : g \in D}

\* A set of naturals that is not empty has a least element.
LEMMA Least ==
  ASSUME NEW S \in SUBSET Nat, S # {}
  PROVE  \E m \in S : \A n \in S : m <= n
  <1>. DEFINE R == {p \in Nat \X Nat : p[1] < p[2]}
  <1>1. IsWellFoundedOn(R, Nat)
    BY NatLessThanWellFounded DEF OpToRel
  <1>. HIDE DEF R
  <1>2. PICK m \in S : \A n \in S : ~(<<n, m>> \in R)
    BY <1>1, WFMin
  <1>3. \A n \in S : ~(n < m)
    BY <1>2 DEF R
  <1>. QED
    BY <1>3

\* The files are scanned one by one.
LEMMA FirstType == todo \in SUBSET Nat /\ todo # {} => First \in todo
  BY Least DEF First

\* Finitely many files of finitely many rows have finitely many rows.
LEMMA RowsInFinite ==
  ASSUME NEW m, NEW D, IsFiniteSet(D), \A g \in D : IsFiniteSet(m[g])
  PROVE  IsFiniteSet(RowsIn(m, D)) /\ Cardinality(RowsIn(m, D)) \in Nat
  <1>. DEFINE T == {{g} \X m[g] : g \in D}
              h == [g \in D |-> {g} \X m[g]]
  <1>1. h \in Surjection(D, T)
    BY DEF Surjection
  <1>2. IsFiniteSet(T)
    BY <1>1, FS_Surjection
  <1>3. \A s \in T : IsFiniteSet(s)
    <2>1. ASSUME NEW g \in D PROVE IsFiniteSet({g} \X m[g])
      BY FS_Singleton, FS_Product
    <2>. QED
      BY <2>1
  <1>4. IsFiniteSet(UNION T)
    BY <1>2, <1>3, FS_UNION
  <1>. QED
    BY <1>4, FS_CardinalityType DEF RowsIn

\* A query over a directory counts a natural number of rows.
LEMMA RowsOfType == \A m : IsDir(m) => RowsOf(m) \in Nat /\ RowsOf(m) = Cardinality(RowsIn(m, DOMAIN m))
  BY RowsInFinite DEF IsDir, RowsOf, RowsIn

\* One more file adds its rows.
LEMMA RowsInGrows ==
  ASSUME NEW m, NEW D, NEW g, g \notin D, IsFiniteSet(D), IsFiniteSet(m[g]),
         \A x \in D : IsFiniteSet(m[x])
  PROVE  Cardinality(RowsIn(m, D \cup {g})) = Cardinality(RowsIn(m, D)) + Cardinality(m[g])
  <1>. DEFINE A == RowsIn(m, D)
              B == {g} \X m[g]
  <1>1. IsFiniteSet(A) /\ Cardinality(A) \in Nat
    BY RowsInFinite
  <1>2. IsFiniteSet(B) /\ Cardinality(B) = Cardinality(m[g])
    <2>1. IsFiniteSet({g}) /\ Cardinality({g}) = 1 /\ Cardinality(m[g]) \in Nat
      BY FS_Singleton, FS_CardinalityType
    <2>2. IsFiniteSet(B) /\ Cardinality(B) = Cardinality({g}) * Cardinality(m[g])
      BY <2>1, FS_Product
    <2>. QED
      BY <2>1, <2>2
  <1>3. RowsIn(m, D \cup {g}) = A \cup B
    BY DEF RowsIn
  <1>4. A \cap B = {}
    <2>1. \A q \in A : q[1] \in D
      BY DEF RowsIn
    <2>2. \A q \in B : q[1] = g
      OBVIOUS
    <2>. QED
      BY <2>1, <2>2
  <1>5. Cardinality(B) \in Nat
    BY <1>2, FS_CardinalityType
  <1>. HIDE DEF A, B
  <1>6. Cardinality(A \cup B) = Cardinality(A) + Cardinality(B) - Cardinality(A \cap B)
    BY <1>1, <1>2, FS_Union
  <1>7. Cardinality(A \cap B) = 0
    BY <1>4, FS_EmptySet
  <1>8. Cardinality(A \cup B) = Cardinality(A) + Cardinality(m[g])
    BY <1>1, <1>2, <1>5, <1>6, <1>7
  <1>. QED
    BY <1>3, <1>8 DEF A

\* The types of the constants.
LEMMA Sizes ==
  /\ NoCacheIters \in Nat /\ WarmIters \in Nat /\ MaxRuns \in Nat \ {0} /\ JvmIters \in Nat
  /\ \A a \in ArgChoices : a.files \in Nat /\ a.rows \in Nat /\ a.rewrite \in BOOLEAN
  BY CacheScanAssumption, CompareAssumption

\* The rows of one file of the dataset are finitely many.
LEMMA RowsType ==
  ASSUME args \in ArgChoices, NEW g \in Nat
  PROVE  Rows(g) \in SUBSET Nat /\ IsFiniteSet(Rows(g))
  <1>1. g * args.rows \in Nat /\ (g + 1) * args.rows - 1 \in Int
    BY Sizes
  <1>2. IsFiniteSet((g * args.rows)..((g + 1) * args.rows - 1))
    BY <1>1, FS_Interval
  <1>. QED
    BY <1>1, <1>2 DEF Rows

\* F files of R rows each are F * R rows.
LEMMA EvenRows ==
  ASSUME NEW F \in Nat, NEW R \in Nat, NEW m,
         \A g \in 0..(F - 1) : m[g] = (g * R)..((g + 1) * R - 1)
  PROVE  Cardinality(RowsIn(m, 0..(F - 1))) = F * R
  <1>. DEFINE I == 0..(F - 1)
              J == 0..(R - 1)
              S == RowsIn(m, I)
              h == [q \in I \X J |-> <<q[1], q[1] * R + q[2]>>]
  <1>1. ASSUME NEW n \in Nat PROVE IsFiniteSet(0..(n - 1)) /\ Cardinality(0..(n - 1)) = n
    <2>1. 0 \in Int /\ n - 1 \in Int /\ (0 > n - 1 <=> n = 0)
      OBVIOUS
    <2>2. /\ IsFiniteSet(0..(n - 1))
          /\ Cardinality(0..(n - 1)) = IF 0 > n - 1 THEN 0 ELSE (n - 1) - 0 + 1
      BY <2>1, FS_Interval
    <2>. QED
      BY <2>1, <2>2
  <1>2. IsFiniteSet(I \X J) /\ Cardinality(I \X J) = F * R
    <2>1. IsFiniteSet(I) /\ Cardinality(I) = F /\ IsFiniteSet(J) /\ Cardinality(J) = R
      BY <1>1
    <2>. HIDE DEF I, J
    <2>. QED
      BY <2>1, FS_Product
  <1>3. \A g \in I : g \in Nat /\ g * R \in Nat /\ (g + 1) * R = g * R + R
    OBVIOUS
  <1>4. \A g \in I : m[g] = (g * R)..(g * R + R - 1)
    BY <1>3
  <1>5. \A g \in I : \A x : x \in J => g * R + x \in m[g]
    BY <1>3, <1>4
  <1>6. \A g \in I : \A x \in m[g] : x - g * R \in J /\ g * R + (x - g * R) = x
    BY <1>3, <1>4
  <1>7. \A g \in I : \A x, y \in J : g * R + x = g * R + y => x = y
    BY <1>3
  <1>8. \A g \in I : \A x \in J : <<g, x>> \in I \X J /\ h[<<g, x>>] = <<g, g * R + x>>
    OBVIOUS
  <1>9. \A q \in I \X J : q = <<q[1], q[2]>> /\ q[1] \in I /\ q[2] \in J
    OBVIOUS
  <1>10. \A g \in I : \A x \in m[g] : <<g, x>> \in S
    BY DEF RowsIn
  <1>11. \A s \in S : \E g \in I : \E x \in m[g] : s = <<g, x>>
    BY DEF RowsIn
  <1>12. DOMAIN h = I \X J /\ h \in [I \X J -> {h[q] : q \in I \X J}]
    OBVIOUS
  <1>. HIDE DEF I, J, S, h
  <1>13. h \in [I \X J -> S]
    <2>1. \A q \in I \X J : h[q] \in S
      <3>. SUFFICES ASSUME NEW q \in I \X J PROVE h[q] \in S
        OBVIOUS
      <3>1. q[1] \in I /\ q[2] \in J /\ h[q] = <<q[1], q[1] * R + q[2]>>
        BY <1>8, <1>9
      <3>2. q[1] * R + q[2] \in m[q[1]]
        BY <1>5, <3>1
      <3>. QED
        BY <1>10, <3>1, <3>2
    <2>. QED
      BY <1>12, <2>1
  <1>14. \A s \in S : \E q \in I \X J : h[q] = s
    <2>. SUFFICES ASSUME NEW s \in S PROVE \E q \in I \X J : h[q] = s
      OBVIOUS
    <2>1. PICK g \in I : \E x \in m[g] : s = <<g, x>>
      BY <1>11
    <2>2. PICK x \in m[g] : s = <<g, x>>
      BY <2>1
    <2>3. <<g, x - g * R>> \in I \X J /\ h[<<g, x - g * R>>] = <<g, g * R + (x - g * R)>>
      BY <1>6, <1>8
    <2>4. h[<<g, x - g * R>>] = s
      BY <1>6, <2>2, <2>3
    <2>. QED
      BY <2>3, <2>4
  <1>15. \A q, r \in I \X J : h[q] = h[r] => q = r
    <2>. SUFFICES ASSUME NEW q \in I \X J, NEW r \in I \X J, h[q] = h[r] PROVE q = r
      OBVIOUS
    <2>1. h[q] = <<q[1], q[1] * R + q[2]>> /\ h[r] = <<r[1], r[1] * R + r[2]>>
      BY <1>8, <1>9
    <2>2. q[1] = r[1] /\ q[1] * R + q[2] = r[1] * R + r[2]
      <3>1. \A a, b, c, d : <<a, b>> = <<c, d>> => a = c /\ b = d
        OBVIOUS
      <3>2. <<q[1], q[1] * R + q[2]>> = <<r[1], r[1] * R + r[2]>>
        BY <2>1, Zenon
      <3>. QED
        BY <3>1, <3>2, Zenon
    <2>3. q[1] = r[1] /\ q[2] = r[2]
      BY <2>2, <1>7, <1>9
    <2>. QED
      BY <2>3, <1>9
  <1>16. h \in Bijection(I \X J, S)
    BY <1>13, <1>14, <1>15, Fun_IsBij
  <1>17. Cardinality(S) = F * R
    BY <1>2, <1>16, FS_Bijection DEF ExistsBijection
  <1>. QED
    BY <1>17 DEF S, I

\* The whole dataset is files * rows rows.
LEMMA WholeDataset ==
  ASSUME args \in ArgChoices, NEW m, \A g \in 0..(args.files - 1) : m[g] = Rows(g)
  PROVE  Cardinality(RowsIn(m, 0..(args.files - 1))) = args.files * args.rows
  <1>1. \A g \in 0..(args.files - 1) : m[g] = (g * args.rows)..((g + 1) * args.rows - 1)
    BY DEF Rows
  <1>. QED
    BY <1>1, EvenRows, Sizes

\* PUTs, scans and listings make directories of directories.
LEMMA DirPut ==
  ASSUME NEW m, IsDir(m), NEW g \in Nat, NEW c \in SUBSET Nat, IsFiniteSet(c)
  PROVE  IsDir(Overwrite(m, g, c))
  <1>1. IsFiniteSet(DOMAIN m \cup {g})
    BY FS_AddElement DEF IsDir
  <1>. DEFINE o == Overwrite(m, g, c)
  <1>2. /\ o = [h \in DOMAIN o |-> o[h]] /\ DOMAIN o = DOMAIN m \cup {g}
        /\ \A h \in DOMAIN o : o[h] = IF h = g THEN c ELSE m[h]
    BY DEF Overwrite
  <1>. HIDE DEF o
  <1>3. IsDir(o)
    BY <1>1, <1>2 DEF IsDir
  <1>. QED
    BY <1>3 DEF o

\* What a cache holds after it was filled, and what is read through it, are
\* directories again.
LEMMA DirCached ==
  ASSUME NEW c, IsDir(c), IsDir(objects), NEW S \in SUBSET DOMAIN objects
  PROVE  IsDir(Filled(c, S)) /\ IsDir(Through(c, S))
  <1>1. IsFiniteSet(S) /\ IsFiniteSet(DOMAIN c \cup S)
    BY FS_Subset, FS_Union DEF IsDir
  <1>. DEFINE a == Filled(c, S)
              b == Through(c, S)
  <1>2. /\ a = [g \in DOMAIN a |-> a[g]] /\ DOMAIN a = DOMAIN c \cup S
        /\ \A g \in DOMAIN a : a[g] = IF g \in DOMAIN c THEN c[g] ELSE objects[g]
    BY DEF Filled
  <1>3. /\ b = [g \in DOMAIN b |-> b[g]] /\ DOMAIN b = S
        /\ \A g \in DOMAIN b : b[g] = IF g \in DOMAIN c THEN c[g] ELSE objects[g]
    BY DEF Through
  <1>. HIDE DEF a, b
  <1>4. IsDir(a) /\ IsDir(b)
    BY <1>1, <1>2, <1>3 DEF IsDir
  <1>. QED
    BY <1>4 DEF a, b

\* The empty prefix is a directory.
LEMMA DirEmpty == IsDir(NoFiles) /\ DOMAIN NoFiles = {}
  BY FS_EmptySet DEF IsDir, NoFiles

-----------------------------------------------------------------------------
(* What the groups of actions leave alone.                                 *)

Others == UNCHANGED <<program, compareVars, usedArgs, complete>>

EnsureStep == ensure_bucket \/ ensure_dataset \/ list_files \/ list_fails \/ start_scans
WriteStep == put \/ put_returns \/ put_fails
ScanStep(p) == scan_file(p) \/ scan_fails(p) \/ pass_ends(p)
EndStep == cache_scan_reports \/ read_write_stops \/ read_write_reports
QueryStep(p) == run_query(p) \/ query_fails(p) \/ phase_ends(p)
SparkStep == read_parquet \/ spark_query \/ spark_result \/ jvm_gated
Landing == StoreNext /\ UNCHANGED <<datasetVars, scanVars, pc, program, compareVars, usedArgs, complete>>

Early == {"ensure_bucket", "probe_again", "ensure_dataset"}
Scanning == {"listed", "scanned"} \cup Phases

\* Each step belongs to one of the groups below, with the program that makes it.
LEMMA Steps ==
  ASSUME [Next]_vars
  PROVE  \/ program = "cache-scan" /\ EnsureStep /\ Others
         \/ program \in {"cache-scan", "read-write"} /\ WriteStep /\ Others
         \/ \E p \in Phases : program = "cache-scan" /\ ScanStep(p) /\ Others
         \/ EndStep
         \/ \E p \in RustPhases : QueryStep(p)
         \/ SparkStep
         \/ Landing
         \/ Crash
         \/ StartAgain
         \/ UNCHANGED vars
  BY DEF Next, CacheScanRun, CompareRun, WritePhase, Terminated, Others, EnsureStep, WriteStep, ScanStep,
    EndStep, QueryStep, SparkStep, Landing

\* What ensuring and listing the dataset change, and where they lead.
LEMMA EnsureFrame ==
  ASSUME EnsureStep
  PROVE  /\ UNCHANGED <<objects, uploads, run, args, f, it, total, cache>>
         /\ outages' \in {outages, outages + 1}
         /\ \/ pc \in Early /\ pc' \in Early \cup {"put"} /\ UNCHANGED <<listed, todo>>
            \/ /\ pc \in {"probe_again", "ensure_dataset", "put"} /\ pc' = "failed"
               /\ outages' = outages + 1 /\ UNCHANGED <<listed, todo>>
            \/ pc = "ensure_dataset" /\ Reused /\ pc' = "listed" /\ listed' = objects /\ todo' = todo
            \/ pc = "put" /\ f = args.files /\ pc' = "listed" /\ listed' = objects /\ todo' = todo
            \/ /\ pc = "listed" /\ listed' = listed /\ todo' = DOMAIN listed
               /\ pc' = IF DOMAIN listed = {} THEN "failed" ELSE "no-cache"
  BY DEF EnsureStep, ensure_bucket, ensure_dataset, list_files, list_fails, start_scans, AllFiles, ReadFails,
    Early, storeVars, datasetVars, scanVars

\* What the write loop changes, and where it leads.
LEMMA WriteFrame ==
  ASSUME WriteStep
  PROVE  /\ UNCHANGED <<objects, run, args, listed, todo, it, total, cache>>
         /\ outages' \in {outages, outages + 1}
         /\ \/ /\ pc = "put" /\ f < args.files /\ pc' = "putting" /\ f' = f
               /\ uploads' = uploads \cup {PutOf(f)}
            \/ /\ pc = "putting" /\ PutOf(f) \notin uploads /\ pc' = "put" /\ f' = f + 1
               /\ uploads' = uploads
            \/ /\ pc = "putting" /\ pc' = "failed" /\ f' = f /\ uploads' \subseteq uploads
               /\ outages' = outages + 1
  BY DEF WriteStep, put, put_returns, put_fails, Upload, UploadFails, storeVars, datasetVars, scanVars

\* The content that a scan of the first file finds.
LEMMA ScanFrame ==
  ASSUME NEW p \in Phases, ScanStep(p)
  PROVE  /\ UNCHANGED <<objects, uploads, run, args, f, listed>> /\ pc = p
         /\ outages' \in {outages, outages + 1}
         /\ cache' = cache \/ (todo # {} /\ cache' = Filled(cache, {First}))
         /\ \/ /\ todo # {} /\ pc' = p /\ it' = it /\ todo' = todo \ {First}
               /\ total' = [total EXCEPT ![p] = @ + Cardinality(listed[First])]
            \/ /\ todo # {} /\ pc' = "failed" /\ UNCHANGED <<todo, it, total>>
               /\ ThroughStore(p, First) # listed[First] \/ outages' = outages + 1
            \/ /\ todo = {} /\ todo' = DOMAIN listed /\ total' = total /\ outages' = outages
               /\ \/ it + 1 < Iters(p) /\ it' = it + 1 /\ pc' = p
                  \/ it + 1 = Iters(p) /\ it' = 0 /\ pc' = NextPhase(p)
  BY DEF ScanStep, scan_file, scan_fails, pass_ends, Decodes, AllFiles, ReadFails, storeVars, datasetVars,
    scanVars

\* What the steps that end a program change, and where they lead.
LEMMA EndFrame ==
  ASSUME EndStep
  PROVE  /\ UNCHANGED <<objects, uploads, run, args, f, listed, todo, it, total, cache, program,
                        queries, scanned, timed, status, usedArgs>>
         /\ outages' \in {outages, outages + 1}
         /\ \/ pc = "scanned" /\ pc' = "done" /\ complete' = TRUE
            \/ /\ program = "read-write" /\ pc = "put" /\ f = args.files /\ pc' = "done"
               /\ complete' = TRUE
            \/ /\ program = "read-write" /\ pc = "put" /\ pc' = "failed" /\ complete' = complete
               /\ outages' = outages + 1 \/ (f = args.files /\ (Unsettled \/ ~Matched))
  BY DEF EndStep, cache_scan_reports, read_write_stops, read_write_reports, ReadFails, storeVars,
    datasetVars, scanVars, compareVars

\* What a query of a Rust phase changes, and where it leads.
LEMMA QueryFrame ==
  ASSUME NEW p \in RustPhases, QueryStep(p)
  PROVE  /\ UNCHANGED <<objects, uploads, run, args, f, listed, todo, it, total, program, timed, status,
                        usedArgs, complete>>
         /\ outages' \in {outages, outages + 1} /\ pc = p
         /\ cache' \in {cache, Filled(cache, DOMAIN objects)}
         /\ \/ /\ queries < Queries(p) /\ pc' = p /\ queries' = queries + 1
               /\ ~Unstable(p, RowsOf(Queried(p)))
               /\ scanned' = [scanned EXCEPT ![p] = RowsOf(Queried(p))]
            \/ /\ pc' = "failed" /\ UNCHANGED <<queries, scanned>> /\ queries < Queries(p)
               /\ \/ outages' = outages + 1
                  \/ Unstable(p, RowsOf(Queried(p)))
                  \/ Outdated(cache)
            \/ /\ queries = Queries(p) /\ queries' = 0 /\ pc' = AfterPhase(p)
               /\ UNCHANGED <<scanned, cache>> /\ outages' = outages
  BY DEF QueryStep, run_query, query_fails, phase_ends, compareUnchanged, ReadFails, storeVars, compareVars

\* What a step of the Spark side changes, and where it leads.
LEMMA SparkFrame ==
  ASSUME SparkStep
  PROVE  /\ UNCHANGED <<storeVars, run, args, f, todo, it, total, program, usedArgs, complete, cache>>
         /\ \/ /\ pc = "jvm" /\ listed' = objects /\ pc' = "spark" /\ UNCHANGED compareVars
            \/ /\ pc = "spark" /\ pc' = "spark" /\ queries < SparkQueries /\ queries' = queries + 1
               /\ run_once(RowsOf([g \in DOMAIN listed |-> objects[g]]))
               /\ UNCHANGED <<listed, status>>
            \/ /\ pc = "spark" /\ queries = SparkQueries /\ pc' = "done" /\ status' = "ready"
               /\ UNCHANGED <<listed, queries, scanned, timed>>
            \/ /\ pc \in {"jvm", "spark"} /\ pc' = "done" /\ status' = "scaffold"
               /\ UNCHANGED <<listed, queries, scanned, timed>>
  BY DEF SparkStep, read_parquet, spark_query, spark_result, jvm_gated, compareUnchanged

\* A PUT that lands changes the bucket only.
LEMMA LandingFrame ==
  ASSUME Landing
  PROVE  /\ UNCHANGED <<run, args, f, listed, todo, it, total, cache, pc, program, queries, scanned,
                        timed, status, usedArgs, complete, outages>>
         /\ \E up \in uploads : /\ objects' = Overwrite(objects, up.file, up.content)
                                /\ uploads' = uploads \ {up}
  BY DEF Landing, StoreNext, Lands, datasetVars, scanVars, compareVars

\* A crash leaves the bucket and the PUTs under way as they are.
LEMMA CrashFrame ==
  ASSUME Crash
  PROVE  /\ UNCHANGED <<objects, uploads, outages, run, args, program, usedArgs, complete>>
         /\ pc' = "killed" /\ FreshProcess
  BY DEF Crash, storeVars

\* A new start finds the bucket and the PUTs under way of the starts before it.
LEMMA StartFrame ==
  ASSUME StartAgain
  PROVE  /\ UNCHANGED <<objects, uploads, outages, complete>>
         /\ run < MaxRuns /\ run' = run + 1 /\ program' \in Programs /\ pc' = FirstStep(program')
         /\ \/ /\ program' # "rust-vs-jvm" /\ args' \in ArgChoices /\ usedArgs' = usedArgs \cup {args'}
            \/ program' = "rust-vs-jvm" /\ UNCHANGED <<args, usedArgs>>
         /\ FreshProcess
  BY DEF StartAgain, Writes, ArgsOf, storeVars

-----------------------------------------------------------------------------
(* Types.                                                                  *)

ClientTypeOK ==
  /\ run \in 1..MaxRuns
  /\ args \in ArgChoices
  /\ program \in Programs
  /\ pc \in Early \cup {"put", "putting", "jvm", "spark"} \cup Scanning \cup RustPhases \cup Exited
  /\ f \in Nat /\ it \in Nat /\ queries \in Nat
  /\ total \in [Phases -> Nat]
  /\ scanned \in [RustPhases \cup {"jvm"} -> Nat]
  /\ timed \in SUBSET Nat
  /\ status \in {"none", "scaffold", "ready"}
  /\ usedArgs \in SUBSET ArgChoices
  /\ complete \in BOOLEAN

\* The loops: f counts the files, it the passes of a phase and queries the
\* queries of one; todo is the rest of the listing.
IndexInv ==
  /\ f <= args.files
  /\ pc = "putting" => f < args.files
  /\ \A p \in Phases : pc = p => it < Iters(p)
  /\ it <= NoCacheIters + WarmIters
  /\ pc \notin Phases \cup {"failed"} => it = 0
  /\ \A p \in RustPhases : pc = p => queries <= Queries(p)
  /\ pc = "spark" => queries <= SparkQueries
  /\ pc = "jvm" => queries = 0
  /\ queries <= NoCacheIters + WarmIters + JvmIters + 2
  /\ todo \subseteq DOMAIN listed
  /\ pc \in Early \cup {"put", "putting", "listed"} => total = NoTotals

\* Files are added and replaced, and never removed.
DirInv ==
  /\ IsDir(objects) /\ IsDir(listed) /\ IsDir(cache)
  /\ uploads \in SUBSET [run : Nat, file : Nat, content : SUBSET Nat]
  /\ \A up \in uploads : IsFiniteSet(up.content)
  /\ DOMAIN listed \subseteq DOMAIN objects
  /\ outages \in Nat

TypeInv == ClientTypeOK /\ IndexInv /\ DirInv

\* The numbers of passes and queries are positive, and bounded by the constants.
LEMMA ItersType ==
  /\ \A p \in Phases : Iters(p) \in Nat \ {0} /\ Iters(p) <= NoCacheIters + WarmIters + 1
  /\ \A p \in RustPhases : Queries(p) \in Nat \ {0} /\ Queries(p) <= NoCacheIters + WarmIters + 1
  /\ SparkQueries \in Nat \ {0} /\ SparkQueries <= JvmIters + 2
  <1>1. \A n \in Nat : Max1(n) \in Nat \ {0} /\ Max1(n) <= n + 1
    BY DEF Max1
  <1>2. \A p \in Phases : Iters(p) \in {Max1(NoCacheIters), 1, Max1(WarmIters)}
    BY DEF Phases, Iters
  <1>3. \A p \in RustPhases : Queries(p) \in {Max1(NoCacheIters), 1, Max1(WarmIters)}
    BY DEF RustPhases, Queries
  <1>4. \A n \in {Max1(NoCacheIters), 1, Max1(WarmIters)} :
          n \in Nat \ {0} /\ n <= NoCacheIters + WarmIters + 1
    BY <1>1, Sizes
  <1>5. SparkQueries \in Nat \ {0} /\ SparkQueries <= JvmIters + 2
    BY <1>1, Sizes DEF SparkQueries
  <1>. QED
    BY <1>2, <1>3, <1>4, <1>5

\* The strengthened type invariant implies the one that the run checks.
LEMMA TypeInvImplies == TypeInv => TypeOK
  <1>. SUFFICES ASSUME TypeInv PROVE TypeOK
    OBVIOUS
  <1>1. args.files \in Nat
    BY Sizes DEF TypeInv, ClientTypeOK
  <1>2. /\ f \in 0..args.files /\ it \in 0..(NoCacheIters + WarmIters)
        /\ queries \in 0..(NoCacheIters + WarmIters + JvmIters + 2)
    BY <1>1, Sizes DEF TypeInv, ClientTypeOK, IndexInv
  <1>3. StoreTypeOK(Nat)
    BY DEF TypeInv, DirInv, IsDir, StoreTypeOK
  <1>4. pc \in {"ensure_bucket", "probe_again", "ensure_dataset", "put", "putting", "listed",
             "scanned", "jvm", "spark"} \cup Phases \cup RustPhases \cup Exited
    BY DEF TypeInv, ClientTypeOK, Early, Scanning
  <1>. QED
    BY <1>2, <1>3, <1>4 DEF TypeInv, ClientTypeOK, IndexInv, TypeOK

\* The files of the listing that a pass has still to scan.
LEMMA FirstListed ==
  ASSUME TypeInv, todo # {}
  PROVE  /\ First \in todo /\ First \in DOMAIN listed /\ First \in DOMAIN objects
         /\ IsFiniteSet(listed[First]) /\ Cardinality(listed[First]) \in Nat
  <1>1. todo \in SUBSET Nat /\ todo \subseteq DOMAIN listed /\ DOMAIN listed \subseteq DOMAIN objects
    BY DEF TypeInv, IndexInv, DirInv, IsDir
  <1>2. First \in todo
    BY <1>1, FirstType
  <1>3. IsFiniteSet(listed[First])
    BY <1>1, <1>2 DEF TypeInv, DirInv, IsDir
  <1>. QED
    BY <1>1, <1>2, <1>3, FS_CardinalityType

\* The PUT of the file that is next has its type.
LEMMA PutType ==
  ASSUME TypeInv
  PROVE  /\ PutOf(f) \in [run : Nat, file : Nat, content : SUBSET Nat]
         /\ IsFiniteSet(PutOf(f).content) /\ PutOf(f).file = f /\ PutOf(f).content = Rows(f)
  <1>1. f \in Nat /\ run \in Nat /\ args \in ArgChoices
    BY DEF TypeInv, ClientTypeOK
  <1>2. Rows(f) \in SUBSET Nat /\ IsFiniteSet(Rows(f))
    BY <1>1, RowsType
  <1>. QED
    BY <1>1, <1>2 DEF PutOf

\* A PUT that lands replaces its file and no other.
LEMMA LandingType ==
  ASSUME TypeInv, NEW up \in uploads, objects' = Overwrite(objects, up.file, up.content)
  PROVE  /\ IsDir(objects') /\ DOMAIN objects' = DOMAIN objects \cup {up.file}
         /\ \A g \in DOMAIN objects' : objects'[g] = IF g = up.file THEN up.content ELSE objects[g]
  <1>1. up.file \in Nat /\ up.content \in SUBSET Nat /\ IsFiniteSet(up.content)
    BY DEF TypeInv, DirInv
  <1>2. IsDir(objects')
    BY <1>1, DirPut DEF TypeInv, DirInv
  <1>. QED
    BY <1>2 DEF Overwrite

\* What the steps put into the cache, and count through it, has its type.
LEMMA CacheType ==
  ASSUME TypeInv
  PROVE  /\ IsDir(Filled(cache, DOMAIN objects)) /\ IsDir(Through(cache, DOMAIN objects))
         /\ todo # {} => IsDir(Filled(cache, {First}))
         /\ \A p \in RustPhases : RowsOf(Queried(p)) \in Nat
  <1>1. IsDir(cache) /\ IsDir(objects)
    BY DEF TypeInv, DirInv
  <1>2. IsDir(Filled(cache, DOMAIN objects)) /\ IsDir(Through(cache, DOMAIN objects))
    BY <1>1, DirCached
  <1>3. todo # {} => IsDir(Filled(cache, {First}))
    BY <1>1, FirstListed, DirCached
  <1>4. \A p \in RustPhases : RowsOf(Queried(p)) \in Nat
    BY <1>1, <1>2, RowsOfType DEF Queried
  <1>. QED
    BY <1>2, <1>3, <1>4

\* Every step keeps the bucket, the listing and the caches directories.
LEMMA DirStep ==
  ASSUME TypeInv, [Next]_vars
  PROVE  DirInv'
  <1>d. DirInv
    BY DEF TypeInv
  <1>1. CASE UNCHANGED <<objects, uploads, listed, cache, outages>>
    BY <1>1, <1>d DEF DirInv
  <1>2. CASE EnsureStep
    <2>1. UNCHANGED <<objects, uploads, cache>> /\ listed' \in {listed, objects} /\ outages' \in Nat
      BY <1>2, <1>d, EnsureFrame DEF DirInv
    <2>. QED
      BY <2>1, <1>d DEF DirInv
  <1>3. CASE WriteStep
    <2>1. /\ UNCHANGED <<objects, listed, cache>> /\ outages' \in Nat
          /\ uploads' \subseteq uploads \cup {PutOf(f)}
      BY <1>3, <1>d, WriteFrame DEF DirInv
    <2>. QED
      BY <2>1, <1>d, PutType DEF DirInv
  <1>4. ASSUME NEW p \in Phases, ScanStep(p) PROVE DirInv'
    <2>1. UNCHANGED <<objects, uploads, listed>> /\ outages' \in Nat
      BY <1>4, <1>d, ScanFrame DEF DirInv
    <2>2. IsDir(cache')
      BY <1>4, <1>d, ScanFrame, CacheType DEF DirInv
    <2>. QED
      BY <2>1, <2>2, <1>d DEF DirInv
  <1>5. CASE EndStep
    <2>1. UNCHANGED <<objects, uploads, listed, cache>> /\ outages' \in Nat
      BY <1>5, <1>d, EndFrame DEF DirInv
    <2>. QED
      BY <2>1, <1>d DEF DirInv
  <1>6. ASSUME NEW p \in RustPhases, QueryStep(p) PROVE DirInv'
    <2>1. UNCHANGED <<objects, uploads, listed>> /\ outages' \in Nat
      BY <1>6, <1>d, QueryFrame DEF DirInv
    <2>2. IsDir(cache')
      BY <1>6, <1>d, QueryFrame, CacheType DEF DirInv
    <2>. QED
      BY <2>1, <2>2, <1>d DEF DirInv
  <1>7. CASE SparkStep
    <2>1. UNCHANGED <<objects, uploads, cache, outages>> /\ listed' \in {listed, objects}
      BY <1>7, SparkFrame DEF storeVars
    <2>. QED
      BY <2>1, <1>d DEF DirInv
  <1>8. CASE Landing
    <2>1. UNCHANGED <<listed, cache, outages>>
      BY <1>8, LandingFrame
    <2>2. PICK up \in uploads : /\ objects' = Overwrite(objects, up.file, up.content)
                                /\ uploads' = uploads \ {up}
      BY <1>8, LandingFrame
    <2>3. IsDir(objects') /\ DOMAIN objects \subseteq DOMAIN objects'
      BY <2>2, LandingType
    <2>. QED
      BY <2>1, <2>2, <2>3, <1>d DEF DirInv
  <1>9. CASE Crash \/ StartAgain
    <2>1. UNCHANGED <<objects, uploads, outages>> /\ listed' = NoFiles /\ cache' = NoFiles
      BY <1>9, CrashFrame, StartFrame DEF FreshProcess
    <2>. QED
      BY <2>1, <1>d, DirEmpty DEF DirInv
  <1>10. CASE UNCHANGED vars
    BY <1>1, <1>10 DEF vars, storeVars, datasetVars, scanVars
  <1>. QED
    BY <1>2, <1>3, <1>4, <1>5, <1>6, <1>7, <1>8, <1>9, <1>10, Steps

\* Every step keeps the types of the programs' variables.
LEMMA ClientStep ==
  ASSUME TypeInv, [Next]_vars
  PROVE  ClientTypeOK' /\ IndexInv'
  <1>c. ClientTypeOK /\ IndexInv
    BY DEF TypeInv
  <1>1. CASE EnsureStep /\ Others
    <2>1. UNCHANGED <<run, args, f, it, total, program, queries, scanned, timed, status, usedArgs, complete>>
      BY <1>1, EnsureFrame DEF Others, compareVars
    <2>2. /\ pc \in Early \cup {"put", "listed"}
          /\ pc' \in Early \cup {"put", "listed", "failed", "no-cache"} /\ (pc' = "no-cache" => it = 0)
          /\ pc' \in Early \cup {"put", "listed"} => pc # "listed"
          /\ todo' \subseteq DOMAIN listed'
      <3>1. pc \in Early => todo \subseteq DOMAIN listed
        BY <1>c DEF IndexInv
      <3>2. pc \in {"put", "ensure_dataset"} => todo \subseteq DOMAIN objects
        BY DEF TypeInv, IndexInv, DirInv
      <3>. QED
        BY <1>1, <1>c, <3>1, <3>2, EnsureFrame DEF Early, IndexInv, Phases
    <2>3. ClientTypeOK'
      BY <2>1, <2>2, <1>c DEF ClientTypeOK, Scanning, Phases, Exited
    <2>4. IndexInv'
      BY <2>1, <2>2, <1>c, ItersType DEF IndexInv, Early, Phases, RustPhases, ClientTypeOK
    <2>. QED
      BY <2>3, <2>4
  <1>2. CASE WriteStep /\ Others
    <2>1. UNCHANGED <<run, args, it, total, todo, listed, program, queries, scanned, timed, status,
                      usedArgs, complete>>
      BY <1>2, WriteFrame DEF Others, compareVars
    <2>2. /\ pc \in {"put", "putting"} /\ pc' \in {"put", "putting", "failed"}
          /\ f' \in {f, f + 1} /\ (f' # f => pc = "putting" /\ pc' # "putting")
          /\ pc' = "putting" => f' < args.files
      BY <1>2, WriteFrame
    <2>3. f' \in Nat /\ f' <= args.files
      BY <2>2, <1>c, Sizes DEF ClientTypeOK, IndexInv
    <2>4. ClientTypeOK'
      BY <2>1, <2>2, <2>3, <1>c DEF ClientTypeOK, Exited
    <2>5. IndexInv'
      BY <2>1, <2>2, <2>3, <1>c DEF IndexInv, Early, Phases, RustPhases
    <2>. QED
      BY <2>4, <2>5
  <1>3. ASSUME NEW p \in Phases, ScanStep(p), Others PROVE ClientTypeOK' /\ IndexInv'
    <2>1. UNCHANGED <<run, args, f, listed, program, queries, scanned, timed, status, usedArgs, complete>>
      BY <1>3, ScanFrame DEF Others, compareVars
    <2>2. pc = p /\ it \in Nat /\ it < Iters(p) /\ total[p] \in Nat /\ Iters(p) \in Nat
          /\ Iters(p) <= NoCacheIters + WarmIters + 1
      BY <1>3, <1>c, ScanFrame, ItersType DEF ClientTypeOK, IndexInv
    <2>3. total' \in [Phases -> Nat]
      <3>1. total' = total \/ (todo # {} /\ total' = [total EXCEPT ![p] = @ + Cardinality(listed[First])])
        BY <1>3, ScanFrame
      <3>2. todo # {} => total[p] + Cardinality(listed[First]) \in Nat
        BY <2>2, FirstListed
      <3>. QED
        BY <3>1, <3>2, <1>c DEF ClientTypeOK
    <2>4. todo' \subseteq DOMAIN listed'
      BY <1>3, <2>1, <1>c, ScanFrame DEF IndexInv
    <2>5. /\ it' \in Nat /\ it' <= NoCacheIters + WarmIters
          /\ pc' \in {"no-cache", "cold", "warm", "scanned", "failed"}
          /\ pc' \in Phases => it' < Iters(pc')
          /\ pc' = "scanned" => it' = 0
      <3>1. \A q \in Phases : 0 < Iters(q)
        BY ItersType
      <3>2. NextPhase(p) \in {"cold", "warm", "scanned"}
        BY DEF NextPhase, Phases
      <3>3. /\ it' = it \/ it' = it + 1 \/ it' = 0 
            /\ pc' = p \/ pc' = "failed" \/ (pc' = NextPhase(p) /\ it' = 0)
            /\ it' = it + 1 => it + 1 < Iters(p)
        BY <1>3, <2>2, ScanFrame
      <3>. QED
        BY <2>2, <3>1, <3>2, <3>3, Sizes DEF Phases
    <2>6. ClientTypeOK'
      BY <2>1, <2>3, <2>5, <1>c DEF ClientTypeOK, Scanning, Phases, Exited
    <2>7. IndexInv'
      BY <2>1, <2>4, <2>5, <1>c DEF IndexInv, Early, Phases, RustPhases
    <2>. QED
      BY <2>6, <2>7
  <1>4. CASE EndStep
    <2>1. UNCHANGED <<run, args, f, it, total, todo, listed, program, queries, scanned, timed, status, usedArgs>>
      BY <1>4, EndFrame
    <2>2. pc' \in {"done", "failed"} /\ complete' \in BOOLEAN /\ pc \in {"scanned", "put"}
      BY <1>4, <1>c, EndFrame DEF ClientTypeOK
    <2>3. ClientTypeOK'
      BY <2>1, <2>2, <1>c DEF ClientTypeOK, Exited
    <2>4. IndexInv'
      BY <2>1, <2>2, <1>c DEF IndexInv, Early, Phases, RustPhases
    <2>. QED
      BY <2>3, <2>4
  <1>5. ASSUME NEW p \in RustPhases, QueryStep(p) PROVE ClientTypeOK' /\ IndexInv'
    <2>1. /\ UNCHANGED <<run, args, f, listed, todo, it, total, program, timed, status, usedArgs, complete>>
          /\ pc = p
      BY <1>5, QueryFrame
    <2>2. scanned' \in [RustPhases \cup {"jvm"} -> Nat]
      <3>1. scanned' = scanned \/ scanned' = [scanned EXCEPT ![p] = RowsOf(Queried(p))]
        BY <1>5, QueryFrame
      <3>. QED
        BY <3>1, CacheType, <1>c DEF ClientTypeOK
    <2>3. /\ queries' \in Nat /\ queries' <= NoCacheIters + WarmIters + JvmIters + 2
          /\ pc' \in RustPhases \cup {"jvm", "failed"}
          /\ pc' \in RustPhases => queries' <= Queries(pc')
          /\ pc' = "jvm" => queries' = 0
      <3>1. queries \in Nat /\ queries <= Queries(p) /\ queries <= NoCacheIters + WarmIters + JvmIters + 2
        BY <2>1, <1>c DEF ClientTypeOK, IndexInv
      <3>2. AfterPhase(p) \in RustPhases \cup {"jvm", "failed"}
        BY DEF AfterPhase, RustPhases
      <3>3. \/ queries < Queries(p) /\ pc' = p /\ queries' = queries + 1
            \/ pc' = "failed" /\ queries' = queries
            \/ queries' = 0 /\ pc' = AfterPhase(p)
        BY <1>5, QueryFrame
      <3>. QED
        BY <3>1, <3>2, <3>3, ItersType, Sizes DEF RustPhases
    <2>4. ClientTypeOK'
      BY <2>1, <2>2, <2>3, <1>c DEF ClientTypeOK, Exited
    <2>5. IndexInv'
      BY <2>1, <2>3, <1>c DEF IndexInv, Early, Phases, RustPhases
    <2>. QED
      BY <2>4, <2>5
  <1>6. CASE SparkStep
    <2>1. UNCHANGED <<run, args, f, todo, it, total, program, usedArgs, complete>>
      BY <1>6, SparkFrame
    <2>2. /\ pc \in {"jvm", "spark"} /\ pc' \in {"spark", "done"}
          /\ queries' \in Nat /\ queries' <= SparkQueries
          /\ status' \in {"none", "scaffold", "ready"}
      <3>1. queries \in Nat /\ pc \in {"jvm", "spark"} /\ queries <= SparkQueries /\ SparkQueries \in Nat
        BY <1>6, <1>c, SparkFrame, ItersType DEF ClientTypeOK, IndexInv
      <3>2. /\ pc' \in {"spark", "done"} /\ status' \in {"none", "scaffold", "ready"}
            /\ queries' = queries \/ (queries < SparkQueries /\ queries' = queries + 1)
        BY <1>6, <1>c, SparkFrame DEF compareVars, ClientTypeOK
      <3>. QED
        BY <3>1, <3>2
    <2>3. scanned' \in [RustPhases \cup {"jvm"} -> Nat] /\ timed' \in SUBSET Nat
      <3>. DEFINE files == [g \in DOMAIN listed |-> objects[g]]
      <3>1. RowsOf(files) \in Nat
        <4>1. DOMAIN files = DOMAIN listed /\ \A g \in DOMAIN files : files[g] = objects[g]
          OBVIOUS
        <4>2. files = [g \in DOMAIN files |-> files[g]]
          OBVIOUS
        <4>. HIDE DEF files
        <4>3. IsDir(files)
          BY <4>1, <4>2 DEF TypeInv, DirInv, IsDir
        <4>. QED
          BY <4>3, RowsOfType
      <3>2. \/ UNCHANGED <<scanned, timed>>
            \/ timed' = timed \cup {RowsOf(files)} /\ scanned' = scanned
            \/ scanned' = [scanned EXCEPT !["jvm"] = RowsOf(files)] /\ timed' = timed
        BY <1>6, SparkFrame DEF compareVars, run_once
      <3>. HIDE DEF files
      <3>. QED
        BY <3>1, <3>2, <1>c DEF ClientTypeOK
    <2>4. todo' \subseteq DOMAIN listed'
      <3>1. listed' = listed \/ listed' = objects
        BY <1>6, SparkFrame
      <3>. QED
        BY <2>1, <3>1 DEF TypeInv, IndexInv, DirInv
    <2>5. ClientTypeOK'
      BY <2>1, <2>2, <2>3, <1>c DEF ClientTypeOK, Exited
    <2>6. queries' <= NoCacheIters + WarmIters + JvmIters + 2
      BY <2>2, ItersType, Sizes
    <2>7. IndexInv'
      BY <2>1, <2>2, <2>4, <2>6, <1>c DEF IndexInv, Early, Phases, RustPhases
    <2>. QED
      BY <2>5, <2>7
  <1>7. CASE Landing
    <2>1. UNCHANGED <<run, args, f, listed, todo, it, total, cache, pc, program, queries, scanned,
                      timed, status, usedArgs, complete>>
      BY <1>7, LandingFrame
    <2>. QED
      BY <2>1, <1>c DEF ClientTypeOK, IndexInv
  <1>8. CASE Crash \/ StartAgain
    <2>1. /\ f' = 0 /\ it' = 0 /\ queries' = 0 /\ todo' = {} /\ total' = NoTotals
          /\ scanned' = NothingScanned /\ timed' = {} /\ status' = "none" /\ complete' = complete
      BY <1>8, CrashFrame, StartFrame DEF FreshProcess
    <2>2. NoTotals \in [Phases -> Nat] /\ NothingScanned \in [RustPhases \cup {"jvm"} -> Nat]
      BY DEF NoTotals, NothingScanned
    <2>3. /\ run' \in 1..MaxRuns /\ args' \in ArgChoices /\ program' \in Programs
          /\ usedArgs' \in SUBSET ArgChoices
          /\ pc' \in {"killed", "ensure_bucket", "rust-no-cache", "put"}
      <3>1. CASE Crash
        BY <3>1, <1>c, CrashFrame DEF ClientTypeOK
      <3>2. CASE StartAgain
        <4>1. pc' \in {"ensure_bucket", "rust-no-cache", "put"}
          BY <3>2, StartFrame DEF FirstStep, Programs
        <4>. QED
          BY <3>2, <4>1, <1>c, StartFrame, Sizes DEF ClientTypeOK
      <3>. QED
        BY <1>8, <3>1, <3>2
    <2>4. ClientTypeOK'
      BY <2>1, <2>2, <2>3, <1>c DEF ClientTypeOK, Exited, RustPhases, Early
    <2>5. IndexInv'
      BY <2>1, <2>3, ItersType, Sizes DEF IndexInv, Phases, RustPhases, Early
    <2>. QED
      BY <2>4, <2>5
  <1>9. CASE UNCHANGED vars
    BY <1>9, <1>c DEF ClientTypeOK, IndexInv, vars, storeVars, datasetVars, scanVars, compareVars
  <1>. QED
    BY <1>1, <1>2, <1>3, <1>4, <1>5, <1>6, <1>7, <1>8, <1>9, Steps

\* Every step keeps the strengthened type invariant.
LEMMA TypeStep == TypeInv /\ [Next]_vars => TypeInv'
  BY ClientStep, DirStep DEF TypeInv

\* The strengthened type invariant holds at the start.
LEMMA TypeInit == Init => TypeInv
  <1>. SUFFICES ASSUME Init PROVE TypeInv
    OBVIOUS
  <1>1. /\ objects = NoFiles /\ listed = NoFiles /\ cache = NoFiles /\ uploads = {} /\ outages = 0
    BY DEF Init, CacheScanInit, StoreInit, NoFiles
  <1>2. DirInv
    BY <1>1, DirEmpty DEF DirInv
  <1>3. pc \in {"ensure_bucket", "rust-no-cache", "put"}
    BY DEF Init, FirstStep, Programs
  <1>4. args \in ArgChoices /\ usedArgs \in SUBSET ArgChoices /\ args.files \in Nat /\ 1 \in 1..MaxRuns
    BY Sizes DEF Init, ArgsOf
  <1>5. NoTotals \in [Phases -> Nat] /\ NothingScanned \in [RustPhases \cup {"jvm"} -> Nat]
    BY DEF NoTotals, NothingScanned
  <1>6. ClientTypeOK
    BY <1>3, <1>4, <1>5 DEF Init, CacheScanInit, ClientTypeOK, RustPhases, Early
  <1>7. IndexInv
    BY <1>3, <1>4, ItersType, Sizes DEF Init, CacheScanInit, IndexInv, Phases, RustPhases, Early
  <1>. QED
    BY <1>2, <1>6, <1>7 DEF TypeInv

\* Every variable keeps its type.
THEOREM TypeCorrect == Spec => []TypeOK
  BY TypeInit, TypeStep, TypeInvImplies, PTL DEF Spec

-----------------------------------------------------------------------------
(* What cache-scan counts.                                                 *)

\* The rows of the listing, and of what the current pass has scanned of it.
Whole == Cardinality(RowsIn(listed, DOMAIN listed))
Part == Cardinality(RowsIn(listed, DOMAIN listed \ todo))

Before(p) == CASE p = "no-cache" -> {}
               [] p = "cold" -> {"no-cache"}
               [] p = "warm" -> {"no-cache", "cold"}

\* A phase has counted the whole listing once for each pass that it has
\* finished, and of the current pass what has been scanned.
TotalsInv ==
  /\ \A p \in Phases : pc = p =>
       /\ total[p] = it * Whole + Part
       /\ \A q \in Phases : q # p => total[q] = IF q \in Before(p) THEN Iters(q) * Whole ELSE 0
  /\ pc = "scanned" => \A q \in Phases : total[q] = Iters(q) * Whole

\* What a pass has counted so far grows file by file to the whole listing.
LEMMA WholeType ==
  ASSUME TypeInv
  PROVE  /\ Whole \in Nat /\ Part \in Nat
         /\ todo = {} => Part = Whole
         /\ todo = DOMAIN listed => Part = 0
         /\ todo # {} => Cardinality(RowsIn(listed, DOMAIN listed \ (todo \ {First})))
                           = Part + Cardinality(listed[First])
  <1>1. IsFiniteSet(DOMAIN listed) /\ \A g \in DOMAIN listed : IsFiniteSet(listed[g])
    BY DEF TypeInv, DirInv, IsDir
  <1>2. IsFiniteSet(DOMAIN listed \ todo)
    BY <1>1, FS_Subset
  <1>3. Whole \in Nat /\ Part \in Nat
    BY <1>1, <1>2, RowsInFinite DEF Whole, Part
  <1>4. todo = {} => Part = Whole
    <2>1. todo = {} => DOMAIN listed \ todo = DOMAIN listed
      OBVIOUS
    <2>. QED
      BY <2>1 DEF Part, Whole
  <1>5. todo = DOMAIN listed => Part = 0
    <2>1. todo = DOMAIN listed => RowsIn(listed, DOMAIN listed \ todo) = {}
      BY DEF RowsIn
    <2>. QED
      BY <2>1, FS_EmptySet DEF Part
  <1>6. ASSUME todo # {}
        PROVE  Cardinality(RowsIn(listed, DOMAIN listed \ (todo \ {First})))
                 = Part + Cardinality(listed[First])
    <2>1. First \in todo /\ First \in DOMAIN listed
      BY <1>6, FirstListed
    <2>2. DOMAIN listed \ (todo \ {First}) = (DOMAIN listed \ todo) \cup {First}
      BY <2>1
    <2>3. First \notin DOMAIN listed \ todo /\ \A g \in DOMAIN listed \ todo : IsFiniteSet(listed[g])
      BY <1>1, <2>1
    <2>. QED
      BY <1>1, <1>2, <2>1, <2>2, <2>3, RowsInGrows DEF Part
  <1>. QED
    BY <1>3, <1>4, <1>5, <1>6

\* A scan of the current pass, or its end.
LEMMA TotalsScan ==
  ASSUME TypeInv, TotalsInv, NEW p \in Phases, ScanStep(p)
  PROVE  TotalsInv'
  <1>1. /\ listed' = listed /\ Whole' = Whole /\ pc = p
        /\ it \in Nat /\ Iters(p) \in Nat
    BY ScanFrame, ItersType DEF Whole, TypeInv, ClientTypeOK
  <1>2. /\ total[p] = it * Whole + Part
        /\ \A q \in Phases : q # p => total[q] = IF q \in Before(p) THEN Iters(q) * Whole ELSE 0
        /\ DOMAIN total = Phases
    BY <1>1 DEF TotalsInv, TypeInv, ClientTypeOK
  <1>3. CASE pc' = "failed"
    BY <1>3 DEF TotalsInv, Phases
  <1>4. CASE /\ todo # {} /\ pc' = p /\ it' = it /\ todo' = todo \ {First}
             /\ total' = [total EXCEPT ![p] = @ + Cardinality(listed[First])]
    <2>1. Part' = Part + Cardinality(listed[First]) /\ Cardinality(listed[First]) \in Nat
      BY <1>1, <1>4, WholeType, FirstListed DEF Part
    <2>2. it * Whole \in Nat /\ Part \in Nat
      BY <1>1, WholeType
    <2>3. total'[p] = it' * Whole' + Part'
      BY <1>1, <1>2, <1>4, <2>1, <2>2
    <2>4. \A q \in Phases : q # p => total'[q] = total[q]
      BY <1>2, <1>4
    <2>. QED
      BY <1>1, <1>2, <1>4, <2>3, <2>4 DEF TotalsInv, Phases
  <1>5. CASE todo = {} /\ todo' = DOMAIN listed /\ total' = total
    <2>1. Part = Whole /\ Part' = 0 /\ Whole \in Nat
      <3>1. RowsIn(listed', DOMAIN listed' \ todo') = {}
        BY <1>1, <1>5 DEF RowsIn
      <3>. QED
        BY <1>5, <3>1, WholeType, FS_EmptySet DEF Part
    <2>2. total[p] = (it + 1) * Whole
      BY <1>1, <1>2, <2>1
    <2>3. CASE it' = it + 1 /\ pc' = p
      <3>1. total'[p] = it' * Whole' + Part'
        BY <1>1, <1>5, <2>1, <2>2, <2>3
      <3>. QED
        BY <1>1, <1>2, <1>5, <2>3, <3>1 DEF TotalsInv, Phases
    <2>4. CASE it + 1 = Iters(p) /\ it' = 0 /\ pc' = NextPhase(p)
      <3>1. total'[p] = Iters(p) * Whole' /\ 0 * Whole' + Part' = 0
        BY <1>1, <1>5, <2>1, <2>2, <2>4
      <3>2. CASE p = "warm"
        BY <1>1, <1>2, <1>5, <2>4, <3>1, <3>2 DEF TotalsInv, Phases, NextPhase, Before
      <3>3. CASE p = "cold"
        BY <1>1, <1>2, <1>5, <2>4, <3>1, <3>3 DEF TotalsInv, Phases, NextPhase, Before
      <3>4. CASE p = "no-cache"
        BY <1>1, <1>2, <1>5, <2>4, <3>1, <3>4 DEF TotalsInv, Phases, NextPhase, Before
      <3>. QED
        BY <3>2, <3>3, <3>4 DEF Phases
    <2>. QED
      BY <1>5, <2>3, <2>4, ScanFrame
  <1>. QED
    BY <1>3, <1>4, <1>5, ScanFrame

\* Every step keeps what the phases of cache-scan have counted.
LEMMA TotalsStep == TypeInv /\ TotalsInv /\ [Next]_vars => TotalsInv'
  <1>. SUFFICES ASSUME TypeInv, TotalsInv, [Next]_vars PROVE TotalsInv'
    OBVIOUS
  <1>1. CASE pc' \notin Phases \cup {"scanned"}
    BY <1>1 DEF TotalsInv
  <1>2. CASE UNCHANGED <<pc, listed, todo, it, total>>
    BY <1>2 DEF TotalsInv, Whole, Part
  <1>3. CASE EnsureStep
    <2>1. CASE pc' = "no-cache"
      <3>1. /\ pc = "listed" /\ listed' = listed /\ todo' = DOMAIN listed /\ it' = 0 /\ total' = NoTotals
        BY <1>3, <2>1, EnsureFrame DEF Early, TypeInv, IndexInv, Phases
      <3>2. Part' = 0
        <4>1. RowsIn(listed', DOMAIN listed' \ todo') = {}
          BY <3>1 DEF RowsIn
        <4>. QED
          BY <4>1, FS_EmptySet DEF Part
      <3>3. 0 * Whole' = 0
        <4>1. Whole' = Whole /\ Whole \in Nat
          BY <3>1, WholeType DEF Whole
        <4>. QED
          BY <4>1
      <3>. QED
        BY <2>1, <3>1, <3>2, <3>3 DEF TotalsInv, Before, NoTotals, Phases
    <2>2. CASE pc' # "no-cache"
      BY <1>1, <1>3, <2>2, EnsureFrame DEF Early, Phases
    <2>. QED
      BY <2>1, <2>2
  <1>4. CASE WriteStep \/ EndStep
    BY <1>1, <1>4, WriteFrame, EndFrame DEF Phases
  <1>5. ASSUME NEW p \in RustPhases, QueryStep(p) PROVE pc' \notin Phases \cup {"scanned"}
    BY <1>5, QueryFrame DEF AfterPhase, RustPhases, Phases
  <1>6. CASE SparkStep
    BY <1>1, <1>6, SparkFrame DEF Phases
  <1>7. CASE Landing
    BY <1>2, <1>7, LandingFrame
  <1>8. CASE Crash \/ StartAgain
    BY <1>1, <1>8, CrashFrame, StartFrame DEF FirstStep, Programs, Phases
  <1>9. CASE UNCHANGED vars
    BY <1>2, <1>9 DEF vars, datasetVars, scanVars
  <1>. QED
    BY <1>1, <1>3, <1>4, <1>5, <1>6, <1>7, <1>8, <1>9, TotalsScan, Steps

\* Nothing is counted at the start.
LEMMA TotalsInit == Init => TotalsInv
  BY DEF Init, FirstStep, Programs, TotalsInv, Phases

\* The three phases of a report of cache-scan have scanned the same rows per
\* pass, whatever lands between two of them.
THEOREM PhasesScanTheSameRowsHolds == Spec => []PhasesScanTheSameRows
  <1>1. TypeInv /\ TotalsInv => PhasesScanTheSameRows
    <2>. SUFFICES ASSUME TypeInv, TotalsInv, pc = "scanned"
                  PROVE  /\ total["no-cache"] = Iters("no-cache") * total["cold"]
                         /\ total["warm"] = Iters("warm") * total["cold"]
      BY DEF PhasesScanTheSameRows
    <2>1. \A q \in Phases : total[q] = Iters(q) * Whole
      BY DEF TotalsInv
    <2>2. Iters("cold") = 1 /\ Whole \in Nat
      BY WholeType DEF Iters
    <2>3. total["cold"] = Whole
      BY <2>1, <2>2 DEF Phases
    <2>. QED
      BY <2>1, <2>3 DEF Phases
  <1>. QED
    BY <1>1, TypeInit, TypeStep, TotalsInit, TotalsStep, PTL DEF Spec

-----------------------------------------------------------------------------
(* Which program is where, and what it has written.                        *)

\* Each program is at steps of its own, and only one that writes the dataset
\* can have put anything into the store.
ProgramInv ==
  /\ pc \in Scanning \cup Early => program = "cache-scan"
  /\ pc \in RustPhases \cup {"jvm", "spark"} => program = "rust-vs-jvm"
  /\ pc \in {"put", "putting"} => program # "rust-vs-jvm"
  /\ usedArgs # {} \/ program # "rust-vs-jvm" \/ complete => args \in usedArgs
  /\ usedArgs = {} => DOMAIN objects = {} /\ uploads = {} /\ DOMAIN cache = {}

\* Every step keeps a program within its own steps.
LEMMA ProgramStep == TypeInv /\ ProgramInv /\ [Next]_vars => ProgramInv'
  <1>. SUFFICES ASSUME TypeInv, ProgramInv, [Next]_vars PROVE ProgramInv'
    OBVIOUS
  <1>1. CASE UNCHANGED <<program, usedArgs, complete, args, uploads, objects, pc, cache>>
    BY <1>1 DEF ProgramInv
  <1>2. CASE program = "cache-scan" /\ EnsureStep /\ Others
    <2>1. /\ UNCHANGED <<program, usedArgs, args, uploads, objects, cache, complete>>
          /\ pc' \in Early \cup {"put", "failed", "listed", "no-cache"}
      BY <1>2, EnsureFrame DEF Others
    <2>. QED
      BY <1>2, <2>1 DEF ProgramInv, Early, RustPhases, Scanning
  <1>3. CASE program \in {"cache-scan", "read-write"} /\ WriteStep /\ Others
    <2>1. /\ UNCHANGED <<program, usedArgs, args, objects, cache, complete>>
          /\ pc' \in {"put", "putting", "failed"}
      BY <1>3, WriteFrame DEF Others
    <2>2. args \in usedArgs
      BY <1>3 DEF ProgramInv
    <2>. QED
      BY <1>3, <2>1, <2>2 DEF ProgramInv, Early, RustPhases, Scanning, Phases
  <1>4. ASSUME NEW p \in Phases, program = "cache-scan", ScanStep(p), Others PROVE ProgramInv'
    <2>1. /\ UNCHANGED <<program, usedArgs, args, uploads, objects, complete>>
          /\ pc' \in Phases \cup {"failed", "scanned"}
      BY <1>4, ScanFrame DEF Others, NextPhase, Phases
    <2>2. args \in usedArgs
      BY <1>4 DEF ProgramInv
    <2>. QED
      BY <1>4, <2>1, <2>2 DEF ProgramInv, Early, RustPhases, Scanning, Phases
  <1>5. CASE EndStep
    <2>1. /\ UNCHANGED <<program, usedArgs, args, uploads, objects, cache>>
          /\ pc' \in {"done", "failed"} /\ pc \in {"scanned", "put"}
      BY <1>5, EndFrame
    <2>2. args \in usedArgs
      BY <2>1 DEF ProgramInv, Scanning
    <2>. QED
      BY <2>1, <2>2 DEF ProgramInv, Early, RustPhases, Scanning, Phases
  <1>6. ASSUME NEW p \in RustPhases, QueryStep(p) PROVE ProgramInv'
    <2>1. /\ UNCHANGED <<program, usedArgs, args, uploads, objects, complete>> /\ pc = p
          /\ pc' \in RustPhases \cup {"failed", "jvm"}
      BY <1>6, QueryFrame DEF AfterPhase, RustPhases
    <2>2. usedArgs = {} => DOMAIN cache' = {}
      <3>1. cache' \in {cache, Filled(cache, DOMAIN objects)}
        BY <1>6, QueryFrame
      <3>2. DOMAIN Filled(cache, DOMAIN objects) = DOMAIN cache \cup DOMAIN objects
        BY DEF Filled
      <3>. QED
        BY <3>1, <3>2 DEF ProgramInv
    <2>. QED
      BY <2>1, <2>2 DEF ProgramInv, Early, RustPhases, Scanning, Phases
  <1>7. CASE SparkStep
    <2>1. /\ UNCHANGED <<program, usedArgs, args, uploads, objects, cache, complete>>
          /\ pc \in {"jvm", "spark"} /\ pc' \in {"spark", "done"}
      BY <1>7, SparkFrame DEF storeVars
    <2>. QED
      BY <2>1 DEF ProgramInv, Early, RustPhases, Scanning, Phases
  <1>8. CASE Landing
    <2>1. /\ UNCHANGED <<program, usedArgs, args, pc, cache, complete>> /\ uploads # {}
      BY <1>8, LandingFrame
    <2>. QED
      BY <2>1 DEF ProgramInv
  <1>9. CASE Crash
    <2>1. UNCHANGED <<objects, uploads, args, program, usedArgs, complete>> /\ pc' = "killed"
      BY <1>9, CrashFrame
    <2>2. cache' = NoFiles
      BY <1>9, CrashFrame DEF FreshProcess
    <2>. QED
      BY <2>1, <2>2, DirEmpty DEF ProgramInv, Early, RustPhases, Scanning, Phases
  <1>10. CASE StartAgain
    <2>1. /\ UNCHANGED <<objects, uploads, complete>> /\ cache' = NoFiles
          /\ program' \in Programs /\ pc' = FirstStep(program')
          /\ \/ program' # "rust-vs-jvm" /\ usedArgs' = usedArgs \cup {args'}
             \/ program' = "rust-vs-jvm" /\ UNCHANGED <<args, usedArgs>>
      BY <1>10, StartFrame DEF FreshProcess
    <2>2. \/ program' = "cache-scan" /\ pc' = "ensure_bucket"
          \/ program' = "rust-vs-jvm" /\ pc' = "rust-no-cache"
          \/ program' = "read-write" /\ pc' = "put"
      BY <2>1 DEF FirstStep, Programs
    <2>3. pc' # "putting" /\ (pc' \in Scanning \cup Early <=> pc' = "ensure_bucket")
          /\ (pc' \in RustPhases \cup {"jvm", "spark"} <=> pc' = "rust-no-cache")
      BY <2>2 DEF Early, RustPhases, Scanning, Phases
    <2>. QED
      BY <2>1, <2>2, <2>3, DirEmpty DEF ProgramInv
  <1>11. CASE UNCHANGED vars
    BY <1>1, <1>11 DEF vars, storeVars, datasetVars, scanVars
  <1>. QED
    BY <1>2, <1>3, <1>4, <1>5, <1>6, <1>7, <1>8, <1>9, <1>10, <1>11, Steps

\* The first program starts at its own first step.
LEMMA ProgramInit == Init => ProgramInv
  <1>. SUFFICES ASSUME Init PROVE ProgramInv
    OBVIOUS
  <1>1. objects = NoFiles /\ cache = NoFiles /\ uploads = {} /\ complete = FALSE
    BY DEF Init, CacheScanInit, StoreInit, NoFiles
  <1>2. \/ program = "cache-scan" /\ pc = "ensure_bucket"
        \/ program = "rust-vs-jvm" /\ pc = "rust-no-cache"
        \/ program = "read-write" /\ pc = "put"
    BY DEF Init, FirstStep, Programs
  <1>3. usedArgs = IF program # "rust-vs-jvm" THEN {args} ELSE {}
    BY DEF Init, Writes
  <1>. QED
    BY <1>1, <1>2, <1>3, DirEmpty DEF ProgramInv, Early, RustPhases, Scanning, Phases

-----------------------------------------------------------------------------
(* What is in the store.                                                   *)

\* A program that writes the files has written those before the current one,
\* and the current one is on its way until it has landed.
StoredInv ==
  /\ pc \in Early => f = 0
  /\ pc = "putting" => PutOf(f) \in uploads \/ f \in DOMAIN objects
  /\ pc \in {"put", "putting"} => \A g \in 0..(f - 1) : g \in DOMAIN objects

\* Every step keeps what is known of the files already written.
LEMMA StoredStep == TypeInv /\ StoredInv /\ [Next]_vars => StoredInv'
  <1>. SUFFICES ASSUME TypeInv, StoredInv, [Next]_vars PROVE StoredInv'
    OBVIOUS
  <1>1. CASE UNCHANGED <<run, args, f, uploads, objects, pc>>
    <2>1. \A g : PutOf(g)' = PutOf(g)
      BY <1>1 DEF PutOf, Rows
    <2>2. f' = f /\ uploads' = uploads /\ objects' = objects /\ pc' = pc
      BY <1>1
    <2>3. PutOf(f)' = PutOf(f)
      BY <1>1 DEF PutOf, Rows
    <2>. QED
      BY <2>2, <2>3 DEF StoredInv
  <1>2. CASE pc' \notin Early \cup {"put", "putting"}
    BY <1>2 DEF StoredInv
  <1>3. CASE pc' \in Early \cup {"put"} /\ f' = 0
    <2>1. pc' # "putting" /\ 0..(f' - 1) = {}
      BY <1>3 DEF Early
    <2>. QED
      BY <1>3, <2>1 DEF StoredInv
  <1>4. CASE EnsureStep
    <2>1. f' = f /\ pc' # "putting" /\ (pc' \in Early \cup {"put"} => pc \in Early)
      BY <1>4, EnsureFrame DEF Early
    <2>2. pc \in Early => f = 0
      BY DEF StoredInv
    <2>. QED
      BY <1>2, <1>3, <2>1, <2>2
  <1>5. CASE WriteStep
    <2>1. f \in Nat /\ UNCHANGED <<run, args, objects>> /\ \A g : PutOf(g)' = PutOf(g)
      BY <1>5, WriteFrame DEF TypeInv, ClientTypeOK, PutOf, Rows
    <2>2. CASE pc = "put" /\ pc' = "putting" /\ f' = f /\ uploads' = uploads \cup {PutOf(f)}
      <3>1. PutOf(f)' = PutOf(f)
        BY <2>1, <2>2 DEF PutOf, Rows
      <3>. QED
        BY <2>1, <2>2, <3>1 DEF StoredInv, Early
    <2>3. CASE pc = "putting" /\ PutOf(f) \notin uploads /\ pc' = "put" /\ f' = f + 1
      <3>1. \A g \in 0..(f' - 1) : g \in 0..(f - 1) \/ g = f
        BY <2>1, <2>3
      <3>. QED
        BY <2>1, <2>3, <3>1 DEF StoredInv, Early
    <2>. QED
      BY <1>2, <1>5, <2>2, <2>3, WriteFrame DEF Early
  <1>6. ASSUME NEW p \in Phases, ScanStep(p) PROVE StoredInv'
    BY <1>2, <1>6, ScanFrame DEF NextPhase, Phases, Early
  <1>7. CASE EndStep
    BY <1>2, <1>7, EndFrame DEF Early
  <1>8. ASSUME NEW p \in RustPhases, QueryStep(p) PROVE StoredInv'
    BY <1>2, <1>8, QueryFrame DEF AfterPhase, RustPhases, Early
  <1>9. CASE SparkStep
    BY <1>2, <1>9, SparkFrame DEF Early
  <1>10. CASE Landing
    <2>1. UNCHANGED <<run, args, f, pc>>
      BY <1>10, LandingFrame
    <2>2. PICK up \in uploads : /\ objects' = Overwrite(objects, up.file, up.content)
                                /\ uploads' = uploads \ {up}
      BY <1>10, LandingFrame
    <2>3. DOMAIN objects' = DOMAIN objects \cup {up.file}
      BY <2>2, LandingType
    <2>4. PutOf(f)' = PutOf(f) /\ PutOf(f).file = f
      BY <2>1 DEF PutOf, Rows
    <2>5. up # PutOf(f) => (PutOf(f) \in uploads => PutOf(f)' \in uploads')
      BY <2>2, <2>4
    <2>6. up = PutOf(f) => f \in DOMAIN objects'
      BY <2>3, <2>4
    <2>. QED
      BY <2>1, <2>3, <2>5, <2>6 DEF StoredInv
  <1>11. CASE Crash
    BY <1>2, <1>11, CrashFrame DEF Early
  <1>12. CASE StartAgain
    <2>1. f' = 0 /\ (pc' \in Early \cup {"put"} \/ pc' \notin Early \cup {"put", "putting"})
      BY <1>12, StartFrame DEF FreshProcess, FirstStep, Programs, Early
    <2>. QED
      BY <1>2, <1>3, <2>1
  <1>13. CASE UNCHANGED vars
    BY <1>1, <1>13 DEF vars, storeVars, datasetVars, scanVars
  <1>. QED
    BY <1>2, <1>4, <1>5, <1>6, <1>7, <1>8, <1>9, <1>10, <1>11, <1>12, <1>13, Steps

\* No file is written at the start.
LEMMA StoredInit == Init => StoredInv
  <1>. SUFFICES ASSUME Init PROVE StoredInv
    OBVIOUS
  <1>1. f = 0 /\ pc # "putting"
    BY DEF Init, CacheScanInit, FirstStep, Programs
  <1>. QED
    BY <1>1 DEF StoredInv

\* Every file of m is the one of the dataset.
Dataset(m) == \A g \in DOMAIN m : g < args.files /\ m[g] = Rows(g)

\* With one size of the dataset, whatever lies in the store or is on its way
\* to it belongs to the dataset, a listing that cache-scan scans is all of it,
\* and once a program that writes it has finished, all of it stays there.
FilesInv ==
  SameSizes =>
    /\ Dataset(objects) /\ Dataset(cache)
    /\ \A up \in uploads : up.file < args.files /\ up.content = Rows(up.file)
    /\ pc \in Scanning => Dataset(listed) /\ DOMAIN listed = 0..(args.files - 1)
    /\ complete => 0..(args.files - 1) \subseteq DOMAIN objects

\* The sizes do not change, except in runs that have not written anything.
LEMMA SameSizesBefore ==
  ASSUME TypeInv, ProgramInv, [Next]_vars, SameSizes'
  PROVE  /\ SameSizes
         /\ (args'.files = args.files /\ args'.rows = args.rows) \/ (StartAgain /\ usedArgs = {})
  <1>1. CASE UNCHANGED <<args, usedArgs>>
    BY <1>1 DEF SameSizes
  <1>2. CASE StartAgain
    <2>1. UNCHANGED <<args, usedArgs>> \/ usedArgs' = usedArgs \cup {args'}
      BY <1>2, StartFrame
    <2>2. usedArgs # {} => args \in usedArgs
      BY DEF ProgramInv
    <2>. QED
      BY <1>1, <1>2, <2>1, <2>2 DEF SameSizes
  <1>3. EnsureStep \/ WriteStep => UNCHANGED args
    BY EnsureFrame, WriteFrame
  <1>4. Others => UNCHANGED usedArgs
    BY DEF Others
  <1>5. \A p \in Phases : ScanStep(p) => UNCHANGED args
    BY ScanFrame
  <1>6. EndStep \/ SparkStep \/ Landing \/ Crash => UNCHANGED <<args, usedArgs>>
    BY EndFrame, SparkFrame, LandingFrame, CrashFrame
  <1>7. \A p \in RustPhases : QueryStep(p) => UNCHANGED <<args, usedArgs>>
    BY QueryFrame
  <1>8. UNCHANGED vars => UNCHANGED <<args, usedArgs>>
    BY DEF vars, datasetVars
  <1>. QED
    BY <1>1, <1>2, <1>3, <1>4, <1>5, <1>6, <1>7, <1>8, Steps

\* What is read into the cache belongs to the dataset, as the store does.
LEMMA CacheDataset ==
  ASSUME Dataset(objects), Dataset(cache), NEW S \in SUBSET DOMAIN objects
  PROVE  Dataset(Filled(cache, S)) /\ Dataset(Through(cache, S))
  BY DEF Dataset, Filled, Through

\* As many files of the dataset as it has are all of it.
LEMMA CountedIsWhole ==
  ASSUME TypeInv, Dataset(objects), Cardinality(DOMAIN objects) >= args.files
  PROVE  DOMAIN objects = 0..(args.files - 1)
  <1>1. args.files \in Nat /\ DOMAIN objects \in SUBSET Nat
    BY Sizes DEF TypeInv, ClientTypeOK, DirInv, IsDir
  <1>. DEFINE I == 0..(args.files - 1)
  <1>2. IsFiniteSet(I) /\ Cardinality(I) = args.files
    <2>1. 0 \in Int /\ args.files - 1 \in Int /\ (0 > args.files - 1 <=> args.files = 0)
      BY <1>1
    <2>2. IsFiniteSet(I) /\ Cardinality(I) = IF 0 > args.files - 1 THEN 0 ELSE (args.files - 1) - 0 + 1
      BY <2>1, FS_Interval
    <2>. QED
      BY <1>1, <2>1, <2>2
  <1>3. DOMAIN objects \in SUBSET I
    BY <1>1 DEF Dataset
  <1>. HIDE DEF I
  <1>4. /\ Cardinality(DOMAIN objects) <= Cardinality(I) /\ IsFiniteSet(DOMAIN objects)
        /\ Cardinality(I) = Cardinality(DOMAIN objects) => I = DOMAIN objects
    BY <1>2, <1>3, FS_Subset
  <1>5. Cardinality(DOMAIN objects) \in Nat
    BY <1>4, FS_CardinalityType
  <1>. QED
    BY <1>1, <1>2, <1>4, <1>5 DEF I

\* Every step keeps what is known of the rows of the files, in the bucket, in
\* the cache and on their way.
LEMMA FilesStep ==
  ASSUME TypeInv, ProgramInv, StoredInv, FilesInv, [Next]_vars
  PROVE  FilesInv'
  <1>. SUFFICES ASSUME SameSizes'
                PROVE  /\ Dataset(objects)' /\ Dataset(cache)'
                       /\ (\A up \in uploads : up.file < args.files /\ up.content = Rows(up.file))'
                       /\ (pc \in Scanning => Dataset(listed) /\ DOMAIN listed = 0..(args.files - 1))'
                       /\ (complete => 0..(args.files - 1) \subseteq DOMAIN objects)'
    BY DEF FilesInv
  <1>1. /\ SameSizes
        /\ (args'.files = args.files /\ args'.rows = args.rows) \/ (StartAgain /\ usedArgs = {})
    BY SameSizesBefore
  <1>2. /\ Dataset(objects) /\ Dataset(cache)
        /\ \A up \in uploads : up.file < args.files /\ up.content = Rows(up.file)
        /\ pc \in Scanning => Dataset(listed) /\ DOMAIN listed = 0..(args.files - 1)
        /\ complete => 0..(args.files - 1) \subseteq DOMAIN objects
    BY <1>1 DEF FilesInv
  <1>4. CASE EnsureStep /\ Others
    <2>1. UNCHANGED <<args, objects, uploads, cache, complete>>
      BY <1>4, EnsureFrame DEF Others
    <2>2. ASSUME pc' \in Scanning PROVE Dataset(listed') /\ DOMAIN listed' = 0..(args.files - 1)
      <3>1. CASE Reused /\ listed' = objects
        <4>1. Cardinality(DOMAIN objects) >= args.files
          BY <3>1 DEF Reused
        <4>. QED
          BY <1>2, <3>1, <4>1, CountedIsWhole
      <3>2. CASE pc = "put" /\ f = args.files /\ listed' = objects
        <4>1. 0..(args.files - 1) \subseteq DOMAIN objects
          BY <3>2 DEF StoredInv
        <4>2. DOMAIN objects \subseteq 0..(args.files - 1)
          BY <1>2, Sizes DEF Dataset, TypeInv, ClientTypeOK, DirInv, IsDir
        <4>. QED
          BY <1>2, <3>2, <4>1, <4>2
      <3>3. CASE pc = "listed" /\ listed' = listed
        BY <1>2, <3>3 DEF Scanning
      <3>4. pc' \notin Early \cup {"put", "failed"}
        BY <2>2 DEF Scanning, Early, Phases
      <3>. QED
        BY <1>4, <3>1, <3>2, <3>3, <3>4, EnsureFrame
    <2>3. Dataset(objects)' /\ Dataset(cache)'
      BY <1>2, <2>1 DEF Dataset, Rows
    <2>4. (\A up \in uploads : up.file < args.files /\ up.content = Rows(up.file))'
      BY <1>2, <2>1 DEF Rows
    <2>5. (pc \in Scanning => Dataset(listed) /\ DOMAIN listed = 0..(args.files - 1))'
      BY <2>1, <2>2 DEF Dataset, Rows
    <2>. QED
      BY <1>2, <2>1, <2>3, <2>4, <2>5
  <1>5. CASE WriteStep /\ Others
    <2>1. UNCHANGED <<args, objects, cache, complete>> /\ pc' \notin Scanning
      BY <1>5, WriteFrame DEF Others, Scanning, Phases
    <2>2. Dataset(objects)' /\ Dataset(cache)'
      BY <1>2, <2>1 DEF Dataset, Rows
    <2>3. \A up \in uploads' : up \in uploads \/ (up = PutOf(f) /\ f < args.files)
      BY <1>5, WriteFrame
    <2>4. (\A up \in uploads : up.file < args.files /\ up.content = Rows(up.file))'
      <3>1. \A up \in uploads' : up.file < args.files /\ up.content = Rows(up.file)
        BY <1>2, <2>3, PutType
      <3>. QED
        BY <2>1, <3>1 DEF Rows
    <2>. QED
      BY <1>2, <2>1, <2>2, <2>4
  <1>6. ASSUME NEW p \in Phases, ScanStep(p), Others
        PROVE  /\ Dataset(objects)' /\ Dataset(cache)'
               /\ (\A up \in uploads : up.file < args.files /\ up.content = Rows(up.file))'
               /\ (pc \in Scanning => Dataset(listed) /\ DOMAIN listed = 0..(args.files - 1))'
               /\ (complete => 0..(args.files - 1) \subseteq DOMAIN objects)'
    <2>1. UNCHANGED <<args, objects, uploads, listed, complete>> /\ pc \in Scanning
      BY <1>6, ScanFrame DEF Others, Scanning
    <2>2. Dataset(cache')
      <3>1. cache' = cache \/ (todo # {} /\ cache' = Filled(cache, {First}))
        BY <1>6, ScanFrame
      <3>2. todo # {} => {First} \in SUBSET DOMAIN objects
        BY FirstListed
      <3>. QED
        BY <1>2, <3>1, <3>2, CacheDataset
    <2>3. Dataset(objects)' /\ Dataset(cache)'
      BY <1>2, <2>1, <2>2 DEF Dataset, Rows
    <2>4. (\A up \in uploads : up.file < args.files /\ up.content = Rows(up.file))'
      BY <1>2, <2>1 DEF Rows
    <2>5. (pc \in Scanning => Dataset(listed) /\ DOMAIN listed = 0..(args.files - 1))'
      BY <1>2, <2>1 DEF Dataset, Rows
    <2>. QED
      BY <1>2, <2>1, <2>3, <2>4, <2>5
  <1>7. CASE EndStep
    <2>1. UNCHANGED <<args, objects, uploads, cache>> /\ pc' \notin Scanning
      BY <1>7, EndFrame DEF Scanning, Phases
    <2>2. 0..(args.files - 1) \subseteq DOMAIN objects \/ complete' = complete
      <3>1. pc = "scanned" => 0..(args.files - 1) \subseteq DOMAIN objects
        BY <1>2 DEF Scanning, TypeInv, DirInv
      <3>2. pc = "put" /\ f = args.files => 0..(args.files - 1) \subseteq DOMAIN objects
        BY DEF StoredInv
      <3>. QED
        BY <1>7, <3>1, <3>2, EndFrame
    <2>3. Dataset(objects)' /\ Dataset(cache)'
      BY <1>2, <2>1 DEF Dataset, Rows
    <2>4. (\A up \in uploads : up.file < args.files /\ up.content = Rows(up.file))'
      BY <1>2, <2>1 DEF Rows
    <2>. QED
      BY <1>2, <2>1, <2>2, <2>3, <2>4
  <1>8. ASSUME NEW p \in RustPhases, QueryStep(p)
        PROVE  /\ Dataset(objects)' /\ Dataset(cache)'
               /\ (\A up \in uploads : up.file < args.files /\ up.content = Rows(up.file))'
               /\ (pc \in Scanning => Dataset(listed) /\ DOMAIN listed = 0..(args.files - 1))'
               /\ (complete => 0..(args.files - 1) \subseteq DOMAIN objects)'
    <2>1. UNCHANGED <<args, objects, uploads, complete>> /\ pc' \notin Scanning
      BY <1>8, QueryFrame DEF AfterPhase, RustPhases, Scanning, Phases
    <2>2. Dataset(cache')
      BY <1>2, <1>8, QueryFrame, CacheDataset
    <2>3. Dataset(objects)' /\ Dataset(cache)'
      BY <1>2, <2>1, <2>2 DEF Dataset, Rows
    <2>4. (\A up \in uploads : up.file < args.files /\ up.content = Rows(up.file))'
      BY <1>2, <2>1 DEF Rows
    <2>. QED
      BY <1>2, <2>1, <2>3, <2>4
  <1>9. CASE SparkStep \/ Crash
    <2>1. UNCHANGED <<args, objects, uploads, complete>> /\ pc' \notin Scanning
      BY <1>9, SparkFrame, CrashFrame DEF storeVars, Scanning, Phases
    <2>2. cache' \in {cache, NoFiles}
      BY <1>9, SparkFrame, CrashFrame DEF FreshProcess
    <2>3. Dataset(objects)' /\ Dataset(cache)'
      BY <1>2, <2>1, <2>2, DirEmpty DEF Dataset, Rows
    <2>4. (\A up \in uploads : up.file < args.files /\ up.content = Rows(up.file))'
      BY <1>2, <2>1 DEF Rows
    <2>. QED
      BY <1>2, <2>1, <2>3, <2>4
  <1>10. CASE Landing
    <2>1. UNCHANGED <<args, listed, cache, pc, complete>>
      BY <1>10, LandingFrame
    <2>2. PICK up \in uploads : /\ objects' = Overwrite(objects, up.file, up.content)
                                /\ uploads' = uploads \ {up}
      BY <1>10, LandingFrame
    <2>3. /\ DOMAIN objects' = DOMAIN objects \cup {up.file}
          /\ \A g \in DOMAIN objects' : objects'[g] = IF g = up.file THEN up.content ELSE objects[g]
      BY <2>2, LandingType
    <2>4. Dataset(objects')
      BY <1>2, <2>3 DEF Dataset
    <2>5. Dataset(objects)' /\ Dataset(cache)'
      BY <1>2, <2>1, <2>4 DEF Dataset, Rows
    <2>6. (\A u \in uploads : u.file < args.files /\ u.content = Rows(u.file))'
      BY <1>2, <2>1, <2>2 DEF Rows
    <2>7. (pc \in Scanning => Dataset(listed) /\ DOMAIN listed = 0..(args.files - 1))'
      BY <1>2, <2>1 DEF Dataset, Rows
    <2>. QED
      BY <1>2, <2>1, <2>3, <2>5, <2>6, <2>7
  <1>11. CASE StartAgain
    <2>1. /\ UNCHANGED <<objects, uploads, complete>> /\ cache' = NoFiles
          /\ pc' \notin Scanning
      BY <1>11, StartFrame DEF FreshProcess, FirstStep, Programs, Scanning, Phases
    <2>2. CASE usedArgs = {}
      <3>1. DOMAIN objects = {} /\ uploads = {} /\ ~complete
        BY <2>2 DEF ProgramInv, TypeInv, ClientTypeOK
      <3>. QED
        BY <2>1, <3>1, DirEmpty DEF Dataset
    <2>3. CASE args'.files = args.files /\ args'.rows = args.rows
      <3>1. Dataset(objects)' /\ Dataset(cache)'
        BY <1>2, <2>1, <2>3, DirEmpty DEF Dataset, Rows
      <3>2. (\A up \in uploads : up.file < args.files /\ up.content = Rows(up.file))'
        BY <1>2, <2>1, <2>3 DEF Rows
      <3>. QED
        BY <1>2, <2>1, <2>3, <3>1, <3>2
    <2>. QED
      BY <1>1, <2>2, <2>3
  <1>12. CASE UNCHANGED vars
    <2>1. UNCHANGED <<args, objects, uploads, listed, cache, pc, complete>>
      BY <1>12 DEF vars, storeVars, datasetVars, scanVars
    <2>2. Dataset(objects)' /\ Dataset(cache)'
      BY <1>2, <2>1 DEF Dataset, Rows
    <2>3. (\A up \in uploads : up.file < args.files /\ up.content = Rows(up.file))'
      BY <1>2, <2>1 DEF Rows
    <2>4. (pc \in Scanning => Dataset(listed) /\ DOMAIN listed = 0..(args.files - 1))'
      BY <1>2, <2>1 DEF Dataset, Rows
    <2>. QED
      BY <1>2, <2>1, <2>2, <2>3, <2>4
  <1>. QED
    BY <1>4, <1>5, <1>6, <1>7, <1>8, <1>9, <1>10, <1>11, <1>12, Steps

\* There is no file at the start.
LEMMA FilesInit == Init => FilesInv
  <1>. SUFFICES ASSUME Init PROVE FilesInv
    OBVIOUS
  <1>1. objects = NoFiles /\ cache = NoFiles /\ uploads = {} /\ complete = FALSE
    BY DEF Init, CacheScanInit, StoreInit, NoFiles
  <1>2. pc \notin Scanning
    BY DEF Init, FirstStep, Programs, Scanning, Phases
  <1>. QED
    BY <1>1, <1>2, DirEmpty DEF FilesInv, Dataset

\* The invariants of what lies in the store, which the rest builds on.
DataInv == TypeInv /\ ProgramInv /\ StoredInv /\ FilesInv

\* The invariants about the data hold at the start, and every step keeps them.
LEMMA DataInvariant == (Init => DataInv) /\ (DataInv /\ [Next]_vars => DataInv')
  BY TypeInit, TypeStep, ProgramInit, ProgramStep, StoredInit, StoredStep, FilesInit, FilesStep
  DEF DataInv

\* cache-scan scans the dataset it was asked for, all of it and nothing else,
\* whatever runs were killed before it.
THEOREM ScansTheDatasetAskedForHolds == Spec => []ScansTheDatasetAskedFor
  <1>1. DataInv => ScansTheDatasetAskedFor
    <2>. SUFFICES ASSUME DataInv, pc \in Phases \cup {"listed", "scanned"}, SameSizes
                  PROVE  listed = [g \in 0..(args.files - 1) |-> Rows(g)]
      BY DEF ScansTheDatasetAskedFor
    <2>1. Dataset(listed) /\ DOMAIN listed = 0..(args.files - 1)
      BY DEF DataInv, FilesInv, Scanning
    <2>2. listed = [g \in DOMAIN listed |-> listed[g]]
      BY DEF DataInv, TypeInv, DirInv, IsDir
    <2>. QED
      BY <2>1, <2>2 DEF Dataset
  <1>. QED
    BY <1>1, DataInvariant, PTL DEF Spec

-----------------------------------------------------------------------------
(* What the engines count.                                                 *)

All == args.files * args.rows

\* The steps of rust-vs-jvm after phase p.
After(p) == CASE p = "rust-no-cache" -> {"rust-cold", "rust-warm", "jvm", "spark", "done"}
              [] p = "rust-cold"     -> {"rust-warm", "jvm", "spark", "done"}
              [] p = "rust-warm"     -> {"jvm", "spark", "done"}

\* On a dataset that is there as a whole, each query that has run, of whichever
\* engine, has counted all of it.
ScannedInv ==
  /\ status # "none" => pc = "done"
  /\ program = "rust-vs-jvm" /\ complete /\ SameSizes =>
       /\ \A p \in RustPhases : pc \in After(p) \/ (pc = p /\ queries > 0) => scanned[p] = All
       /\ pc = "spark" => DOMAIN listed = 0..(args.files - 1)
       /\ timed \subseteq {All}
       /\ (pc = "spark" /\ queries > 0) \/ status = "ready" => scanned["jvm"] = All

\* What rust-vs-jvm counts of a dataset that is there, through the cache or not.
LEMMA CountsAll ==
  ASSUME DataInv, SameSizes, complete
  PROVE  /\ DOMAIN objects = 0..(args.files - 1)
         /\ RowsOf([g \in 0..(args.files - 1) |-> objects[g]]) = All
         /\ \A p \in RustPhases : RowsOf(Queried(p)) = All
  <1>1. /\ args \in ArgChoices /\ args.files \in Nat /\ IsDir(objects) /\ IsDir(cache)
    BY Sizes DEF DataInv, TypeInv, ClientTypeOK, DirInv
  <1>2. Dataset(objects) /\ Dataset(cache) /\ 0..(args.files - 1) \subseteq DOMAIN objects
    BY DEF DataInv, FilesInv
  <1>3. DOMAIN objects = 0..(args.files - 1)
    <2>1. \A g \in DOMAIN objects : g \in Nat /\ g < args.files
      BY <1>1, <1>2 DEF Dataset, IsDir
    <2>2. \A g \in DOMAIN objects : g \in 0..(args.files - 1)
      BY <1>1, <2>1
    <2>. QED
      BY <1>2, <2>2
  <1>4. ASSUME NEW m, IsDir(m), Dataset(m), DOMAIN m = 0..(args.files - 1) PROVE RowsOf(m) = All
    <2>1. Cardinality(RowsIn(m, 0..(args.files - 1))) = All
      BY <1>1, <1>4, WholeDataset DEF Dataset, All
    <2>. QED
      BY <1>4, <2>1, RowsOfType
  <1>5. RowsOf(objects) = All /\ objects = [g \in 0..(args.files - 1) |-> objects[g]]
    BY <1>1, <1>2, <1>3, <1>4 DEF IsDir
  <1>. DEFINE seen == Through(cache, DOMAIN objects)
  <1>6. IsDir(seen) /\ Dataset(seen)
    BY <1>1, <1>2, DirCached, CacheDataset
  <1>7. DOMAIN seen = DOMAIN objects
    BY DEF Through
  <1>8. RowsOf(seen) = All
    BY <1>3, <1>4, <1>6, <1>7
  <1>. QED
    BY <1>3, <1>5, <1>8 DEF Queried

\* Every step keeps what the engines have counted.
LEMMA ScannedStep ==
  ASSUME DataInv, ScannedInv, [Next]_vars
  PROVE  ScannedInv'
  <1>t. TypeInv /\ ProgramInv
    BY DEF DataInv
  <1>1. CASE /\ UNCHANGED <<pc, program, complete, args, usedArgs, queries, scanned, listed, timed, status>>
    <2>1. (SameSizes' <=> SameSizes) /\ All' = All
      BY <1>1 DEF SameSizes, All
    <2>. QED
      BY <1>1, <2>1 DEF ScannedInv
  <1>2. ASSUME program' # "rust-vs-jvm", status' = status, pc # "done" PROVE ScannedInv'
    BY <1>2 DEF ScannedInv
  <1>3. CASE EnsureStep /\ Others /\ program = "cache-scan"
    BY <1>2, <1>3, EnsureFrame DEF Others, compareVars, Early
  <1>4. CASE WriteStep /\ Others /\ program \in {"cache-scan", "read-write"}
    BY <1>2, <1>4, WriteFrame DEF Others, compareVars
  <1>5. ASSUME NEW p \in Phases, program = "cache-scan", ScanStep(p), Others PROVE ScannedInv'
    BY <1>2, <1>5, ScanFrame DEF Others, compareVars, Phases
  <1>6. CASE EndStep
    <2>1. pc \in {"put", "scanned"} /\ UNCHANGED <<program, status>>
      BY <1>6, EndFrame
    <2>2. program # "rust-vs-jvm"
      BY <1>t, <2>1 DEF ProgramInv, Scanning
    <2>. QED
      BY <1>2, <2>1, <2>2
  <1>7. ASSUME NEW p \in RustPhases, QueryStep(p) PROVE ScannedInv'
    <2>1. /\ UNCHANGED <<args, listed, program, timed, status, usedArgs, complete>> /\ pc = p
          /\ (SameSizes' <=> SameSizes) /\ All' = All /\ pc' # "spark"
      BY <1>7, QueryFrame DEF SameSizes, All, AfterPhase, RustPhases
    <2>2. status = "none"
      BY <2>1 DEF ScannedInv, RustPhases
    <2>. SUFFICES ASSUME program = "rust-vs-jvm", complete, SameSizes
                  PROVE  /\ \A q \in RustPhases :
                              pc' \in After(q) \/ (pc' = q /\ queries' > 0) => scanned'[q] = All
                         /\ timed' \subseteq {All}
      BY <2>1, <2>2 DEF ScannedInv
    <2>3. /\ \A q \in RustPhases : p \in After(q) \/ (p = q /\ queries > 0) => scanned[q] = All
          /\ timed \subseteq {All}
      BY <2>1 DEF ScannedInv
    <2>4. p \notin After(p) /\ p # "spark" /\ scanned \in [RustPhases \cup {"jvm"} -> Nat]
      BY <1>t DEF After, RustPhases, TypeInv, ClientTypeOK
    <2>5. CASE pc' = p /\ scanned' = [scanned EXCEPT ![p] = RowsOf(Queried(p))]
      <3>1. RowsOf(Queried(p)) = All
        BY CountsAll
      <3>2. scanned'[p] = All /\ \A q \in RustPhases : q # p => scanned'[q] = scanned[q]
        BY <2>4, <2>5, <3>1
      <3>. QED
        BY <2>1, <2>3, <2>4, <2>5, <3>2
    <2>6. CASE pc' = "failed"
      BY <2>1, <2>3, <2>6 DEF After, RustPhases
    <2>7. CASE queries = Queries(p) /\ queries' = 0 /\ pc' = AfterPhase(p) /\ scanned' = scanned
      <3>1. queries > 0 /\ scanned[p] = All
        BY <2>3, <2>7, ItersType
      <3>2. \A q \in RustPhases : AfterPhase(p) \in After(q) => p = q \/ p \in After(q)
        BY DEF AfterPhase, After, RustPhases
      <3>3. AfterPhase(p) # "spark"
        BY DEF AfterPhase, RustPhases
      <3>. QED
        BY <2>1, <2>3, <2>7, <3>1, <3>2, <3>3
    <2>. QED
      BY <1>7, <2>5, <2>6, <2>7, QueryFrame
  <1>8. CASE SparkStep
    <2>1. /\ UNCHANGED <<args, objects, program, usedArgs, complete>>
          /\ (SameSizes' <=> SameSizes) /\ All' = All /\ pc \in {"jvm", "spark"}
          /\ pc' \in {"spark", "done"} /\ (status' = "ready" => pc = "spark" /\ queries = SparkQueries)
      BY <1>8, <1>t, SparkFrame DEF SameSizes, All, storeVars, compareVars, ScannedInv
    <2>2. status = "none" /\ (status' # "none" => pc' = "done")
      BY <1>8, <2>1, SparkFrame DEF ScannedInv, compareVars
    <2>. SUFFICES ASSUME program = "rust-vs-jvm", complete, SameSizes
                  PROVE  /\ \A q \in RustPhases :
                              pc' \in After(q) \/ (pc' = q /\ queries' > 0) => scanned'[q] = All
                         /\ pc' = "spark" => DOMAIN listed' = 0..(args.files - 1)
                         /\ timed' \subseteq {All}
                         /\ (pc' = "spark" /\ queries' > 0) \/ status' = "ready"
                              => scanned'["jvm"] = All
      BY <2>1, <2>2 DEF ScannedInv
    <2>3. /\ \A q \in RustPhases : scanned[q] = All /\ q # "jvm" /\ pc' # q
          /\ pc = "spark" => DOMAIN listed = 0..(args.files - 1)
          /\ timed \subseteq {All} /\ (pc = "spark" /\ queries > 0 => scanned["jvm"] = All)
      BY <2>1 DEF ScannedInv, After, RustPhases
    <2>4. scanned \in [RustPhases \cup {"jvm"} -> Nat] /\ queries \in Nat /\ (pc = "jvm" => queries = 0)
      BY <1>t DEF TypeInv, ClientTypeOK, IndexInv
    <2>5. CASE pc = "jvm" /\ listed' = objects /\ pc' = "spark" /\ UNCHANGED compareVars
      <3>1. DOMAIN listed' = 0..(args.files - 1)
        BY <2>5, CountsAll
      <3>. QED
        BY <2>2, <2>3, <2>4, <2>5, <3>1 DEF compareVars
    <2>6. CASE /\ pc = "spark" /\ pc' = "spark" /\ queries' = queries + 1
               /\ run_once(RowsOf([g \in DOMAIN listed |-> objects[g]])) /\ UNCHANGED <<listed, status>>
      <3>1. RowsOf([g \in DOMAIN listed |-> objects[g]]) = All
        BY <2>3, <2>6, CountsAll
      <3>2. run_once(All) /\ DOMAIN listed' = 0..(args.files - 1)
        BY <2>3, <2>6, <3>1
      <3>3. CASE queries = 0 /\ scanned' = [scanned EXCEPT !["jvm"] = All] /\ timed' = timed
        BY <2>2, <2>3, <2>4, <2>6, <3>2, <3>3
      <3>4. CASE queries # 0 /\ timed' = timed \cup {All} /\ scanned' = scanned
        BY <2>2, <2>3, <2>4, <2>6, <3>2, <3>4
      <3>. QED
        BY <3>2, <3>3, <3>4 DEF run_once
    <2>7. CASE pc' = "done" /\ UNCHANGED <<listed, queries, scanned, timed>>
      <3>1. SparkQueries > 0
        BY ItersType
      <3>. QED
        BY <2>1, <2>3, <2>7, <3>1
    <2>. QED
      BY <1>8, <2>5, <2>6, <2>7, SparkFrame
  <1>9. CASE Landing
    BY <1>1, <1>9, LandingFrame
  <1>10. CASE Crash \/ StartAgain
    <2>1. queries' = 0 /\ timed' = {} /\ status' = "none"
      BY <1>10, CrashFrame, StartFrame DEF FreshProcess
    <2>2. pc' \in {"killed", "ensure_bucket", "rust-no-cache", "put"}
      BY <1>10, CrashFrame, StartFrame DEF FirstStep, Programs
    <2>. QED
      BY <2>1, <2>2 DEF ScannedInv, After, RustPhases
  <1>11. CASE UNCHANGED vars
    BY <1>1, <1>11 DEF vars, compareVars, datasetVars
  <1>. QED
    BY <1>3, <1>4, <1>5, <1>6, <1>7, <1>8, <1>9, <1>10, <1>11, Steps

\* No engine has counted anything at the start.
LEMMA ScannedInit == Init => ScannedInv
  BY DEF Init, ScannedInv

\* After a run that has finished writing the dataset, and with one size of it,
\* each phase of rust-vs-jvm has counted the whole dataset, and so have all the
\* queries of Spark, the timed ones too.
THEOREM EnginesScanTheDatasetHolds == Spec => []EnginesScanTheDataset
  <1>1. DataInv /\ ScannedInv => EnginesScanTheDataset
    <2>. SUFFICES ASSUME DataInv, ScannedInv, program = "rust-vs-jvm", pc = "done", complete, SameSizes
                  PROVE  /\ \A p \in RustPhases : scanned[p] = All
                         /\ status = "ready" => {scanned["jvm"]} \cup timed = {All}
      BY DEF EnginesScanTheDataset, All
    <2>1. \A p \in RustPhases : "done" \in After(p)
      BY DEF After, RustPhases
    <2>. QED
      BY <2>1 DEF ScannedInv
  <1>. QED
    BY <1>1, DataInvariant, ScannedInit, ScannedStep, PTL DEF Spec

-----------------------------------------------------------------------------
(* Why no program ends for anything but a request that failed.             *)

\* Two rows of the dataset have different values to take a midpoint of.
LEMMA DatasetIsMatched ==
  ASSUME TypeInv, Dataset(objects), DOMAIN objects = 0..(args.files - 1), All > 1
  PROVE  Matched
  <1>. DEFINE F == args.files
              R == args.rows
              T == {objects[g] : g \in DOMAIN objects}
              U == UNION T
  <1>1. F \in Nat /\ R \in Nat /\ F * R > 1
    BY Sizes DEF TypeInv, ClientTypeOK, All
  <1>2. \A g \in 0..(F - 1) : objects[g] = (g * R)..((g + 1) * R - 1) /\ objects[g] \subseteq U
    BY DEF Dataset, Rows
  <1>3. IsFiniteSet(U) /\ Cardinality(U) \in Nat
    <2>. DEFINE h == [g \in DOMAIN objects |-> objects[g]]
    <2>1. h \in Surjection(DOMAIN objects, T)
      BY DEF Surjection
    <2>2. IsFiniteSet(DOMAIN objects) /\ \A s \in T : IsFiniteSet(s)
      BY DEF TypeInv, DirInv, IsDir
    <2>3. IsFiniteSet(T)
      BY <2>1, <2>2, FS_Surjection
    <2>4. IsFiniteSet(U)
      BY <2>2, <2>3, FS_UNION
    <2>. QED
      BY <2>4, FS_CardinalityType
  <1>. HIDE DEF F, R, T, U
  <1>4. F > 0 /\ R > 0 /\ (F > 1 \/ R > 1)
    <2>1. F # 0 /\ R # 0
      BY <1>1
    <2>2. ~(F = 1 /\ R = 1)
      BY <1>1
    <2>. QED
      BY <1>1, <2>1, <2>2
  <1>5. 0 \in 0..(F - 1) /\ objects[0] = (0 * R)..((0 + 1) * R - 1)
    BY <1>1, <1>2, <1>4
  <1>6. 0 \in U
    <2>1. 0 \in objects[0]
      BY <1>1, <1>4, <1>5
    <2>. QED
      BY <1>2, <1>5, <2>1
  <1>7. 1 \in U
    <2>1. CASE R > 1
      <3>1. 1 \in objects[0]
        BY <1>1, <1>5, <2>1
      <3>. QED
        BY <1>2, <1>5, <3>1
    <2>2. CASE R = 1
      <3>1. 1 \in 0..(F - 1) /\ objects[1] = (1 * R)..((1 + 1) * R - 1)
        BY <1>1, <1>2, <1>4, <2>2
      <3>2. 1 \in objects[1]
        BY <2>2, <3>1
      <3>. QED
        BY <1>2, <3>1, <3>2
    <2>. QED
      BY <1>1, <1>4, <2>1, <2>2
  <1>8. Cardinality(U) # 0 /\ Cardinality(U) # 1
    BY <1>3, <1>6, <1>7, FS_EmptySet, FS_Singleton
  <1>9. Cardinality(U) > 1
    BY <1>3, <1>8
  <1>. QED
    BY <1>9 DEF Matched, U, T

\* A PUT of one of these files, all of which are there, changes nothing.
LEMMA DatasetIsSettled ==
  ASSUME TypeInv, Dataset(objects), DOMAIN objects = 0..(args.files - 1),
         \A up \in uploads : up.file < args.files /\ up.content = Rows(up.file)
  PROVE  ~Unsettled
  <1>. SUFFICES ASSUME NEW up \in uploads PROVE Overwrite(objects, up.file, up.content) = objects
    BY DEF Unsettled
  <1>1. up.file \in Nat /\ up.file < args.files /\ args.files \in Nat /\ up.content = Rows(up.file)
    BY Sizes DEF TypeInv, ClientTypeOK, DirInv
  <1>2. up.file \in DOMAIN objects /\ objects[up.file] = up.content
    BY <1>1 DEF Dataset
  <1>3. objects = [g \in DOMAIN objects |-> objects[g]]
    BY DEF TypeInv, DirInv, IsDir
  <1>4. DOMAIN objects \cup {up.file} = DOMAIN objects
    BY <1>2
  <1>5. Overwrite(objects, up.file, up.content) = [g \in DOMAIN objects |-> objects[g]]
    BY <1>2, <1>4 DEF Overwrite
  <1>. QED
    BY <1>3, <1>5

\* No request has failed, the dataset has had one size and has rows to compare,
\* and rust-vs-jvm has only been started when it was there.
Quiet ==
  outages = 0 /\ SameSizes /\ args.files * args.rows > 1 /\ (program = "rust-vs-jvm" => complete)

\* Without a failed request no step ends a program early.
LEMMA QuietStep ==
  ASSUME DataInv, ScannedInv, pc # "failed" \/ ~Quiet, [Next]_vars, Quiet'
  PROVE  pc' # "failed"
  <1>t. TypeInv /\ ProgramInv /\ outages \in Nat /\ SameSizes /\ outages' = 0
    BY SameSizesBefore DEF DataInv, TypeInv, DirInv, Quiet
  <1>1. CASE Crash \/ StartAgain
    BY <1>1, CrashFrame, StartFrame DEF FirstStep, Programs
  <1>2. CASE outages' = outages + 1
    BY <1>2, <1>t
  <1>3. SUFFICES ASSUME ~Crash, ~StartAgain, outages' # outages + 1 PROVE pc' # "failed"
    BY <1>1, <1>2
  <1>4. args'.files = args.files /\ args'.rows = args.rows /\ All \in Nat /\ All > 1 /\ args.files \in Nat
    <2>1. args'.files = args.files /\ args'.rows = args.rows
      BY <1>3, <1>t, SameSizesBefore DEF Quiet
    <2>2. args.files \in Nat /\ args.rows \in Nat
      BY <1>t, Sizes DEF TypeInv, ClientTypeOK
    <2>3. All = args'.files * args'.rows
      BY <2>1 DEF All
    <2>. QED
      BY <2>1, <2>2, <2>3 DEF Quiet, All
  <1>5. args.files > 0
    BY <1>t, <1>4, Sizes DEF All, TypeInv, ClientTypeOK
  <1>6. /\ Dataset(objects) /\ Dataset(cache)
        /\ \A up \in uploads : up.file < args.files /\ up.content = Rows(up.file)
        /\ pc \in Scanning => Dataset(listed) /\ DOMAIN listed = 0..(args.files - 1)
    BY <1>t DEF DataInv, FilesInv
  <1>7. CASE EnsureStep
    <2>1. pc = "listed" => DOMAIN listed # {}
      BY <1>4, <1>5, <1>6 DEF Scanning
    <2>. QED
      BY <1>3, <1>7, <2>1, EnsureFrame DEF Early
  <1>8. CASE WriteStep
    BY <1>3, <1>8, WriteFrame
  <1>9. ASSUME NEW p \in Phases, ScanStep(p) PROVE pc' # "failed"
    <2>1. pc = p /\ pc \in Scanning
      BY <1>9, ScanFrame DEF Scanning
    <2>2. todo # {} => ThroughStore(p, First) = listed[First]
      <3>. SUFFICES ASSUME todo # {} PROVE ThroughStore(p, First) = listed[First]
        OBVIOUS
      <3>1. First \in DOMAIN listed /\ First \in DOMAIN objects
        BY <1>t, FirstListed
      <3>2. listed[First] = Rows(First) /\ objects[First] = Rows(First)
        BY <1>6, <2>1, <3>1 DEF Dataset
      <3>3. First \in DOMAIN cache => cache[First] = Rows(First)
        BY <1>6 DEF Dataset
      <3>. QED
        BY <3>2, <3>3 DEF ThroughStore, Through
    <2>3. NextPhase(p) # "failed" /\ p # "failed"
      BY DEF NextPhase, Phases
    <2>. QED
      BY <1>3, <1>9, <2>2, <2>3, ScanFrame
  <1>10. CASE EndStep
    <2>1. pc = "put" /\ f = args.files => ~Unsettled /\ Matched
      <3>. SUFFICES ASSUME pc = "put", f = args.files PROVE ~Unsettled /\ Matched
        OBVIOUS
      <3>1. 0..(args.files - 1) \subseteq DOMAIN objects
        BY DEF DataInv, StoredInv
      <3>2. \A g \in DOMAIN objects : g \in Nat /\ g < args.files
        BY <1>t, <1>6 DEF Dataset, TypeInv, DirInv, IsDir
      <3>3. \A g \in DOMAIN objects : g \in 0..(args.files - 1)
        BY <1>4, <3>2
      <3>4. DOMAIN objects = 0..(args.files - 1)
        BY <3>1, <3>3
      <3>. QED
        BY <1>t, <1>4, <1>6, <3>4, DatasetIsMatched, DatasetIsSettled
    <2>. QED
      BY <1>3, <1>10, <2>1, EndFrame
  <1>11. ASSUME NEW p \in RustPhases, QueryStep(p) PROVE pc' # "failed"
    <2>1. program = "rust-vs-jvm" /\ UNCHANGED <<program, complete>> /\ pc = p
      BY <1>11, <1>t, QueryFrame DEF ProgramInv
    <2>2. complete
      BY <2>1 DEF Quiet
    <2>3. RowsOf(Queried(p)) = All
      BY <1>t, <2>2, CountsAll
    <2>4. queries > 0 => scanned[p] = All
      BY <1>t, <2>1, <2>2 DEF ScannedInv
    <2>5. ~Unstable(p, RowsOf(Queried(p)))
      BY <2>3, <2>4 DEF Unstable
    <2>6. ~Outdated(cache)
      BY <1>6 DEF Outdated, Dataset
    <2>7. queries = Queries(p) => AfterPhase(p) # "failed"
      <3>1. queries = Queries(p) => scanned[p] # 0
        BY <1>4, <2>4, ItersType
      <3>. QED
        BY <3>1 DEF AfterPhase, RustPhases
    <2>8. p # "failed"
      BY DEF RustPhases
    <2>. QED
      BY <1>3, <1>11, <2>5, <2>6, <2>7, <2>8, QueryFrame
  <1>12. CASE SparkStep
    BY <1>12, SparkFrame
  <1>13. CASE Landing \/ UNCHANGED vars
    <2>1. UNCHANGED <<pc, program, complete>> /\ outages = 0
      BY <1>13, <1>t, LandingFrame DEF vars, storeVars
    <2>2. Quiet
      BY <1>t, <1>4, <2>1 DEF Quiet, All
    <2>. QED
      BY <2>1, <2>2
  <1>. QED
    BY <1>3, <1>7, <1>8, <1>9, <1>10, <1>11, <1>12, <1>13, Steps

\* With one size of the dataset, something to compare in it, and rust-vs-jvm
\* started only when it is there, no program ends for any reason but a request
\* that failed, whatever PUTs of killed runs land under its scans.
THEOREM OnlyFaultsFailHolds == Spec => []OnlyFaultsFail
  <1>1. OnlyFaultsFail <=> (Quiet => pc # "failed")
    BY DEF OnlyFaultsFail, Quiet
  <1>2. Init => OnlyFaultsFail
    BY DEF Init, FirstStep, Programs, OnlyFaultsFail
  <1>3. DataInv /\ ScannedInv /\ OnlyFaultsFail /\ [Next]_vars => OnlyFaultsFail'
    BY <1>1, QuietStep DEF OnlyFaultsFail, Quiet
  <1>. QED
    BY <1>2, <1>3, DataInvariant, ScannedInit, ScannedStep, PTL DEF Spec

-----------------------------------------------------------------------------
(* The figures of Spark.                                                   *)

\* A report of Spark's has a timed query at least.
ReadyInv == status = "ready" => queries = SparkQueries

\* Every step keeps what a result of Spark rests on.
LEMMA ReadyStep == ScannedInv /\ ReadyInv /\ [Next]_vars => ReadyInv'
  <1>. SUFFICES ASSUME ScannedInv, ReadyInv, [Next]_vars PROVE ReadyInv'
    OBVIOUS
  <1>1. CASE UNCHANGED <<queries, status>>
    BY <1>1 DEF ReadyInv
  <1>2. CASE pc # "done" /\ status' = status
    BY <1>2 DEF ReadyInv, ScannedInv
  <1>3. CASE (EnsureStep \/ WriteStep) /\ Others
    <2>1. pc # "done"
      BY <1>3, EnsureFrame, WriteFrame DEF Early
    <2>. QED
      BY <1>2, <1>3, <2>1 DEF Others, compareVars
  <1>4. ASSUME NEW p \in Phases, ScanStep(p), Others PROVE ReadyInv'
    BY <1>2, <1>4, ScanFrame DEF Others, compareVars, Phases
  <1>5. CASE EndStep
    BY <1>2, <1>5, EndFrame
  <1>6. ASSUME NEW p \in RustPhases, QueryStep(p) PROVE ReadyInv'
    BY <1>2, <1>6, QueryFrame DEF RustPhases
  <1>7. CASE SparkStep
    <2>1. /\ status' = "ready" => status = "ready" \/ (queries' = queries /\ queries = SparkQueries)
          /\ pc # "done"
      BY <1>7, SparkFrame DEF compareVars
    <2>. QED
      BY <2>1 DEF ReadyInv, ScannedInv, SparkQueries
  <1>8. CASE Landing
    BY <1>1, <1>8, LandingFrame
  <1>9. CASE Crash \/ StartAgain
    BY <1>9, CrashFrame, StartFrame DEF FreshProcess, ReadyInv
  <1>10. CASE UNCHANGED vars
    BY <1>1, <1>10 DEF vars, compareVars
  <1>. QED
    BY <1>3, <1>4, <1>5, <1>6, <1>7, <1>8, <1>9, <1>10, Steps

\* Whatever the durations of the timed queries were, the median and the p95 of
\* Spark are no worse than the Rust phases would get for the same durations.
THEOREM JvmIsBestCaseHolds == Spec => []JvmIsBestCase
  <1>1. ReadyInv => JvmIsBestCase
    <2>. SUFFICES ASSUME ReadyInv, status = "ready",
                         NEW durs \in [1..(queries - 1) -> Durations]
                  PROVE  /\ TwiceMedian(durs) <= 2 * percentile(durs, 50)
                         /\ pct(durs, 95) <= percentile(durs, 95)
      BY DEF JvmIsBestCase
    <2>. DEFINE n == queries - 1
    <2>1. n \in Nat \ {0}
      <3>1. queries = 1 + Max1(JvmIters)
        BY DEF ReadyInv, SparkQueries
      <3>2. Max1(JvmIters) \in Nat \ {0}
        BY Sizes DEF Max1
      <3>. QED
        BY <3>1, <3>2
    <2>2. durs \in [1..n -> Nat]
      BY CompareAssumption
    <2>. HIDE DEF n
    <2>3. 95 \in 0..100
      OBVIOUS
    <2>. QED
      BY <2>1, <2>2, <2>3, SparkFiguresAreNoHigher, Zenon
  <1>2. Init => ReadyInv
    BY DEF Init, ReadyInv
  <1>. QED
    BY <1>1, <1>2, DataInvariant, ScannedInit, ScannedStep, ReadyStep, PTL DEF Spec
=============================================================================
