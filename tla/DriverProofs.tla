----------------------------- MODULE DriverProofs -----------------------------
(***************************************************************************)
(* What holds of the suite driver for every set of command lines and for   *)
(* any number of spawn failures, kills and services that go down.          *)
(***************************************************************************)
EXTENDS Driver, TLAPS

Outputs == Seq({"report", "object", "line"})

\* The registry: five benches, in the order in which they depend on each other.
LEMMA Registry ==
  /\ Len(BENCHES) = 5 /\ DOMAIN BENCHES = 1..5
  /\ BENCHES[1] = "commit" /\ BENCHES[2] = "write-data" /\ BENCHES[3] = "cache-scan"
  /\ BENCHES[4] = "rust-vs-jvm" /\ BENCHES[5] = "read-write"
  /\ \A j \in 1..5 : BENCHES[j] \in Benches /\ BENCHES[j] # "all"
  BY DEF BENCHES, Benches

\* How a child can end: a cache-scan that does not fail leaves a dataset, and
\* only rust-vs-jvm fails for want of one, when there is none.
LEMMA EndsType ==
  ASSUME TypeOK, NEW b \in Benches, NEW end \in ChildEnds(b)
  PROVE  /\ end.why \in Reasons /\ end.out \in Outputs
         /\ end.bucket \in BOOLEAN /\ end.dataset \in BOOLEAN
         /\ dataset => end.dataset
         /\ end.why = "none" /\ b = "cache-scan" => end.dataset
         /\ end.why = "no_dataset" => b = "rust-vs-jvm" /\ ~dataset
  <1>1. ASSUME NEW why \in Reasons \ {"none"}, end = Fails(why)
        PROVE  /\ end.why = why /\ end.why \in Reasons /\ end.out \in Outputs
               /\ end.bucket \in BOOLEAN /\ end.dataset = dataset /\ end.dataset \in BOOLEAN
    BY <1>1 DEF Fails, TypeOK, Outputs
  <1>2. CASE end = Fails("args") \/ end = Fails("service") \/ end = Fails("bucket")
             \/ end = Fails("no_table")
    BY <1>1, <1>2 DEF Reasons
  <1>3. CASE end = Fails("no_dataset") /\ b = "rust-vs-jvm" /\ ~dataset
    BY <1>1, <1>3 DEF Reasons
  <1>4. CASE end = Reports /\ b # "cache-scan"
    BY <1>4 DEF Reports, TypeOK, Outputs, Reasons
  <1>5. CASE end = [Reports EXCEPT !.dataset = TRUE]
    BY <1>5 DEF Reports, TypeOK, Outputs, Reasons
  <1>6. CASE end \in CreatedBucket
    <2>1. /\ aws \in {"object", "line"} /\ end.out = <<aws, "report">>
          /\ end.why = "none" /\ end.bucket = TRUE /\ end.dataset = TRUE
      BY <1>6 DEF CreatedBucket, TypeOK
    <2>2. end.out \in Outputs
      BY <2>1 DEF Outputs
    <2>. QED
      BY <2>1, <2>2 DEF Reasons
  <1>7. b \in {"commit", "write-data", "cache-scan", "rust-vs-jvm", "read-write"}
    BY Registry DEF Benches
  <1>8. CASE b = "commit"
    BY <1>2, <1>4, <1>8 DEF ChildEnds, NeedsService, CommitEnds
  <1>9. CASE b = "write-data" \/ b = "read-write"
    BY <1>2, <1>4, <1>9 DEF ChildEnds, NeedsService, NeedsBucket
  <1>10. CASE b = "cache-scan"
    BY <1>2, <1>5, <1>6, <1>10 DEF ChildEnds, NeedsService, CacheScanEnds
  <1>11. CASE b = "rust-vs-jvm"
    BY <1>2, <1>3, <1>4, <1>11 DEF ChildEnds, NeedsService, NeedsBucket, RustVsJvmEnds
  <1>. QED
    BY <1>7, <1>8, <1>9, <1>10, <1>11

\* How many outcomes there are when the driver turns to BENCHES[k].
Before == IF name = "all" THEN k - 1 ELSE 0

\* The outcomes are those of the registry's first benchmarks, or of the one
\* that was named.
OrderInv ==
  /\ pc = "cmd_run" => k = 1
  /\ pc \in {"cmd_run", "run_one", "child"} => Len(results) = Before
  /\ pc = "outcome" => Len(results) = Before + 1
  /\ name = "all" => \A j \in DOMAIN results : results[j].bench = BENCHES[j]

\* A cache-scan that ran has left its dataset, which nobody removes, and only
\* rust-vs-jvm asks for one.
DatasetInv ==
  \A j \in DOMAIN results :
    /\ results[j].bench = "cache-scan" /\ results[j].ran => dataset
    /\ results[j].why = "no_dataset" => results[j].bench = "rust-vs-jvm"

IInv == TypeOK /\ OrderInv /\ DatasetInv /\ SuccessMeansAReport /\ CompareFindsDataset

\* An outcome that is added, whichever way run_one has come to it.
LEMMA OutcomeStep ==
  ASSUME IInv, pc \in {"run_one", "child"}, NEW why \in Reasons, NEW out \in Outputs, Outcome(why, out),
         dataset' \in BOOLEAN, dataset => dataset',
         why = "none" /\ BENCHES[k] = "cache-scan" => dataset',
         why = "no_dataset" => BENCHES[k] = "rust-vs-jvm" /\ ~dataset,
         up' \in SUBSET Services, bucket' \in BOOLEAN, aws' = aws, trouble' \in Nat
  PROVE  IInv'
  <1>. DEFINE o == [bench |-> BENCHES[k], ran |-> why = "none", why |-> why, out |-> out]
              Outcomes == [bench : Benches, ran : BOOLEAN, why : Reasons, out : Outputs]
  <1>1. /\ results' = Append(results, o) /\ pc' = "outcome"
        /\ UNCHANGED <<name, passthrough, k, code>>
    BY DEF Outcome
  <1>2. /\ o.bench = BENCHES[k] /\ (o.ran <=> why = "none") /\ o.why = why
    OBVIOUS
  <1>3. k \in 1..5 /\ results \in Seq(Outcomes) /\ o \in Outcomes
    BY Registry DEF IInv, TypeOK, Outputs
  <1>. HIDE DEF o
  <1>4. /\ Len(results') = Len(results) + 1 /\ DOMAIN results' = 1..(Len(results) + 1)
        /\ DOMAIN results = 1..Len(results) /\ Len(results) \in Nat
        /\ \A j \in DOMAIN results : results'[j] = results[j]
        /\ results'[Len(results) + 1] = o /\ results' \in Seq(Outcomes)
    BY <1>1, <1>3
  <1>5. TypeOK'
    BY <1>1, <1>4 DEF IInv, TypeOK, Outputs
  <1>6. Len(results) = Before /\ (name = "all" => Len(results) + 1 = k)
    BY <1>3 DEF IInv, OrderInv, Before
  <1>7. OrderInv'
    BY <1>1, <1>2, <1>4, <1>6 DEF IInv, OrderInv, Before
  <1>8. DatasetInv'
    BY <1>2, <1>4, Registry DEF IInv, DatasetInv
  <1>9. SuccessMeansAReport'
    BY <1>1 DEF SuccessMeansAReport
  <1>10. CompareFindsDataset'
    <2>1. ASSUME NEW j \in DOMAIN results', NEW m \in DOMAIN results',
                 results'[j].bench = "cache-scan", results'[j].ran, results'[m].why = "no_dataset"
          PROVE  FALSE
      <3>1. CASE j \in DOMAIN results /\ m \in DOMAIN results
        BY <2>1, <3>1, <1>4 DEF IInv, CompareFindsDataset
      <3>2. CASE j \in DOMAIN results /\ m = Len(results) + 1
        BY <2>1, <3>2, <1>2, <1>4 DEF IInv, DatasetInv
      <3>3. CASE j = Len(results) + 1 /\ m \in DOMAIN results
        <4>1. BENCHES[k] = "cache-scan" /\ results[m].bench = "rust-vs-jvm"
          BY <2>1, <3>3, <1>2, <1>4 DEF IInv, DatasetInv
        <4>2. name = "all" /\ results[m].bench = BENCHES[m]
          BY <3>3, <1>4, <1>6 DEF IInv, OrderInv, Before
        <4>3. k = 3 /\ m = 4
          BY <4>1, <4>2, <3>3, <1>3, <1>4, <1>6, Registry
        <4>. QED
          BY <4>2, <4>3, <3>3, <1>4, <1>6
      <3>4. CASE j = Len(results) + 1 /\ m = Len(results) + 1
        BY <2>1, <3>4, <1>2, <1>4, Registry
      <3>. QED
        BY <3>1, <3>2, <3>3, <3>4, <1>4
    <2>. QED
      BY <2>1 DEF CompareFindsDataset
  <1>. QED
    BY <1>5, <1>7, <1>8, <1>9, <1>10 DEF IInv

\* The invariant is kept by every step of the driver and of its world.
LEMMA DriverStep == IInv /\ [Next]_vars => IInv'
  <1>. SUFFICES ASSUME IInv, [Next]_vars PROVE IInv'
    OBVIOUS
  <1>t. /\ up \in SUBSET Services /\ bucket \in BOOLEAN /\ dataset \in BOOLEAN /\ trouble \in Nat
        /\ k \in 1..5 /\ BENCHES[k] \in Benches
    BY Registry DEF IInv, TypeOK
  <1>1. CASE cmd_run
    <2>1. /\ pc = "cmd_run" /\ UNCHANGED <<name, passthrough, results, worldVars>>
          /\ k' \in 1..5 /\ (name = "all" => k' = k)
          /\ \/ pc' = "run_one" /\ code' = code
             \/ name # "all" /\ pc' = "exit" /\ code' = "FAILURE"
      BY <1>1, <1>t, Registry DEF cmd_run, find_bench
    <2>2. Len(results) = 0
      BY <2>1 DEF IInv, OrderInv, Before
    <2>3. DOMAIN results = {}
      BY <2>2 DEF IInv, TypeOK
    <2>4. TypeOK'
      BY <2>1, Registry DEF IInv, TypeOK, worldVars
    <2>5. OrderInv'
      BY <2>1, <2>2, <2>3 DEF IInv, OrderInv, Before
    <2>6. DatasetInv' /\ SuccessMeansAReport' /\ CompareFindsDataset'
      BY <2>1, <2>3 DEF DatasetInv, SuccessMeansAReport, CompareFindsDataset
    <2>. QED
      BY <2>4, <2>5, <2>6 DEF IInv
  <1>2. CASE spawn
    <2>1. pc = "run_one" /\ pc' = "child" /\ UNCHANGED <<name, passthrough, k, results, code, worldVars>>
      BY <1>2 DEF spawn
    <2>. QED
      BY <2>1 DEF IInv, TypeOK, OrderInv, Before, DatasetInv, SuccessMeansAReport, CompareFindsDataset,
        worldVars
  <1>3. CASE spawn_fails
    <2>1. << >> \in Outputs /\ "spawn" \in Reasons
      BY DEF Outputs, Reasons
    <2>. QED
      BY <1>3, <1>t, <2>1, OutcomeStep DEF spawn_fails
  <1>4. CASE child_exits
    <2>1. PICK end \in ChildEnds(BENCHES[k]) :
            /\ bucket' = end.bucket /\ dataset' = end.dataset
            /\ Outcome(IF end.why = "none" /\ ~parse_report(end.out) THEN "no_report" ELSE end.why,
                       end.out)
      BY <1>4 DEF child_exits
    <2>2. PICK why \in Reasons :
            /\ Outcome(why, end.out) /\ end.out \in Outputs
            /\ why = end.why \/ why = "no_report"
      BY <2>1, <1>t, EndsType DEF IInv, Reasons
    <2>3. /\ bucket' \in BOOLEAN /\ dataset' \in BOOLEAN /\ (dataset => dataset')
          /\ why = "none" /\ BENCHES[k] = "cache-scan" => dataset'
          /\ why = "no_dataset" => BENCHES[k] = "rust-vs-jvm" /\ ~dataset
      BY <2>1, <2>2, <1>t, EndsType DEF IInv
    <2>4. pc = "child" /\ UNCHANGED <<up, aws, trouble>>
      BY <1>4 DEF child_exits
    <2>. QED
      BY <1>t, <2>2, <2>3, <2>4, OutcomeStep
  <1>5. CASE child_killed
    <2>1. << >> \in Outputs /\ "killed" \in Reasons
      BY DEF Outputs, Reasons
    <2>2. dataset' \in BOOLEAN /\ (dataset => dataset')
      BY <1>5, <1>t DEF child_killed
    <2>. QED
      BY <1>5, <1>t, <2>1, <2>2, OutcomeStep DEF child_killed
  <1>6. CASE next_bench
    <2>1. /\ pc = "outcome" /\ name = "all" /\ k < 5 /\ k' = k + 1 /\ pc' = "run_one"
          /\ UNCHANGED <<name, passthrough, results, code, worldVars>>
      BY <1>6, Registry DEF next_bench
    <2>2. TypeOK'
      BY <2>1, <1>t, Registry DEF IInv, TypeOK, worldVars
    <2>3. OrderInv'
      BY <2>1, <1>t DEF IInv, OrderInv, Before
    <2>. QED
      BY <2>1, <2>2, <2>3 DEF IInv, DatasetInv, SuccessMeansAReport, CompareFindsDataset, worldVars
  <1>7. CASE run_all_ends
    <2>1. /\ pc' = "exit" /\ code' = run_all_code
          /\ UNCHANGED <<name, passthrough, k, results, worldVars>>
      BY <1>7 DEF run_all_ends
    <2>2. code' = "SUCCESS" <=> \E j \in DOMAIN results : results[j].ran
      BY <2>1 DEF run_all_code, Failed
    <2>3. code' \in {"SUCCESS", "FAILURE"}
      BY <2>1 DEF run_all_code
    <2>. QED
      BY <2>1, <2>2, <2>3 DEF IInv, TypeOK, OrderInv, Before, DatasetInv, SuccessMeansAReport,
        CompareFindsDataset, worldVars
  <1>8. CASE run_single_ends
    <2>1. /\ pc = "outcome" /\ name # "all" /\ pc' = "exit"
          /\ code' = IF results[1].ran THEN "SUCCESS" ELSE "FAILURE"
          /\ UNCHANGED <<name, passthrough, k, results, worldVars>>
      BY <1>8 DEF run_single_ends
    <2>2. Len(results) = 1
      BY <2>1 DEF IInv, OrderInv, Before
    <2>3. DOMAIN results = {1}
      BY <2>2 DEF IInv, TypeOK
    <2>. QED
      BY <2>1, <2>3 DEF IInv, TypeOK, OrderInv, Before, DatasetInv, SuccessMeansAReport,
        CompareFindsDataset, worldVars
  <1>9. CASE ServiceGoesDown \/ ServiceComesUp
    <2>1. /\ UNCHANGED driverVars /\ UNCHANGED <<bucket, dataset, aws>>
          /\ up' \in SUBSET Services /\ trouble' \in Nat
      BY <1>9, <1>t DEF ServiceGoesDown, ServiceComesUp
    <2>. QED
      BY <2>1 DEF IInv, TypeOK, OrderInv, Before, DatasetInv, SuccessMeansAReport,
        CompareFindsDataset, driverVars
  <1>10. CASE UNCHANGED vars
    BY <1>10 DEF IInv, TypeOK, OrderInv, Before, DatasetInv, SuccessMeansAReport,
      CompareFindsDataset, vars, driverVars, worldVars
  <1>. QED
    BY <1>1, <1>2, <1>3, <1>4, <1>5, <1>6, <1>7, <1>8, <1>9, <1>10 DEF Next, Terminated

\* The invariant holds before the driver has looked at its arguments.
LEMMA DriverInit == Init => IInv
  <1>. SUFFICES ASSUME Init PROVE IInv
    OBVIOUS
  <1>1. results = << >> /\ pc = "cmd_run" /\ k = 1 /\ DOMAIN results = {} /\ Len(results) = 0
    BY DEF Init
  <1>2. TypeOK
    BY <1>1, DriverAssumption, Registry DEF Init, TypeOK
  <1>. QED
    BY <1>1, <1>2 DEF IInv, OrderInv, Before, DatasetInv, SuccessMeansAReport, CompareFindsDataset

\* Every variable keeps its type.
THEOREM TypeCorrect == Spec => []TypeOK
  BY DriverInit, DriverStep, PTL DEF Spec, IInv

\* The exit code is SUCCESS exactly if some bench was run and its report
\* captured, whatever the others did.
THEOREM SuccessMeansAReportHolds == Spec => []SuccessMeansAReport
  BY DriverInit, DriverStep, PTL DEF Spec, IInv

\* In `run all`, rust-vs-jvm never fails for want of the dataset after a
\* cache-scan that ran.
THEOREM CompareFindsDatasetHolds == Spec => []CompareFindsDataset
  BY DriverInit, DriverStep, PTL DEF Spec, IInv
-----------------------------------------------------------------------------
(* One set of flags for all.                                               *)

\* In a run all in which nothing has gone wrong, a bench that cannot take the
\* flags has refused them, and the run has an outcome for every bench when it
\* ends.
RefusalInv ==
  /\ name = "all" /\ trouble = 0 =>
       \A j \in DOMAIN results : ArgsParse(results[j].bench) \/ results[j].why = "args"
  /\ pc = "exit" /\ name = "all" => Len(results) = Len(BENCHES)

\* An outcome is added after the others, when the bench has not refused the
\* flags that it cannot take only if something went wrong.
LEMMA RefusalOutcome ==
  ASSUME IInv, RefusalInv, NEW why \in Reasons, NEW out \in Outputs, Outcome(why, out),
         trouble' # 0 \/ (trouble = 0 /\ (ArgsParse(BENCHES[k]) \/ why = "args"))
  PROVE  RefusalInv'
  <1>. DEFINE o == [bench |-> BENCHES[k], ran |-> why = "none", why |-> why, out |-> out]
              Outcomes == [bench : Benches, ran : BOOLEAN, why : Reasons, out : Outputs]
  <1>1. /\ results' = Append(results, o) /\ pc' = "outcome"
        /\ UNCHANGED <<name, passthrough>>
    BY DEF Outcome
  <1>2. o.bench = BENCHES[k] /\ o.why = why
    OBVIOUS
  <1>3. results \in Seq(Outcomes) /\ o \in Outcomes
    BY Registry DEF IInv, TypeOK, Outputs
  <1>. HIDE DEF o
  <1>4. /\ DOMAIN results' = 1..(Len(results) + 1) /\ DOMAIN results = 1..Len(results)
        /\ Len(results) \in Nat
        /\ \A j \in DOMAIN results : results'[j] = results[j]
        /\ results'[Len(results) + 1] = o
    BY <1>1, <1>3
  <1>5. ASSUME name = "all", trouble' = 0, NEW j \in DOMAIN results'
        PROVE  ArgsParse(results'[j].bench) \/ results'[j].why = "args"
    <2>1. CASE j \in DOMAIN results
      BY <1>4, <1>5, <2>1 DEF RefusalInv
    <2>2. CASE j = Len(results) + 1
      BY <1>2, <1>4, <1>5, <2>2
    <2>. QED
      BY <1>4, <2>1, <2>2
  <1>. QED
    BY <1>1, <1>5 DEF RefusalInv, ArgsParse

\* Every step keeps it: trouble never goes away, and a child that cannot take
\* its flags has one way to end.
LEMMA RefusalStep == IInv /\ RefusalInv /\ [Next]_vars => RefusalInv'
  <1>. SUFFICES ASSUME IInv, RefusalInv, [Next]_vars PROVE RefusalInv'
    OBVIOUS
  <1>t. trouble \in Nat /\ k \in 1..5 /\ BENCHES[k] \in Benches
    BY Registry DEF IInv, TypeOK
  <1>k. ASSUME UNCHANGED <<name, passthrough, results>>, trouble' = 0 => trouble = 0,
               pc' = "exit" /\ name = "all" => Len(results) = Len(BENCHES)
        PROVE  RefusalInv'
    BY <1>k DEF RefusalInv, ArgsParse
  <1>1. CASE cmd_run \/ spawn \/ next_bench \/ run_single_ends
    <2>1. /\ UNCHANGED <<name, passthrough, results, trouble>>
          /\ pc' = "exit" => name # "all"
      BY <1>1 DEF cmd_run, spawn, next_bench, run_single_ends, worldVars
    <2>. QED
      BY <1>k, <2>1
  <1>2. CASE run_all_ends
    <2>1. Len(results) = Len(BENCHES)
      BY <1>2, Registry DEF run_all_ends, IInv, OrderInv, Before
    <2>. QED
      BY <1>2, <1>k, <2>1 DEF run_all_ends, worldVars
  <1>3. CASE spawn_fails \/ child_killed
    <2>1. trouble' # 0
      <3>1. trouble' = trouble + 1
        BY <1>3, Zenon DEF spawn_fails, child_killed
      <3>. QED
        BY <1>t, <3>1
    <2>2. Outcome("spawn", << >>) \/ Outcome("killed", << >>)
      BY <1>3 DEF spawn_fails, child_killed
    <2>3. << >> \in Outputs /\ "spawn" \in Reasons /\ "killed" \in Reasons
      BY DEF Outputs, Reasons
    <2>. QED
      BY <2>1, <2>2, <2>3, RefusalOutcome
  <1>4. CASE child_exits
    <2>1. PICK end \in ChildEnds(BENCHES[k]) :
            Outcome(IF end.why = "none" /\ ~parse_report(end.out) THEN "no_report" ELSE end.why,
                    end.out)
      BY <1>4 DEF child_exits
    <2>2. end.why \in Reasons /\ end.out \in Outputs
      BY <2>1, <1>t, EndsType DEF IInv
    <2>3. ArgsParse(BENCHES[k]) \/ end.why = "args"
      BY <2>1 DEF ChildEnds, Fails
    <2>4. PICK why \in Reasons : Outcome(why, end.out) /\ (ArgsParse(BENCHES[k]) \/ why = "args")
      <3>1. CASE end.why = "none"
        BY <2>1, <2>2, <2>3, <3>1 DEF Reasons
      <3>2. CASE end.why # "none"
        BY <2>1, <2>2, <2>3, <3>2
      <3>. QED
        BY <3>1, <3>2
    <2>5. trouble' = trouble
      BY <1>4 DEF child_exits
    <2>. QED
      BY <2>2, <2>4, <2>5, RefusalOutcome
  <1>5. CASE ServiceGoesDown \/ ServiceComesUp
    <2>1. UNCHANGED driverVars /\ (trouble' = 0 => trouble = 0)
      BY <1>5, <1>t DEF ServiceGoesDown, ServiceComesUp
    <2>. QED
      BY <1>k, <2>1 DEF driverVars, RefusalInv
  <1>6. CASE UNCHANGED vars
    BY <1>k, <1>6 DEF vars, driverVars, worldVars, RefusalInv
  <1>. QED
    BY <1>1, <1>2, <1>3, <1>4, <1>5, <1>6 DEF Next, Terminated

\* Whatever flags a run all is given, and whatever services are up: if nothing
\* goes wrong on the way, it ends with a bench that has refused the flags.
THEOREM RunAllMeetsARefusalHolds == Spec => []RunAllMeetsARefusal
  <1>1. Init => RefusalInv
    BY DEF Init, RefusalInv
  <1>2. IInv /\ RefusalInv => RunAllMeetsARefusal
    <2>. SUFFICES ASSUME IInv, RefusalInv, pc = "exit", name = "all", trouble = 0
                  PROVE  \E j \in DOMAIN results : results[j].why = "args"
      BY DEF RunAllMeetsARefusal
    <2>1. DOMAIN results = 1..5
      BY Registry DEF RefusalInv, IInv, TypeOK
    <2>2. results[1].bench = "commit" /\ results[3].bench = "cache-scan"
      BY <2>1, Registry DEF IInv, OrderInv
    <2>3. ~ArgsParse("commit") \/ ~ArgsParse("cache-scan")
      BY DEF ArgsParse, Requires, Accepts
    <2>. QED
      BY <2>1, <2>2, <2>3 DEF RefusalInv
  <1>. QED
    BY <1>1, <1>2, DriverInit, DriverStep, RefusalStep, PTL DEF Spec
=============================================================================
