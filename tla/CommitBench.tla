----------------------------- MODULE CommitBench -----------------------------
(***************************************************************************)
(* The commit-path benchmark, crates/commit/src/main.rs: one process that  *)
(* prepares a table, warms it up, measures Iterations commits in series    *)
(* and then lets Concurrency writers commit until a deadline, against the  *)
(* catalog of IcebergCatalog.                                              *)
(*                                                                         *)
(* A call of Catalog::commit is the record [run, phase, w, n]: n is the    *)
(* counter it passes, which is also all that its Idempotency-Key holds     *)
(* besides the table's uuid.                                               *)
(*                                                                         *)
(* Bounds: MaxPerWriter, the commits a writer has the time to start before *)
(* the deadline, and MaxRuns, how often the program is started on the same *)
(* table (every run but the last may be killed at any point).              *)
(***************************************************************************)
EXTENDS IcebergCatalog

CONSTANTS Create, Warmup, Iterations, Concurrency, Idempotency,
          MaxPerWriter, MaxRuns

\* A definition that no action uses is a plausible bug in the definition right
\* after it, which the mutants of PROJECT.json put in its place.

\* The literals of the source, and the sizes below which they keep the
\* counters of the phases and of the writers apart.
WarmupBase == 1000000
ShortStride == 1
WriterStride == 10000000

ASSUME BenchAssumption ==
  /\ Create \in BOOLEAN
  /\ Idempotency \in BOOLEAN
  /\ Warmup \in Nat
  /\ Iterations \in Nat /\ Iterations <= WarmupBase
  /\ Concurrency \in Nat
  /\ MaxPerWriter \in Nat /\ MaxPerWriter < WarmupBase
  /\ MaxRuns \in Nat \ {0}

VARIABLES
  run,       \* which start of the program this is
  pc,        \* where main() is
  i,         \* the loop index of the warmup and of the sequential phase
  samples,   \* lat_ms.len()
  expired,   \* Instant::now() >= deadline
  wpc,       \* where each writer task is
  n,         \* each writer task's n
  ok, conflict,
  report,    \* the last published report
  counted,   \* history: the calls of this run that ok counts
  late       \* history: the calls of this run issued after the deadline

clientVars == <<run, pc, i, samples, expired, wpc, n, ok, conflict, report, counted, late>>
vars == <<catalogVars, clientVars>>

Writers == 0..(Concurrency - 1)

Phases == {"warmup", "sequential", "concurrent"}
Calls == [run : 1..MaxRuns, phase : Phases, w : Nat, n : Nat]

Start == IF Create THEN "create_namespace" ELSE "load_table_uuid"

CounterBelow(w) == (w - 1) * WriterStride

\* let mut n = w * 10_000_000
FirstCounter(w) == w * WriterStride

Exited == {"killed", "failed", "done"}

TypeOK ==
  /\ CatalogTypeOK(Calls, Nat)
  /\ run \in 1..MaxRuns
  /\ pc \in {"create_namespace", "create_table", "load_table_uuid", "warmup",
             "sequential", "concurrent"} \cup Exited
  /\ i \in Nat
  /\ samples \in Nat
  /\ expired \in BOOLEAN
  /\ wpc \in [Writers -> {"check", "call", "wait", "done"}]
  /\ n \in [Writers -> Nat]
  /\ ok \in Nat
  /\ conflict \in Nat
  /\ report \in [samples : Nat, ok : Nat, conflict : Nat]
  /\ counted \in SUBSET Calls
  /\ late \in SUBSET Calls

NoReport == [samples |-> 0, ok |-> 0, conflict |-> 0]

Init ==
  /\ CatalogInit
  /\ run = 1
  /\ pc = Start
  /\ i = 0
  /\ samples = 0
  /\ expired = FALSE
  /\ wpc = [w \in Writers |-> "check"]
  /\ n = [w \in Writers |-> FirstCounter(w)]
  /\ ok = 0
  /\ conflict = 0
  /\ report = NoReport
  /\ counted = {}
  /\ late = {}

-----------------------------------------------------------------------------
(* Catalog::commit                                                         *)

NoKey(counter) == {}

Key(counter) == IF Idempotency THEN {counter} ELSE {}

Call(phase, w, counter) == [run |-> run, phase |-> phase, w |-> w, n |-> counter]

commit(call) == Send(call, Key(call.n))

-----------------------------------------------------------------------------
(* main(): the table.  A failed request may have been carried out or not.  *)

Rank(c) == CASE c = "nothing" -> 0 [] c = "namespace" -> 1 [] c = "table" -> 2

tableVars == <<log, recorded, requests, reading, open, answers>>
measureVars == <<run, i, samples, expired, wpc, n, ok, conflict, report, counted, late>>

ExistsIsAnError(what, after) ==
  IF Rank(created) < Rank(what)
  THEN created' = what /\ pc' = after /\ UNCHANGED faults
  ELSE pc' = "failed" /\ UNCHANGED <<created, faults>>

\* POST creating what: 2xx, or 409 when it exists, are both fine; anything
\* else ends the program, whether or not the catalog carried the request out.
CreateRequest(what, after) ==
  LET result == IF Rank(created) < Rank(what) THEN what ELSE created
  IN \/ /\ created' = result
        /\ pc' = after
        /\ UNCHANGED faults
     \/ /\ faults < MaxFaults
        /\ faults' = faults + 1
        /\ created' \in {created, result}
        /\ pc' = "failed"

create_namespace ==
  /\ pc = "create_namespace"
  /\ CreateRequest("namespace", "create_table")
  /\ UNCHANGED <<tableVars, measureVars>>

create_table ==
  /\ pc = "create_table"
  /\ CreateRequest("table", "load_table_uuid")
  /\ UNCHANGED <<tableVars, measureVars>>

load_table_uuid ==
  /\ pc = "load_table_uuid"
  /\ \/ created = "table" /\ pc' = "warmup" /\ UNCHANGED faults
     \/ created # "table" /\ pc' = "failed" /\ UNCHANGED faults
     \/ faults < MaxFaults /\ faults' = faults + 1 /\ pc' = "failed"
  /\ UNCHANGED <<created, tableVars, measureVars>>

-----------------------------------------------------------------------------
(* main(): the warmup and the sequential phase.  Both loops drop the bool  *)
(* that commit returns, and leave the program on its Err.                  *)

WarmupCall == Call("warmup", 0, WarmupBase + i)
SequentialCall == Call("sequential", 0, i)

StartLoopCall(phase, bound, call) ==
  /\ pc = phase
  /\ i < bound
  /\ ~Awaiting(call)
  /\ commit(call)
  /\ UNCHANGED clientVars

WarmupCommit == StartLoopCall("warmup", Warmup, WarmupCall)

WarmupReturns ==
  /\ pc = "warmup"
  /\ \/ /\ \E s \in {"2xx", "409"} : Receive(WarmupCall, s)
        /\ i' = i + 1
        /\ UNCHANGED pc
     \/ /\ Receive(WarmupCall, "error")
        /\ pc' = "failed"
        /\ UNCHANGED i
  /\ UNCHANGED <<run, samples, expired, wpc, n, ok, conflict, report, counted, late>>

WarmupDone ==
  /\ pc = "warmup"
  /\ i = Warmup
  /\ pc' = "sequential"
  /\ i' = 0
  /\ UNCHANGED <<catalogVars, run, samples, expired, wpc, n, ok, conflict, report, counted, late>>

SequentialCommit == StartLoopCall("sequential", Iterations, SequentialCall)

SequentialErrIsSample ==
  /\ Receive(SequentialCall, "error")
  /\ i' = i + 1
  /\ samples' = samples + 1
  /\ UNCHANGED pc

\* The ? after the await.
SequentialErr ==
  /\ Receive(SequentialCall, "error")
  /\ pc' = "failed"
  /\ UNCHANGED <<i, samples>>

SequentialReturns ==
  /\ pc = "sequential"
  /\ \/ /\ \E s \in {"2xx", "409"} : Receive(SequentialCall, s)
        /\ i' = i + 1
        /\ samples' = samples + 1
        /\ UNCHANGED pc
     \/ SequentialErr
  /\ UNCHANGED <<run, expired, wpc, n, ok, conflict, report, counted, late>>

\* The deadline is set and the writers are spawned.
SequentialDone ==
  /\ pc = "sequential"
  /\ i = Iterations
  /\ pc' = "concurrent"
  /\ expired' = FALSE
  /\ wpc' = [w \in Writers |-> "check"]
  /\ n' = [w \in Writers |-> FirstCounter(w)]
  /\ ok' = 0
  /\ conflict' = 0
  /\ UNCHANGED <<catalogVars, run, i, samples, report, counted, late>>

-----------------------------------------------------------------------------
(* A writer task.                                                          *)

WriterCall(w) == Call("concurrent", w, n[w])

CheckedOnce(w) == (~expired \/ n[w] > FirstCounter(w)) /\ n[w] < FirstCounter(w) + MaxPerWriter + 1

\* while Instant::now() < deadline.  (The bound stands for the length of the
\* phase: a writer that has started MaxPerWriter commits only gets back to
\* its check when the deadline has passed.)
BeforeDeadline(w) == ~expired /\ n[w] < FirstCounter(w) + MaxPerWriter

CheckDeadline(w) ==
  /\ pc = "concurrent"
  /\ wpc[w] = "check"
  /\ \/ expired /\ wpc' = [wpc EXCEPT ![w] = "done"]
     \/ BeforeDeadline(w) /\ wpc' = [wpc EXCEPT ![w] = "call"]
  /\ UNCHANGED <<catalogVars, run, pc, i, samples, expired, n, ok, conflict, report, counted, late>>

NumberedOnce(w) == FirstCounter(w) + 1

\* n += 1
NextCounter(w) == n[w] + 1

WriterCommit(w) ==
  /\ pc = "concurrent"
  /\ wpc[w] = "call"
  /\ LET call == Call("concurrent", w, NextCounter(w))
     IN /\ commit(call)
        /\ late' = IF expired THEN late \cup {call} ELSE late
  /\ n' = [n EXCEPT ![w] = NextCounter(w)]
  /\ wpc' = [wpc EXCEPT ![w] = "wait"]
  /\ UNCHANGED <<run, pc, i, samples, expired, ok, conflict, report, counted>>

OkIsConflict(w) ==
  /\ Receive(WriterCall(w), "2xx")
  /\ conflict' = conflict + 1
  /\ wpc' = [wpc EXCEPT ![w] = "check"]
  /\ UNCHANGED <<ok, counted>>

WriterOk(w) ==
  /\ Receive(WriterCall(w), "2xx")
  /\ ok' = ok + 1
  /\ counted' = counted \cup {WriterCall(w)}
  /\ wpc' = [wpc EXCEPT ![w] = "check"]
  /\ UNCHANGED conflict

ConflictIsOk(w) ==
  /\ Receive(WriterCall(w), "409")
  /\ ok' = ok + 1
  /\ counted' = counted \cup {WriterCall(w)}
  /\ wpc' = [wpc EXCEPT ![w] = "check"]
  /\ UNCHANGED conflict

WriterConflict(w) ==
  /\ Receive(WriterCall(w), "409")
  /\ conflict' = conflict + 1
  /\ wpc' = [wpc EXCEPT ![w] = "check"]
  /\ UNCHANGED <<ok, counted>>

ErrIsAwaitedAgain(w) ==
  /\ Receive(WriterCall(w), "error")
  /\ UNCHANGED <<wpc, ok, conflict, counted>>

\* Err(_) => { transient; keep going }
WriterErr(w) ==
  /\ Receive(WriterCall(w), "error")
  /\ wpc' = [wpc EXCEPT ![w] = "check"]
  /\ UNCHANGED <<ok, conflict, counted>>

WriterReturns(w) ==
  /\ pc = "concurrent"
  /\ wpc[w] = "wait"
  /\ WriterOk(w) \/ WriterConflict(w) \/ WriterErr(w)
  /\ UNCHANGED <<run, pc, i, samples, expired, n, report, late>>

\* The deadline passes.
Tick ==
  /\ pc = "concurrent"
  /\ ~expired
  /\ expired' = TRUE
  /\ UNCHANGED <<catalogVars, run, pc, i, samples, wpc, n, ok, conflict, report, counted, late>>

NotJoined == expired

\* for h in handles { h.await }
Joined == \A w \in Writers : wpc[w] = "done"

\* The counters are read and the report is printed.
Report ==
  /\ pc = "concurrent"
  /\ Joined
  /\ report' = [samples |-> Iterations, ok |-> ok, conflict |-> conflict]
  /\ pc' = "done"
  /\ UNCHANGED <<catalogVars, run, i, samples, expired, wpc, n, ok, conflict, counted, late>>

-----------------------------------------------------------------------------
(* The process: killed at any point, started again on the same table.      *)

FreshProcess ==
  /\ i' = 0
  /\ samples' = 0
  /\ expired' = FALSE
  /\ wpc' = [w \in Writers |-> "check"]
  /\ n' = [w \in Writers |-> FirstCounter(w)]
  /\ ok' = 0
  /\ conflict' = 0
  /\ counted' = {}
  /\ late' = {}

Crash ==
  /\ pc \notin Exited
  /\ run < MaxRuns
  /\ pc' = "killed"
  /\ HangUp
  /\ FreshProcess
  /\ UNCHANGED <<run, report>>

StartAgain ==
  /\ pc \in Exited
  /\ run < MaxRuns
  /\ run' = run + 1
  /\ pc' = Start
  /\ report' = NoReport
  /\ FreshProcess
  /\ UNCHANGED catalogVars

\* The program has stopped for good.
Terminated == pc \in Exited /\ run = MaxRuns /\ UNCHANGED vars

Main ==
  \/ create_namespace \/ create_table \/ load_table_uuid
  \/ WarmupCommit \/ WarmupReturns \/ WarmupDone
  \/ SequentialCommit \/ SequentialReturns \/ SequentialDone
  \/ Report

Writer(w) == CheckDeadline(w) \/ WriterCommit(w) \/ WriterReturns(w)

Next ==
  \/ Main
  \/ \E w \in Writers : Writer(w)
  \/ Tick
  \/ CatalogNext /\ UNCHANGED clientVars
  \/ Crash
  \/ StartAgain
  \/ Terminated

Spec == Init /\ [][Next]_vars

\* The runtime schedules main and every writer task, the clock advances, and
\* the catalog answers the requests it has received.  Nothing makes a fault,
\* a rival, a crash or another run happen.
Fairness ==
  /\ WF_vars(Main)
  /\ \A w \in Writers : WF_vars(Writer(w))
  /\ WF_vars(Tick)
  /\ WF_vars(Progress /\ UNCHANGED clientVars)

FairSpec == Spec /\ Fairness

-----------------------------------------------------------------------------
(* What the numbers of the report mean.                                    *)

\* The calls of this run's writers that advanced the metadata pointer.
WriterLanded == {c \in Landed : c.run = run /\ c.phase = "concurrent"}

\* A commit moves the pointer at most once: a writer that lost the answer to
\* a call goes on with another call, never with the same one again, so a
\* request the catalog is still working on cannot meet its own retry.
LandsAtMostOnce ==
  \A j, k \in DOMAIN log : log[j] = log[k] /\ log[j] # RivalCall => j = k

\* The program is made to be started again on a catalog it left anything in
\* ("409 = already exists, fine for reruns"): neither a namespace or a table of
\* an earlier run, created in full or half-way, nor what the catalog still does
\* for a run that was killed, nor a rival, a conflict or a rebase ends it; only
\* a request that failed does.
OnlyFaultsFail == Create /\ faults = 0 => pc # "failed"

\* "committed" in the report is what the catalog did (RESULTS.md "the same
\* unit of work"): the two atomic counters count calls, once each, and every
\* call that ok counts has advanced the metadata pointer.
CountedCommitsLanded ==
  /\ ok = Cardinality(counted)
  /\ counted \subseteq WriterLanded

\* A published report accounts for the metadata-pointer log: it never claims
\* more commits of the concurrent phase than the log holds, and it misses at
\* most one for each fault, since main joins every writer before it reads
\* the counters and a writer only gives up a call that failed.
ReportAccountsForLog ==
  pc = "done" =>
    /\ report.ok <= Cardinality(WriterLanded)
    /\ Cardinality(WriterLanded) <= report.ok + faults

\* Each latency sample of the sequential phase is the latency of a commit
\* ("Sequential commits to measure for the latency phase"): its call has
\* advanced the metadata pointer.
SequentialSamplesAreCommits ==
  \A k \in 0..(samples - 1) :
     [run |-> run, phase |-> "sequential", w |-> 0, n |-> k] \in Landed

\* On a fresh table that nobody else commits to, that is so although the loop
\* drops the bool of commit: one call is in flight at a time, so none of them
\* can lose the swap, and a failed one is no sample.
SamplesOfAnOwnTableAreCommits ==
  run = 1 /\ RivalCall \notin Landed => SequentialSamplesAreCommits

\* A conflict has a winner: a writer has one request in flight, so a commit
\* of one writer turns at most one request of each other writer into a 409.
\* A conflict rate above (Concurrency - 1) / Concurrency on a table of one's
\* own is not optimistic concurrency but something else.
ConflictsHaveWinners ==
  LET rivals == Cardinality({j \in DOMAIN log : log[j] = RivalCall})
  IN run = 1 /\ faults = 0 =>
       conflict <= (Concurrency - 1) * Cardinality(WriterLanded)
                   + Concurrency * rivals

\* The deadline is checked before each commit and not during it: a writer
\* that was past the check when the deadline passed issues that one commit,
\* and then stops.
OneLateCommitPerWriter ==
  \A w \in Writers : Cardinality({c \in late : c.w = w}) <= 1

\* The key ranges of the phases and of the writers are disjoint but for one
\* overlap: on a fresh table, the only calls a catalog with idempotency can
\* answer without doing the work are those of writer 0 whose counter the
\* sequential phase has used.
OnlyWriterZeroReplays ==
  run = 1 => \A c \in counted \ Landed : c.w = 0 /\ c.n < Iterations

\* A catalog with idempotency never applies one key twice, not even when a
\* request of a run that was killed is still in flight while the next run
\* sends the same key again (RESULTS.md "replays the prior result instead of
\* double-applying").
KeyLandsAtMostOnce ==
  \A j, k \in DOMAIN log :
     log[j].n = log[k].n /\ log[j] # RivalCall /\ log[k] # RivalCall => j = k

\* The program ends: it fails, or it joins every writer and reports, whatever
\* conflicts and faults the writers meet.
Termination == <>(pc \in Exited)

\* The benchmark as a ledger: see CommitLedger.
Ledger == INSTANCE CommitLedger WITH
            landed <- Landed,
            total <- ok,
            published <- IF pc = "done" THEN {report.ok} ELSE {}

\* The benchmark implements the ledger of commits done, counted and
\* published.
RefinesLedger == Ledger!Spec
=============================================================================
