-------------------------- MODULE CommitReportProofs --------------------------
(***************************************************************************)
(* Proofs about CommitBench: what its report, its conflicts and its        *)
(* samples say of the metadata-pointer log.                                *)
(***************************************************************************)
EXTENDS CommitBenchProofs

-----------------------------------------------------------------------------
(* The commits that the report misses.                                     *)

\* The calls of this run's writers that have landed, or may still land, and
\* that ok has not counted and never will.
GivenUp ==
  {c \in UnderWay \cup OwnLanded :
     /\ c.run = run /\ c.phase = "concurrent"
     /\ c \notin counted /\ c \notin open
     /\ [id |-> c, status |-> "2xx"] \notin answers}

\* Each of them cost a fault.
GiveUpInv ==
  pc \in {"concurrent", "done"} => IsFiniteSet(GivenUp) /\ Cardinality(GivenUp) <= faults

\* A finite set stays so, and gets at most one larger, with another element.
LEMMA OneMore ==
  ASSUME NEW S, NEW x, IsFiniteSet(S)
  PROVE  /\ IsFiniteSet(S \cup {x}) /\ Cardinality(S \cup {x}) \in Nat
         /\ Cardinality(S \cup {x}) <= Cardinality(S) + 1
  <1>1. IsFiniteSet(S \cup {x}) /\ Cardinality(S) \in Nat
    BY FS_AddElement, FS_CardinalityType
  <1>2. Cardinality(S \cup {x}) = IF x \in S THEN Cardinality(S) ELSE Cardinality(S) + 1
    BY FS_AddElement
  <1>. QED
    BY <1>1, <1>2

\* A finite set stays so, and does not get larger, when it loses elements.
LEMMA NoMoreGivenUp ==
  ASSUME TypeOK, GiveUpInv, pc \in {"concurrent", "done"}, GivenUp' \subseteq GivenUp,
         faults' = faults \/ faults' = faults + 1
  PROVE  GiveUpInv'
  <1>1. IsFiniteSet(GivenUp) /\ Cardinality(GivenUp) <= faults /\ Cardinality(GivenUp) \in Nat
    BY FS_CardinalityType DEF GiveUpInv
  <1>2. IsFiniteSet(GivenUp') /\ Cardinality(GivenUp') <= Cardinality(GivenUp)
    BY <1>1, FS_Subset
  <1>3. Cardinality(GivenUp') \in Nat /\ faults \in Nat
    BY <1>2, FS_CardinalityType DEF TypeOK, CatalogTypeOK
  <1>. QED
    BY <1>1, <1>2, <1>3 DEF GiveUpInv

\* The catalog gives up a call only by a fault.
LEMMA GiveUpCatalog ==
  ASSUME TypeOK, FreshInv, GiveUpInv, CatalogNext, UNCHANGED clientVars
  PROVE  GiveUpInv'
  <1>u. UNCHANGED <<pc, run, counted>>
    BY DEF clientVars
  <1>c. UnderWay' \cup OwnLanded' \subseteq UnderWay \cup OwnLanded
    BY CatalogCalls DEF TypeOK
  <1>1. CASE pc \notin {"concurrent", "done"}
    BY <1>1, <1>u DEF GiveUpInv
  <1>2. CASE UNCHANGED <<open, answers, faults>> /\ pc \in {"concurrent", "done"}
    BY <1>2, <1>u, <1>c, NoMoreGivenUp DEF GivenUp
  <1>3. ASSUME NEW c, Respond(c, "2xx"), UNCHANGED faults, pc \in {"concurrent", "done"}
        PROVE  GiveUpInv'
    <2>1. GivenUp' \subseteq GivenUp
      BY <1>3, <1>u, <1>c DEF Respond, GivenUp
    <2>. QED
      BY <1>3, <2>1, NoMoreGivenUp
  <1>4. ASSUME NEW r \in reading, Conflict(r) \/ ServerError(r), pc \in {"concurrent", "done"}
        PROVE  GiveUpInv'
    <2>1. /\ log' = log /\ requests' = requests /\ reading' = reading \ {r}
          /\ open' = open \ {r.id} /\ answers \subseteq answers'
          /\ faults' = faults \/ faults' = faults + 1
      BY <1>4 DEF Conflict, ServerError, Respond
    <2>2. r.id \notin UnderWay' /\ r.id \notin OwnLanded'
      BY <2>1 DEF FreshInv, UnderWay, OwnLanded, Landed, RivalCall
    <2>3. GivenUp' \subseteq GivenUp
      BY <2>1, <2>2, <1>u, <1>c DEF GivenUp
    <2>. QED
      BY <1>4, <2>1, <2>3, NoMoreGivenUp
  <1>5. ASSUME NEW c \in open, Disconnect(c), pc \in {"concurrent", "done"} PROVE GiveUpInv'
    <2>1. open' = open \ {c} /\ answers \subseteq answers' /\ faults' = faults + 1
      BY <1>5 DEF Disconnect
    <2>2. GivenUp' \subseteq GivenUp \cup {c}
      BY <2>1, <1>u, <1>c DEF GivenUp
    <2>3. IsFiniteSet(GivenUp) /\ Cardinality(GivenUp) <= faults /\ Cardinality(GivenUp) \in Nat
      BY <1>5, FS_CardinalityType DEF GiveUpInv
    <2>4. /\ IsFiniteSet(GivenUp \cup {c}) /\ Cardinality(GivenUp \cup {c}) \in Nat
          /\ Cardinality(GivenUp \cup {c}) <= Cardinality(GivenUp) + 1
      BY <2>3, OneMore
    <2>5. /\ IsFiniteSet(GivenUp') /\ Cardinality(GivenUp') <= Cardinality(GivenUp \cup {c})
          /\ Cardinality(GivenUp') \in Nat
      BY <2>2, <2>4, FS_Subset, FS_CardinalityType
    <2>6. faults \in Nat
      BY DEF TypeOK, CatalogTypeOK
    <2>. QED
      BY <2>1, <2>3, <2>4, <2>5, <2>6 DEF GiveUpInv
  <1>. QED
    BY <1>1, <1>2, <1>3, <1>4, <1>5 DEF CatalogNext, Progress, Trouble, ReadVersion, Replay, Land,
      RivalCommit

\* Every step keeps GiveUpInv.
LEMMA GiveUpStep == TypeOK /\ FreshInv /\ GiveUpInv /\ [Next]_vars => GiveUpInv'
  <1>. SUFFICES ASSUME TypeOK, FreshInv, GiveUpInv, [Next]_vars PROVE GiveUpInv'
    OBVIOUS
  <1>a. UNCHANGED <<log, requests, reading>> => UNCHANGED <<UnderWay, OwnLanded>>
    BY DEF UnderWay, OwnLanded, Landed, RivalCall
  <1>1. CASE pc' \notin {"concurrent", "done"}
    BY <1>1 DEF GiveUpInv
  <1>2. CASE pc = "concurrent" /\ UNCHANGED <<catalogVars, run, counted>>
    BY <1>2, <1>a, NoMoreGivenUp DEF catalogVars, GivenUp
  <1>3. CASE SequentialDone
    <2>1. pc = "sequential" /\ run' = run /\ UNCHANGED <<UnderWay, OwnLanded, faults>>
      BY <1>3, <1>a DEF SequentialDone, catalogVars
    <2>2. \A c \in UnderWay \cup OwnLanded : Issued(c)
      BY DEF UnderWay, OwnLanded, FreshInv
    <2>3. \A c \in UnderWay \cup OwnLanded : c.run = run => c.phase # "concurrent"
      BY <2>1, <2>2 DEF Issued, Exited, SequentialCall, Call, TypeOK
    <2>4. GivenUp' = {}
      BY <2>1, <2>3 DEF GivenUp
    <2>. QED
      BY <2>1, <2>4, FS_EmptySet DEF GiveUpInv, TypeOK, CatalogTypeOK
  <1>4. ASSUME NEW w \in Writers, WriterCommit(w) PROVE GiveUpInv'
    <2>1. PICK c : c = Call("concurrent", w, NextCounter(w))
      OBVIOUS
    <2>2. commit(c) /\ pc = "concurrent" /\ UNCHANGED <<run, counted>>
      BY <1>4, <2>1 DEF WriterCommit
    <2>3. UnderWay' = UnderWay \cup {c} /\ OwnLanded' = OwnLanded
      BY <2>2, CommitCalls
    <2>4. open' = open \cup {c} /\ answers' = answers /\ faults' = faults
      BY <2>2 DEF commit, Send
    <2>5. GivenUp' \subseteq GivenUp
      BY <2>2, <2>3, <2>4 DEF GivenUp
    <2>. QED
      BY <2>2, <2>4, <2>5, NoMoreGivenUp
  <1>5. ASSUME NEW w \in Writers, WriterReturns(w) PROVE GiveUpInv'
    <2>1. /\ UNCHANGED <<log, requests, reading, open, faults, run>> /\ pc = "concurrent"
          /\ \/ /\ answers' = answers \ {[id |-> WriterCall(w), status |-> "2xx"]}
                /\ counted' = counted \cup {WriterCall(w)}
             \/ /\ \E s \in {"409", "error"} :
                     answers' = answers \ {[id |-> WriterCall(w), status |-> s]}
                /\ UNCHANGED counted
      BY <1>5 DEF WriterReturns, WriterOk, WriterConflict, WriterErr, Receive
    <2>2. GivenUp' \subseteq GivenUp
      BY <1>a, <2>1 DEF GivenUp
    <2>. QED
      BY <2>1, <2>2, NoMoreGivenUp
  <1>6. CASE CatalogNext /\ UNCHANGED clientVars
    BY <1>6, GiveUpCatalog
  <1>7. CASE Report \/ Tick \/ \E w \in Writers : CheckDeadline(w)
    BY <1>2, <1>7 DEF Report, Tick, CheckDeadline
  <1>8. CASE UNCHANGED vars
    <2>1. GivenUp' = GivenUp /\ UNCHANGED <<pc, faults>>
      BY <1>8, <1>a DEF vars, catalogVars, clientVars, GivenUp
    <2>. QED
      BY <2>1 DEF GiveUpInv
  <1>9. CASE \/ create_namespace \/ create_table \/ load_table_uuid
             \/ WarmupCommit \/ WarmupReturns \/ WarmupDone
             \/ SequentialCommit \/ SequentialReturns
    BY <1>1, <1>9 DEF create_namespace, create_table, load_table_uuid, CreateRequest, WarmupCommit,
      WarmupReturns, WarmupDone, SequentialCommit, StartLoopCall, SequentialReturns, SequentialErr,
      clientVars
  <1>10. CASE Crash \/ StartAgain
    BY <1>1, <1>10 DEF Crash, StartAgain, Start
  <1>. QED
    BY <1>3, <1>4, <1>5, <1>6, <1>7, <1>8, <1>9, <1>10 DEF Next, Main, Writer, Terminated

\* The landed calls are finitely many.
LEMMA LandedFinite == TypeOK => IsFiniteSet(Landed)
  BY CatalogLandedFinite DEF TypeOK

\* Where no answer is a replay, a published report claims no more commits than
\* the log has of its run, and misses at most one for each fault.
THEOREM ReportAccountsForLogHolds ==
  ASSUME NoReplays
  PROVE  Spec => []ReportAccountsForLog
  <1>1. Init => CountInv /\ GiveUpInv
    BY InitInv DEF Init, GiveUpInv, Start
  <1>2. TypeOK /\ CountInv /\ [Next]_vars => CountInv'
    BY CountStep
  <1>3. TypeOK /\ FreshInv /\ GiveUpInv /\ [Next]_vars => GiveUpInv'
    BY GiveUpStep
  <1>4. ASSUME TypeOK, FreshInv, AwaitInv, CountInv, GiveUpInv PROVE ReportAccountsForLog
    <2>. SUFFICES ASSUME pc = "done"
                  PROVE  /\ report.ok <= Cardinality(WriterLanded)
                         /\ Cardinality(WriterLanded) <= report.ok + faults
      BY DEF ReportAccountsForLog
    <2>1. /\ report.ok = Cardinality(counted) /\ IsFiniteSet(counted)
          /\ counted \subseteq WriterLanded
      BY <1>4 DEF CountInv, WriterLanded
    <2>2. IsFiniteSet(WriterLanded)
      BY <1>4, LandedFinite, FS_Subset DEF WriterLanded
    <2>3. report.ok <= Cardinality(WriterLanded)
      BY <2>1, <2>2, FS_Subset
    <2>4. IsFiniteSet(GivenUp) /\ Cardinality(GivenUp) <= faults
      BY <1>4 DEF GiveUpInv
    <2>5. Awaited = {}
      BY <1>4 DEF AwaitInv
    <2>6. WriterLanded \subseteq counted \cup GivenUp
      BY <2>5 DEF WriterLanded, GivenUp, OwnLanded, RivalCall, Awaited
    <2>7. /\ IsFiniteSet(counted \cup GivenUp)
          /\ Cardinality(counted \cup GivenUp)
               = Cardinality(counted) + Cardinality(GivenUp) - Cardinality(counted \cap GivenUp)
      BY <2>1, <2>4, FS_Union
    <2>8. Cardinality(WriterLanded) <= Cardinality(counted \cup GivenUp)
      BY <2>6, <2>7, FS_Subset
    <2>9. /\ Cardinality(counted) \in Nat /\ Cardinality(GivenUp) \in Nat
          /\ Cardinality(counted \cap GivenUp) \in Nat /\ Cardinality(WriterLanded) \in Nat
          /\ faults \in Nat
      BY <1>4, <2>1, <2>2, <2>4, FS_CardinalityType, FS_Intersection DEF TypeOK, CatalogTypeOK
    <2>. QED
      BY <2>1, <2>3, <2>4, <2>7, <2>8, <2>9
  <1>. QED
    BY <1>1, <1>2, <1>3, <1>4, KeyInvariants, PTL DEF Spec

-----------------------------------------------------------------------------
(* What ends the program.                                                  *)

\* As long as nothing has failed, a program that creates its table has it from
\* load_table_uuid on, and no answer is an error.
NoFaultInv ==
  Create /\ faults = 0 =>
    /\ pc # "failed"
    /\ pc \notin {"create_namespace", "create_table", "killed"} => created = "table"
    /\ \A a \in answers : a.status # "error"

\* Every step keeps NoFaultInv.
LEMMA NoFaultStep == TypeOK /\ NoFaultInv /\ [Next]_vars => NoFaultInv'
  <1>. SUFFICES ASSUME TypeOK, NoFaultInv, [Next]_vars, Create, faults' = 0 PROVE NoFaultInv'
    BY DEF NoFaultInv
  <1>1. CASE create_namespace \/ create_table \/ load_table_uuid
    BY <1>1 DEF create_namespace, create_table, load_table_uuid, CreateRequest, Rank, tableVars,
      NoFaultInv, TypeOK, CatalogTypeOK
  <1>2. CASE WarmupCommit \/ SequentialCommit
    BY <1>2 DEF WarmupCommit, SequentialCommit, StartLoopCall, commit, Send, clientVars, NoFaultInv
  <1>3. CASE WarmupReturns \/ SequentialReturns
    BY <1>3 DEF WarmupReturns, SequentialReturns, SequentialErr, Receive, NoFaultInv
  <1>4. CASE WarmupDone \/ SequentialDone \/ Report
    BY <1>4 DEF WarmupDone, SequentialDone, Report, catalogVars, NoFaultInv
  <1>5. ASSUME NEW w \in Writers, Writer(w) PROVE NoFaultInv'
    BY <1>5 DEF Writer, CheckDeadline, WriterCommit, commit, Send, WriterReturns, WriterOk,
      WriterConflict, WriterErr, Receive, catalogVars, NoFaultInv
  <1>6. CASE CatalogNext /\ UNCHANGED clientVars
    <2>1. faults = 0 /\ created' = created
      BY <1>6 DEF TypeOK, CatalogTypeOK, CatalogNext, Progress, Trouble, ReadVersion, Replay, Land,
        Conflict, ServerError, Disconnect, RivalCommit
    <2>2. \A a \in answers' : a \in answers \/ a.status # "error"
      BY <1>6, <2>1 DEF CatalogNext, Progress, Trouble, ReadVersion, Replay, Land, Conflict,
        ServerError, Disconnect, RivalCommit, Respond
    <2>. QED
      BY <1>6, <2>1, <2>2 DEF NoFaultInv, clientVars
  <1>7. CASE Tick \/ Crash \/ StartAgain \/ Terminated \/ UNCHANGED vars
    BY <1>7 DEF Tick, Crash, HangUp, StartAgain, Start, Terminated, vars, catalogVars, clientVars,
      NoFaultInv
  <1>. QED
    BY <1>1, <1>2, <1>3, <1>4, <1>5, <1>6, <1>7 DEF Next, Main

\* A rerun with whatever is left of the earlier runs ends by itself only when
\* a request failed.
THEOREM OnlyFaultsFailHolds == Spec => []OnlyFaultsFail
  <1>1. Init => NoFaultInv
    BY DEF Init, CatalogInit, Start, NoFaultInv
  <1>2. TypeOK /\ NoFaultInv /\ [Next]_vars => NoFaultInv'
    BY NoFaultStep
  <1>3. NoFaultInv => OnlyFaultsFail
    BY DEF NoFaultInv, OnlyFaultsFail
  <1>. QED
    BY <1>1, <1>2, <1>3, TypeCorrect, PTL DEF Spec

-----------------------------------------------------------------------------
(* What the samples of the sequential phase are.                           *)

\* The first run on a table that nobody else has committed to.
OwnTable == run = 1 /\ RivalCall \notin Landed

BeforeWriters == {"create_namespace", "create_table", "load_table_uuid", "warmup", "sequential"}

\* Until the writers start, the catalog works on the awaited call only, so that
\* nothing moves the pointer under it; every iteration is one sample, and every
\* sample a commit.
OwnTableInv ==
  OwnTable =>
    /\ pc \in BeforeWriters =>
         /\ UnderWay \subseteq Awaited
         /\ \A r \in reading : r.base = Version
         /\ \A a \in answers : a.status # "409" /\ (a.status = "2xx" => a.id \in Landed)
    /\ pc = "sequential" => samples = i
    /\ pc \in BeforeWriters \ {"sequential"} => samples = 0
    /\ SequentialSamplesAreCommits

\* Before the writers start, one call at most is awaited.
LEMMA OneAwaited ==
  ASSUME AwaitInv, pc \in BeforeWriters, NEW c \in Awaited
  PROVE  /\ Awaited = {c}
         /\ \/ pc = "warmup" /\ i < Warmup /\ c = WarmupCall
            \/ pc = "sequential" /\ i < Iterations /\ c = SequentialCall
  BY DEF AwaitInv, BeforeWriters

\* The counter of that call has not been used.
LEMMA AwaitedIsNew ==
  ASSUME TypeOK, FreshInv, AwaitInv, RangeInv, run = 1, pc \in BeforeWriters,
         NEW c \in Awaited, c \notin Landed
  PROVE  ~UsedBefore(c)
  <1>. SUFFICES ASSUME NEW d \in OwnLanded, d.n = c.n PROVE FALSE
    BY DEF UsedBefore
  <1>1. d \in Calls /\ Ranged(d) /\ Issued(d) /\ d # c
    BY DEF RangeInv, FreshInv, OwnLanded
  <1>2. d.run = 1 /\ d.n \in Nat /\ i \in Nat
    BY <1>1 DEF Issued, Calls, TypeOK
  <1>3. CASE pc = "warmup"
    <2>1. c.n = WarmupBase + i /\ c = WarmupCall
      BY <1>3, OneAwaited DEF WarmupCall, Call
    <2>2. d.n < WarmupBase + i
      BY <1>1, <1>2, <1>3, <2>1 DEF Issued, Exited
    <2>. QED
      BY <1>2, <2>1, <2>2 DEF WarmupBase
  <1>4. CASE pc = "sequential"
    <2>1. c.n = i /\ c = SequentialCall /\ i < Iterations
      BY <1>4, OneAwaited DEF SequentialCall, Call
    <2>2. d.n < i \/ d.phase = "warmup"
      BY <1>1, <1>2, <1>4, <2>1 DEF Issued, Exited
    <2>. QED
      BY <1>1, <1>2, <2>1, <2>2, BenchAssumption DEF Ranged, WarmupBase
  <1>. QED
    BY <1>3, <1>4, OneAwaited

\* Nothing that has landed is forgotten, and a rival's commit is not undone.
LEMMA OwnTableStable ==
  ASSUME TypeOK, [Next]_vars, OwnTable'
  PROVE  /\ OwnTable /\ Landed \subseteq Landed'
         /\ pc' \in BeforeWriters => pc \in BeforeWriters
  <1>1. log' = log \/ \E c : log' = Append(log, c)
    BY DEF Next, Main, Writer, create_namespace, create_table, load_table_uuid, tableVars,
      WarmupCommit, SequentialCommit, StartLoopCall, commit, Send, WarmupReturns, WarmupDone,
      SequentialReturns, SequentialErr, SequentialDone, Report, CheckDeadline, WriterCommit,
      WriterReturns, WriterOk, WriterConflict, WriterErr, Receive, Tick, Crash, HangUp, StartAgain,
      Terminated, vars, catalogVars, CatalogNext, Progress, Trouble, ReadVersion, Replay, Land,
      Conflict, ServerError, Disconnect, RivalCommit
  <1>2. Landed \subseteq Landed' /\ RivalCall' = RivalCall
    <2>1. log' = log => Landed' = Landed
      BY DEF Landed
    <2>2. \A c : log' = Append(log, c) => Landed' = Landed \cup {c}
      BY LandedAppend DEF TypeOK
    <2>. QED
      BY <1>1, <2>1, <2>2 DEF RivalCall
  <1>3. run' = 1 => run = 1 /\ (pc' \in BeforeWriters => pc \in BeforeWriters)
    BY DEF TypeOK, Next, Main, Writer, create_namespace, create_table, load_table_uuid, measureVars,
      CreateRequest, WarmupCommit, SequentialCommit, StartLoopCall, WarmupReturns, WarmupDone,
      SequentialReturns, SequentialErr, SequentialDone, Report, CheckDeadline, WriterCommit,
      WriterReturns, Tick, Crash, StartAgain, Terminated, vars, clientVars, BeforeWriters, Exited
  <1>. QED
    BY <1>2, <1>3 DEF OwnTable

\* The catalog answers the awaited call with 2xx or an error, and only when it
\* has landed with 2xx.
LEMMA OwnTableCatalog ==
  ASSUME TypeOK, FreshInv, AwaitInv, RangeInv, KeyInv, OwnTableInv, OwnTable, OwnTable',
         pc \in BeforeWriters, CatalogNext, UNCHANGED clientVars
  PROVE  /\ UnderWay' \subseteq Awaited'
         /\ \A r \in reading' : r.base = Version'
         /\ \A a \in answers' : a.status # "409" /\ (a.status = "2xx" => a.id \in Landed')
  <1>. DEFINE P == /\ UnderWay' \subseteq Awaited'
                   /\ \A r \in reading' : r.base = Version'
                   /\ \A a \in answers' : a.status # "409" /\ (a.status = "2xx" => a.id \in Landed')
  <1>t. CatalogTypeOK(Calls, Nat)
    BY DEF TypeOK
  <1>a. Awaited' = Awaited
    BY CatalogAwaits DEF AwaitInv
  <1>i. /\ UnderWay \subseteq Awaited
        /\ \A r \in reading : r.base = Version
        /\ \A a \in answers : a.status # "409" /\ (a.status = "2xx" => a.id \in Landed)
    BY DEF OwnTableInv
  <1>u. \A r \in requests \cup reading : r.id \in Awaited /\ r.id \notin Landed
    BY <1>i DEF UnderWay, FreshInv
  <1>1. ASSUME NEW r \in requests, ReadVersion(r) PROVE P
    <2>. DEFINE q == [id |-> r.id, key |-> r.key, base |-> Version]
    <2>1. /\ q.id = r.id /\ q.base = Version /\ requests' \subseteq requests
          /\ reading' = reading \cup {q} /\ answers' = answers /\ log' = log
      BY <1>1 DEF ReadVersion
    <2>2. Landed' = Landed /\ Version' = Version
      BY <2>1 DEF Landed, Version
    <2>. HIDE DEF q
    <2>. QED
      BY <1>a, <1>i, <1>u, <2>1, <2>2 DEF UnderWay
  <1>2. ASSUME NEW r \in requests, Replay(r) PROVE FALSE
    <2>1. r.key = Key(r.id.n) /\ r.key # {} /\ r.key \subseteq recorded
      BY <1>2 DEF Replay, Known, KeyInv
    <2>2. r.id.n \in recorded
      BY <2>1 DEF Key
    <2>3. UsedBefore(r.id)
      BY <2>2 DEF KeyInv, UsedBefore
    <2>. QED
      BY <1>u, <2>3, AwaitedIsNew DEF OwnTable
  <1>3. ASSUME NEW r \in reading, Land(r) PROVE P
    <2>1. /\ log' = Append(log, r.id) /\ requests' = requests /\ reading' = reading \ {r}
          /\ \A a \in answers' : a \in answers \/ (a.id = r.id /\ a.status = "2xx")
      BY <1>3 DEF Land, Respond
    <2>2. Landed' = Landed \cup {r.id}
      BY <1>t, <2>1, LandedAppend
    <2>3. \A q \in requests \cup reading : q.id = r.id
      BY <1>u, OneAwaited
    <2>4. requests = {} /\ reading = {r}
      BY <2>3 DEF FreshInv
    <2>5. reading' = {} /\ UnderWay' = {}
      BY <2>1, <2>4 DEF UnderWay
    <2>. QED
      BY <1>i, <2>1, <2>2, <2>5
  <1>4. ASSUME NEW r \in reading, Conflict(r) PROVE FALSE
    BY <1>4, <1>i DEF Conflict
  <1>5. CASE /\ log' = log /\ requests' \subseteq requests /\ reading' \subseteq reading
             /\ \A a \in answers' : a \in answers \/ a.status = "error"
    <2>1. Landed' = Landed /\ Version' = Version /\ UnderWay' \subseteq UnderWay
      BY <1>5 DEF Landed, Version, UnderWay
    <2>. QED
      BY <1>a, <1>i, <1>5, <2>1
  <1>6. CASE Trouble
    BY <1>5, <1>6 DEF Trouble, ServerError, Disconnect, Respond
  <1>7. CASE RivalCommit
    <2>1. Landed' = Landed \cup {RivalCall} /\ RivalCall' = RivalCall
      BY <1>t, <1>7, LandedAppend DEF RivalCommit, RivalCall
    <2>. QED
      BY <2>1 DEF OwnTable
  <1>. QED
    BY <1>1, <1>2, <1>3, <1>4, <1>6, <1>7 DEF CatalogNext, Progress

\* Every step keeps OwnTableInv.
LEMMA OwnTableStep ==
  TypeOK /\ FreshInv /\ AwaitInv /\ RangeInv /\ KeyInv /\ OwnTableInv /\ [Next]_vars => OwnTableInv'
  <1>. SUFFICES ASSUME TypeOK, FreshInv, AwaitInv, RangeInv, KeyInv, OwnTableInv, [Next]_vars,
                       OwnTable'
                PROVE  OwnTableInv'
    BY DEF OwnTableInv
  <1>o. /\ OwnTable /\ run = 1 /\ run' = 1 /\ Landed \subseteq Landed'
        /\ pc' \in BeforeWriters => pc \in BeforeWriters
    BY OwnTableStable DEF OwnTable
  <1>s. samples' = samples => SequentialSamplesAreCommits'
    BY <1>o DEF OwnTableInv, SequentialSamplesAreCommits
  <1>c. UNCHANGED <<log, requests, reading>> => UNCHANGED <<Landed, UnderWay, Version>>
    BY DEF Landed, UnderWay, Version
  <1>1. CASE /\ UNCHANGED <<samples, requests, reading, open, answers, log>>
             /\ pc # "sequential" /\ pc' # "sequential"
    <2>1. UNCHANGED Awaited
      BY <1>1 DEF Awaited
    <2>2. pc' \in BeforeWriters => samples' = 0
      BY <1>1, <1>o DEF OwnTableInv, BeforeWriters
    <2>. QED
      BY <1>1, <1>o, <1>s, <1>c, <2>1, <2>2 DEF OwnTableInv
  <1>2. CASE WarmupCommit \/ SequentialCommit
    <2>1. PICK c : commit(c) /\ UNCHANGED clientVars /\ pc \in {"warmup", "sequential"}
      BY <1>2 DEF WarmupCommit, SequentialCommit, StartLoopCall
    <2>2. UnderWay' = UnderWay \cup {c} /\ Landed' = Landed /\ Awaited' = Awaited \cup {c}
      BY <2>1, CommitCalls
    <2>3. UNCHANGED <<reading, answers, Version>>
      BY <2>1 DEF commit, Send, Version
    <2>. QED
      BY <1>s, <1>o, <2>1, <2>2, <2>3 DEF OwnTableInv, clientVars
  <1>3. ASSUME NEW c, NEW s \in {"2xx", "409"}, Receive(c, s), pc \in BeforeWriters
        PROVE  /\ UnderWay' = {} /\ reading' = {} /\ answers' = {} /\ c \in Landed
    <2>1. /\ [id |-> c, status |-> s] \in answers
          /\ UNCHANGED <<log, requests, reading>> /\ c \in Awaited
      BY <1>3, ReceiveAwaits DEF Receive, AwaitInv
    <2>2. c \in Landed
      BY <1>3, <1>o, <2>1 DEF OwnTableInv
    <2>3. \A r \in requests \cup reading : r.id \in Awaited /\ r.id # c
      BY <1>3, <1>o, <2>2 DEF OwnTableInv, UnderWay, FreshInv
    <2>4. Awaited = {c}
      BY <1>3, <2>1, OneAwaited
    <2>5. Awaited' = {}
      BY <1>3, <2>4, ReceiveAwaits DEF AwaitInv
    <2>. QED
      BY <2>1, <2>2, <2>3, <2>4, <2>5 DEF UnderWay, Awaited
  <1>4. CASE WarmupReturns
    <2>1. pc = "warmup" /\ samples' = samples /\ samples = 0
      BY <1>4, <1>o DEF WarmupReturns, OwnTableInv, BeforeWriters
    <2>2. CASE pc' = "failed"
      BY <1>s, <2>1, <2>2 DEF OwnTableInv, BeforeWriters
    <2>3. CASE \E s \in {"2xx", "409"} : Receive(WarmupCall, s) /\ pc' = pc
      <3>1. UnderWay' = {} /\ reading' = {} /\ answers' = {}
        BY <1>3, <2>1, <2>3 DEF BeforeWriters
      <3>. QED
        BY <1>s, <2>1, <2>3, <3>1 DEF OwnTableInv
    <2>. QED
      BY <1>4, <2>2, <2>3 DEF WarmupReturns
  <1>5. CASE WarmupDone
    <2>1. pc = "warmup" /\ i' = 0 /\ samples' = samples /\ samples = 0
      BY <1>5, <1>o DEF WarmupDone, OwnTableInv, BeforeWriters
    <2>2. UNCHANGED <<log, requests, reading, answers, Awaited>>
      BY <1>5 DEF WarmupDone, catalogVars, Awaited
    <2>. QED
      BY <1>5, <1>s, <1>c, <1>o, <2>1, <2>2 DEF OwnTableInv, BeforeWriters, WarmupDone
  <1>6. CASE SequentialReturns
    <2>1. pc = "sequential" /\ samples = i /\ i \in Nat
      BY <1>6, <1>o DEF SequentialReturns, OwnTableInv, TypeOK
    <2>2. CASE SequentialErr
      BY <1>s, <2>2 DEF SequentialErr, OwnTableInv, BeforeWriters
    <2>3. CASE /\ \E s \in {"2xx", "409"} : Receive(SequentialCall, s)
               /\ i' = i + 1 /\ samples' = samples + 1 /\ pc' = pc
      <3>1. UnderWay' = {} /\ reading' = {} /\ answers' = {} /\ SequentialCall \in Landed
        BY <1>3, <2>1, <2>3 DEF BeforeWriters
      <3>2. SequentialSamplesAreCommits'
        <4>1. ASSUME NEW k \in 0..(samples' - 1)
              PROVE  [run |-> run', phase |-> "sequential", w |-> 0, n |-> k] \in Landed'
          <5>1. k \in 0..(samples - 1) \/ k = i
            BY <2>1, <2>3
          <5>. QED
            BY <1>o, <2>1, <3>1, <5>1 DEF OwnTableInv, SequentialSamplesAreCommits, SequentialCall, Call
        <4>. QED
          BY <4>1 DEF SequentialSamplesAreCommits
      <3>. QED
        BY <2>1, <2>3, <3>1, <3>2 DEF OwnTableInv
    <2>. QED
      BY <1>6, <2>2, <2>3 DEF SequentialReturns
  <1>7. CASE CatalogNext /\ UNCHANGED clientVars
    <2>1. UNCHANGED <<pc, i, samples>>
      BY <1>7 DEF clientVars
    <2>2. pc \in BeforeWriters =>
            /\ UnderWay' \subseteq Awaited'
            /\ \A r \in reading' : r.base = Version'
            /\ \A a \in answers' : a.status # "409" /\ (a.status = "2xx" => a.id \in Landed')
      BY <1>7, <1>o, OwnTableCatalog
    <2>. QED
      BY <1>o, <1>s, <2>1, <2>2 DEF OwnTableInv
  <1>8. CASE Crash
    <2>1. samples' = 0 /\ pc' = "killed"
      BY <1>8 DEF Crash, FreshProcess
    <2>2. SequentialSamplesAreCommits'
      BY <2>1 DEF SequentialSamplesAreCommits
    <2>. QED
      BY <2>1, <2>2 DEF OwnTableInv, BeforeWriters
  <1>9. CASE StartAgain
    BY <1>9, <1>o DEF StartAgain
  <1>10. CASE UNCHANGED samples /\ pc = "concurrent" /\ pc' \notin BeforeWriters
    BY <1>10, <1>s DEF OwnTableInv, BeforeWriters
  <1>11. CASE UNCHANGED vars
    <2>1. UNCHANGED <<samples, i, pc, Awaited, log, requests, reading, answers>>
      BY <1>11 DEF vars, catalogVars, clientVars, Awaited
    <2>. QED
      BY <1>o, <1>s, <1>c, <2>1 DEF OwnTableInv
  <1>12. CASE create_namespace \/ create_table \/ load_table_uuid
    BY <1>12, <1>1 DEF create_namespace, create_table, load_table_uuid, CreateRequest, tableVars,
      measureVars
  <1>13. CASE SequentialDone
    BY <1>13, <1>s DEF SequentialDone, OwnTableInv, BeforeWriters
  <1>14. CASE Report \/ Tick \/ \E w \in Writers : Writer(w)
    BY <1>14, <1>10 DEF Report, Tick, Writer, CheckDeadline, WriterCommit, WriterReturns,
      BeforeWriters
  <1>. QED
    BY <1>2, <1>4, <1>5, <1>6, <1>7, <1>8, <1>9, <1>11, <1>12, <1>13, <1>14
    DEF Next, Main, Terminated

\* On a table of one's own, every latency sample of the sequential phase is the
\* latency of a commit, although the loop drops the bool of commit.
THEOREM SamplesOfAnOwnTableAreCommitsHolds == Spec => []SamplesOfAnOwnTableAreCommits
  <1>1. Init => OwnTableInv
    <2>. SUFFICES ASSUME Init PROVE OwnTableInv
      OBVIOUS
    <2>1. UnderWay = {} /\ reading = {} /\ answers = {} /\ samples = 0 /\ pc = Start
      BY DEF Init, CatalogInit, UnderWay
    <2>2. SequentialSamplesAreCommits
      BY <2>1 DEF SequentialSamplesAreCommits
    <2>. QED
      BY <2>1, <2>2 DEF OwnTableInv, Start
  <1>2. /\ TypeOK /\ FreshInv /\ AwaitInv /\ RangeInv /\ KeyInv /\ OwnTableInv /\ [Next]_vars
             => OwnTableInv'
    BY OwnTableStep
  <1>3. OwnTableInv => SamplesOfAnOwnTableAreCommits
    BY DEF OwnTableInv, OwnTable, SamplesOfAnOwnTableAreCommits
  <1>. QED
    BY <1>1, <1>2, <1>3, KeyInvariants, PTL DEF Spec

-----------------------------------------------------------------------------
(* What the conflicts cost.                                                *)

\* The requests that have lost the swap but not yet been told, the 409 on
\* their way, and the swaps of the rivals.
Stale == {r \in reading : r.base # Version}
Refused == {a \in answers : a.status = "409"}
Rivals == {m \in DOMAIN log : log[m] = RivalCall}

\* Each winner leaves the other writers' requests behind, each rival all.
Budget == (Concurrency - 1) * Cardinality(WriterLanded) + Concurrency * Cardinality(Rivals)

\* Without a fault nothing is under way whose writer does not wait for it, and
\* the conflicts, told or not, stay within the budget.
BudgetInv ==
  run = 1 /\ faults = 0 =>
    /\ pc # "killed" => UnderWay \subseteq open
    /\ pc \notin {"concurrent", "done"} => conflict = 0
    /\ pc \in {"concurrent", "done"} =>
         conflict + Cardinality(Refused) + Cardinality(Stale) <= Budget

\* A set with one element for each awaited call has no more than Concurrency.
LEMMA OnePerWriter ==
  ASSUME AwaitInv, pc \in {"concurrent", "done"},
         NEW S, \A x \in S : x.id \in Awaited, \A x, y \in S : x.id = y.id => x = y
  PROVE  IsFiniteSet(S) /\ Cardinality(S) \in Nat /\ Cardinality(S) <= Concurrency
  <1>. DEFINE f == [x \in S |-> x.id.w]
  <1>1. \A x \in S : x.id.w \in Writers /\ x.id = WriterCall(x.id.w)
    BY DEF AwaitInv
  <1>2. f \in Injection(S, Writers)
    BY <1>1 DEF Injection, IsInjective
  <1>3. IsFiniteSet(Writers) /\ Cardinality(Writers) = Concurrency
    BY FS_Interval, BenchAssumption DEF Writers
  <1>. HIDE DEF f
  <1>4. IsFiniteSet(S) /\ Cardinality(S) <= Cardinality(Writers)
    BY <1>2, <1>3, FS_Injection
  <1>. QED
    BY <1>3, <1>4, FS_CardinalityType

\* The swaps of the rivals are finitely many.
LEMMA RivalsFinite == TypeOK => IsFiniteSet(Rivals) /\ Cardinality(Rivals) \in Nat
  <1>. SUFFICES ASSUME TypeOK PROVE IsFiniteSet(Rivals)
    BY FS_CardinalityType
  <1>1. Len(log) \in Nat /\ Rivals \subseteq 1..Len(log)
    BY DEF TypeOK, CatalogTypeOK, Rivals
  <1>2. IsFiniteSet(1..Len(log))
    BY <1>1, FS_Interval
  <1>. QED
    BY <1>1, <1>2, FS_Subset

\* The sets that the budget is about are finite.
LEMMA BudgetSets ==
  ASSUME TypeOK, FreshInv, AwaitInv, RangeInv, pc \in {"concurrent", "done"}, UnderWay \subseteq open
  PROVE  /\ IsFiniteSet(reading) /\ Cardinality(reading) \in Nat
         /\ Cardinality(reading) <= Concurrency
         /\ IsFiniteSet(Stale) /\ Cardinality(Stale) \in Nat
         /\ IsFiniteSet(Refused) /\ Cardinality(Refused) \in Nat
         /\ IsFiniteSet(WriterLanded) /\ Cardinality(WriterLanded) \in Nat
         /\ IsFiniteSet(Rivals) /\ Cardinality(Rivals) \in Nat
         /\ conflict \in Nat /\ Concurrency \in Nat /\ Budget \in Int
  <1>1. IsFiniteSet(reading) /\ Cardinality(reading) \in Nat /\ Cardinality(reading) <= Concurrency
    <2>1. \A r \in reading : r.id \in Awaited
      BY DEF UnderWay, Awaited
    <2>. QED
      BY <2>1, OnePerWriter DEF FreshInv
  <1>2. IsFiniteSet(answers)
    <2>1. \A a \in answers : a.id \in Awaited
      BY DEF Awaited
    <2>. QED
      BY <2>1, OnePerWriter DEF AwaitInv, OneAnswer
  <1>3. IsFiniteSet(WriterLanded)
    BY LandedFinite, FS_Subset DEF WriterLanded
  <1>4. IsFiniteSet(Rivals)
    BY RivalsFinite
  <1>5. /\ IsFiniteSet(Stale) /\ Cardinality(Stale) \in Nat
        /\ IsFiniteSet(Refused) /\ Cardinality(Refused) \in Nat
    BY <1>1, <1>2, FS_Subset, FS_CardinalityType DEF Stale, Refused
  <1>6. Cardinality(WriterLanded) \in Nat /\ Cardinality(Rivals) \in Nat
    BY <1>3, <1>4, FS_CardinalityType
  <1>7. conflict \in Nat /\ Concurrency \in Nat
    BY BenchAssumption DEF TypeOK
  <1>. QED
    BY <1>1, <1>3, <1>4, <1>5, <1>6, <1>7 DEF Budget

\* One more winner, and one more rival, raise the budget.
LEMMA BudgetOfAWinner ==
  ASSUME NEW a \in Nat, NEW b \in Nat, NEW c \in Nat
  PROVE  /\ (a - 1) * (b + 1) + a * c = (a - 1) * b + a * c + (a - 1)
         /\ (a - 1) * b + a * (c + 1) = (a - 1) * b + a * c + a
  OBVIOUS

\* Without a fault, the catalog closes the connection of a call together with
\* the call's work.
LEMMA CatalogUnderWay ==
  ASSUME TypeOK, FreshInv, UnderWay \subseteq open, CatalogNext, faults' = faults
  PROVE  UnderWay' \subseteq open'
  <1>f. faults \in Nat
    BY DEF TypeOK, CatalogTypeOK
  <1>1. ASSUME NEW r \in requests, ReadVersion(r) PROVE UnderWay' \subseteq open'
    <2>. DEFINE q == [id |-> r.id, key |-> r.key, base |-> Version]
    <2>1. /\ q.id = r.id /\ requests' \subseteq requests /\ reading' = reading \cup {q}
          /\ open' = open
      BY <1>1 DEF ReadVersion
    <2>. HIDE DEF q
    <2>. QED
      BY <2>1 DEF UnderWay
  <1>2. ASSUME NEW r \in requests, Replay(r) PROVE UnderWay' \subseteq open'
    <2>1. requests' = requests \ {r} /\ reading' = reading /\ open' = open \ {r.id}
      BY <1>2 DEF Replay, Respond
    <2>. QED
      BY <2>1 DEF UnderWay, FreshInv
  <1>3. ASSUME NEW r \in reading, Land(r) \/ Conflict(r) PROVE UnderWay' \subseteq open'
    <2>1. requests' = requests /\ reading' = reading \ {r} /\ open' = open \ {r.id}
      BY <1>3 DEF Land, Conflict, Respond
    <2>. QED
      BY <2>1 DEF UnderWay, FreshInv
  <1>4. CASE RivalCommit
    BY <1>4 DEF RivalCommit, UnderWay
  <1>5. CASE Trouble
    BY <1>f, <1>5 DEF Trouble, ServerError, Disconnect
  <1>. QED
    BY <1>1, <1>2, <1>3, <1>4, <1>5 DEF CatalogNext, Progress

\* A commit of a writer pays for the requests it makes stale.
LEMMA BudgetLand ==
  ASSUME TypeOK, FreshInv, AwaitInv, RangeInv, pc \in {"concurrent", "done"}, UnderWay \subseteq open,
         conflict + Cardinality(Refused) + Cardinality(Stale) <= Budget,
         NEW r \in reading, Land(r), UNCHANGED <<run, conflict>>
  PROVE  (conflict + Cardinality(Refused) + Cardinality(Stale) <= Budget)'
  <1>1. /\ log' = Append(log, r.id) /\ reading' = reading \ {r}
        /\ \A a \in answers' : a \in answers \/ a.status = "2xx"
        /\ answers \subseteq answers'
    BY DEF Land, Respond
  <1>2. r.id \in Calls /\ r.id # RivalCall /\ r.id \notin Landed
    BY BenchAssumption DEF TypeOK, CatalogTypeOK, Calls, RivalCall, FreshInv
  <1>3. r.id.run = run /\ r.id.phase = "concurrent"
    BY DEF UnderWay, AwaitInv, Awaited, WriterCall, Call
  <1>4. WriterLanded' = WriterLanded \cup {r.id} /\ r.id \notin WriterLanded
    <2>1. Landed' = Landed \cup {r.id}
      BY <1>1, LandedAppend DEF TypeOK
    <2>. QED
      BY <1>2, <1>3, <2>1 DEF WriterLanded
  <1>5. Rivals' = Rivals
    <2>1. /\ DOMAIN log' = DOMAIN log \cup {Len(log) + 1} /\ log'[Len(log) + 1] = r.id
          /\ \A m \in DOMAIN log : log'[m] = log[m]
      BY <1>1 DEF TypeOK, CatalogTypeOK
    <2>. QED
      BY <1>2, <2>1 DEF Rivals, RivalCall
  <1>6. Refused' = Refused
    BY <1>1 DEF Refused
  <1>7. Stale' \subseteq reading \ {r}
    BY <1>1 DEF Stale
  <1>8. /\ IsFiniteSet(reading) /\ Cardinality(reading) \in Nat /\ Cardinality(reading) <= Concurrency
        /\ Cardinality(Stale) \in Nat /\ Cardinality(Refused) \in Nat
        /\ IsFiniteSet(WriterLanded) /\ Cardinality(WriterLanded) \in Nat
        /\ Cardinality(Rivals) \in Nat /\ conflict \in Nat /\ Concurrency \in Nat /\ Budget \in Int
    BY BudgetSets
  <1>9. IsFiniteSet(reading \ {r}) /\ Cardinality(reading \ {r}) = Cardinality(reading) - 1
    BY <1>8, FS_RemoveElement
  <1>10. Cardinality(Stale') <= Concurrency - 1 /\ Cardinality(Stale') \in Nat
    <2>1. IsFiniteSet(Stale') /\ Cardinality(Stale') <= Cardinality(reading \ {r})
      BY <1>7, <1>9, FS_Subset
    <2>2. Cardinality(Stale') \in Nat
      BY <2>1, FS_CardinalityType
    <2>. QED
      BY <1>8, <1>9, <2>1, <2>2
  <1>11. Cardinality(WriterLanded') = Cardinality(WriterLanded) + 1
    BY <1>4, <1>8, FS_AddElement
  <1>12. Budget' = Budget + (Concurrency - 1)
    BY <1>5, <1>8, <1>11, BudgetOfAWinner DEF Budget
  <1>. QED
    BY <1>6, <1>8, <1>10, <1>12

\* So does a commit of a rival.
LEMMA BudgetRival ==
  ASSUME TypeOK, FreshInv, AwaitInv, RangeInv, pc \in {"concurrent", "done"}, UnderWay \subseteq open,
         conflict + Cardinality(Refused) + Cardinality(Stale) <= Budget,
         RivalCommit, UNCHANGED <<run, conflict>>
  PROVE  (conflict + Cardinality(Refused) + Cardinality(Stale) <= Budget)'
  <1>1. log' = Append(log, RivalCall) /\ reading' = reading /\ answers' = answers
    BY DEF RivalCommit
  <1>2. WriterLanded' = WriterLanded
    <2>1. Landed' = Landed \cup {RivalCall}
      BY <1>1, LandedAppend DEF TypeOK
    <2>2. RivalCall.phase # "concurrent"
      BY DEF RivalCall
    <2>. QED
      BY <2>1, <2>2 DEF WriterLanded
  <1>3. Rivals' = Rivals \cup {Len(log) + 1} /\ Len(log) + 1 \notin Rivals
    <2>1. /\ DOMAIN log' = DOMAIN log \cup {Len(log) + 1} /\ log'[Len(log) + 1] = RivalCall
          /\ \A m \in DOMAIN log : log'[m] = log[m]
          /\ Len(log) + 1 \notin DOMAIN log
      BY <1>1 DEF TypeOK, CatalogTypeOK
    <2>. QED
      BY <2>1 DEF Rivals, RivalCall
  <1>4. Refused' = Refused /\ Stale' \subseteq reading
    BY <1>1 DEF Refused, Stale
  <1>5. /\ IsFiniteSet(reading) /\ Cardinality(reading) \in Nat /\ Cardinality(reading) <= Concurrency
        /\ Cardinality(Stale) \in Nat /\ Cardinality(Refused) \in Nat
        /\ IsFiniteSet(Rivals) /\ Cardinality(WriterLanded) \in Nat
        /\ Cardinality(Rivals) \in Nat /\ conflict \in Nat /\ Concurrency \in Nat /\ Budget \in Int
    BY BudgetSets
  <1>6. Cardinality(Stale') <= Concurrency /\ Cardinality(Stale') \in Nat
    <2>1. IsFiniteSet(Stale') /\ Cardinality(Stale') <= Cardinality(reading)
      BY <1>4, <1>5, FS_Subset
    <2>2. Cardinality(Stale') \in Nat
      BY <2>1, FS_CardinalityType
    <2>. QED
      BY <1>5, <2>1, <2>2
  <1>7. Cardinality(Rivals') = Cardinality(Rivals) + 1
    BY <1>3, <1>5, FS_AddElement
  <1>8. Budget' = Budget + Concurrency
    BY <1>2, <1>5, <1>7, BudgetOfAWinner DEF Budget
  <1>. QED
    BY <1>4, <1>5, <1>6, <1>8

\* The other steps of the catalog move a conflict on at most.
LEMMA BudgetCatalog ==
  ASSUME TypeOK, FreshInv, AwaitInv, RangeInv, pc \in {"concurrent", "done"}, UnderWay \subseteq open,
         conflict + Cardinality(Refused) + Cardinality(Stale) <= Budget,
         CatalogNext, faults' = faults, UNCHANGED <<run, conflict>>
  PROVE  (conflict + Cardinality(Refused) + Cardinality(Stale) <= Budget)'
  <1>. DEFINE P == (conflict + Cardinality(Refused) + Cardinality(Stale) <= Budget)'
  <1>f. faults \in Nat
    BY DEF TypeOK, CatalogTypeOK
  <1>c. log' = log => UNCHANGED <<Budget, Version>>
    BY DEF Budget, WriterLanded, Landed, Rivals, RivalCall, Version
  <1>1. ASSUME NEW r \in requests, ReadVersion(r) PROVE P
    <2>. DEFINE q == [id |-> r.id, key |-> r.key, base |-> Version]
    <2>1. q.base = Version /\ reading' = reading \cup {q} /\ answers' = answers /\ log' = log
      BY <1>1 DEF ReadVersion
    <2>. HIDE DEF q
    <2>2. Stale' = Stale /\ Refused' = Refused
      BY <1>c, <2>1 DEF Stale, Refused
    <2>. QED
      BY <1>c, <2>1, <2>2
  <1>2. ASSUME NEW r \in requests, Replay(r) PROVE P
    <2>1. /\ reading' = reading /\ log' = log /\ answers \subseteq answers'
          /\ \A a \in answers' : a \in answers \/ a.status = "2xx"
      BY <1>2 DEF Replay, Respond
    <2>2. Stale' = Stale /\ Refused' = Refused
      BY <1>c, <2>1 DEF Stale, Refused
    <2>. QED
      BY <1>c, <2>1, <2>2
  <1>3. ASSUME NEW r \in reading, Land(r) PROVE P
    BY <1>3, BudgetLand
  <1>4. ASSUME NEW r \in reading, Conflict(r) PROVE P
    <2>. DEFINE a == [id |-> r.id, status |-> "409"]
    <2>1. /\ a.status = "409" /\ reading' = reading \ {r} /\ log' = log /\ r.base # Version
          /\ answers' = answers \cup {a} \/ answers' = answers
      BY <1>4 DEF Conflict, Respond
    <2>. HIDE DEF a
    <2>2. /\ Stale' = Stale \ {r} /\ r \in Stale
          /\ Refused' = Refused \cup {a} \/ Refused' = Refused
      BY <1>c, <2>1 DEF Stale, Refused
    <2>3. /\ IsFiniteSet(Stale) /\ Cardinality(Stale) \in Nat
          /\ IsFiniteSet(Refused) /\ Cardinality(Refused) \in Nat
          /\ conflict \in Nat /\ Budget \in Int
      BY BudgetSets
    <2>4. Cardinality(Stale') = Cardinality(Stale) - 1
      BY <2>2, <2>3, FS_RemoveElement
    <2>5. Cardinality(Refused') \in Nat /\ Cardinality(Refused') <= Cardinality(Refused) + 1
      <3>1. CASE Refused' = Refused
        BY <2>3, <3>1
      <3>2. CASE Refused' = Refused \cup {a}
        BY <2>3, <3>2, OneMore
      <3>. QED
        BY <2>2, <3>1, <3>2
    <2>. QED
      BY <1>c, <2>1, <2>3, <2>4, <2>5
  <1>5. CASE RivalCommit
    BY <1>5, BudgetRival
  <1>6. CASE Trouble
    BY <1>f, <1>6 DEF Trouble, ServerError, Disconnect
  <1>. QED
    BY <1>1, <1>2, <1>3, <1>4, <1>5, <1>6 DEF CatalogNext, Progress

\* What the budget is about is left alone by most steps of the program.
LEMMA BudgetStable ==
  ASSUME UNCHANGED <<log, reading, answers, run, conflict>>
  PROVE  UNCHANGED <<Refused, Stale, Budget>>
  BY DEF Refused, Stale, Version, Budget, WriterLanded, Landed, Rivals, RivalCall

\* Every step keeps BudgetInv.
LEMMA BudgetStep ==
  TypeOK /\ FreshInv /\ AwaitInv /\ RangeInv /\ BudgetInv /\ [Next]_vars => BudgetInv'
  <1>. SUFFICES ASSUME TypeOK, FreshInv, AwaitInv, RangeInv, BudgetInv, [Next]_vars,
                       run' = 1, faults' = 0
                PROVE  BudgetInv'
    BY DEF BudgetInv
  <1>u. UNCHANGED <<requests, reading>> => UnderWay' = UnderWay
    BY DEF UnderWay
  <1>1. CASE /\ UNCHANGED <<requests, reading, open, faults, run>>
             /\ pc # "killed" /\ pc' \notin {"concurrent", "done"} /\ conflict' = 0
    BY <1>1, <1>u DEF BudgetInv
  <1>2. CASE /\ UNCHANGED <<log, requests, reading, open, answers, faults, run, conflict>>
             /\ pc = "concurrent" /\ pc' \in {"concurrent", "done"}
    BY <1>2, <1>u, BudgetStable DEF BudgetInv
  <1>3. CASE create_namespace \/ create_table \/ load_table_uuid
    <2>1. /\ UNCHANGED <<requests, reading, open, run, conflict>>
          /\ pc \in {"create_namespace", "create_table", "load_table_uuid"}
          /\ pc' \notin {"concurrent", "done", "killed"}
          /\ faults = faults' \/ faults' = faults + 1
      BY <1>3 DEF create_namespace, create_table, load_table_uuid, CreateRequest, tableVars,
        measureVars
    <2>2. faults = 0
      BY <2>1 DEF TypeOK, CatalogTypeOK
    <2>. QED
      BY <1>u, <2>1, <2>2 DEF BudgetInv
  <1>4. CASE WarmupCommit \/ SequentialCommit
    <2>1. PICK c : commit(c) /\ UNCHANGED clientVars /\ pc \in {"warmup", "sequential"}
      BY <1>4 DEF WarmupCommit, SequentialCommit, StartLoopCall
    <2>2. UnderWay' = UnderWay \cup {c} /\ open' = open \cup {c} /\ faults' = faults
      BY <2>1, CommitCalls DEF commit, Send
    <2>. QED
      BY <2>1, <2>2 DEF BudgetInv, clientVars
  <1>5. CASE WarmupReturns \/ WarmupDone \/ SequentialReturns
    <2>1. /\ UNCHANGED <<requests, reading, open, faults, run, conflict>>
          /\ pc \in {"warmup", "sequential"}
          /\ pc' \in {"warmup", "sequential", "failed"}
      BY <1>5 DEF WarmupReturns, WarmupDone, SequentialReturns, SequentialErr, Receive, catalogVars
    <2>. QED
      BY <1>u, <2>1 DEF BudgetInv
  <1>6. CASE SequentialDone
    <2>1. /\ pc = "sequential" /\ i = Iterations /\ pc' = "concurrent" /\ conflict' = 0
          /\ UNCHANGED <<log, requests, reading, open, answers, faults, run>>
      BY <1>6 DEF SequentialDone, catalogVars
    <2>2. Awaited = {}
      BY <2>1, BenchAssumption DEF AwaitInv
    <2>3. open = {} /\ answers = {}
      BY <2>2 DEF Awaited
    <2>4. UnderWay = {} /\ reading = {}
      BY <2>1, <2>3 DEF BudgetInv, UnderWay
    <2>5. Refused' = {} /\ Stale' = {} /\ UnderWay' = {}
      BY <2>1, <2>3, <2>4 DEF Refused, Stale, UnderWay
    <2>6. UNCHANGED <<WriterLanded, Rivals>> /\ Budget' = Budget
      BY <2>1 DEF Budget, WriterLanded, Landed, Rivals, RivalCall
    <2>7. WriterLanded = {}
      <3>1. \A c \in WriterLanded : Issued(c) /\ c.run = run /\ c.phase = "concurrent"
        BY DEF WriterLanded, FreshInv, RivalCall
      <3>. QED
        BY <2>1, <3>1 DEF Issued, Exited, SequentialCall, Call, TypeOK
    <2>8. Cardinality(Rivals) \in Nat /\ Concurrency \in Nat
      BY RivalsFinite, BenchAssumption
    <2>9. Budget \in Nat
      BY <2>7, <2>8, FS_EmptySet DEF Budget
    <2>. QED
      BY <2>1, <2>5, <2>6, <2>9, FS_EmptySet DEF BudgetInv
  <1>7. CASE Report \/ Tick \/ \E w \in Writers : CheckDeadline(w)
    BY <1>2, <1>7 DEF Report, Tick, CheckDeadline, catalogVars
  <1>8. ASSUME NEW w \in Writers, WriterCommit(w) PROVE BudgetInv'
    <2>1. PICK c : c = Call("concurrent", w, NextCounter(w))
      OBVIOUS
    <2>2. commit(c) /\ pc = "concurrent" /\ UNCHANGED <<pc, run, conflict>>
      BY <1>8, <2>1 DEF WriterCommit
    <2>3. /\ UnderWay' = UnderWay \cup {c} /\ open' = open \cup {c}
          /\ UNCHANGED <<log, reading, answers, faults>>
      BY <2>2, CommitCalls DEF commit, Send
    <2>. QED
      BY <2>2, <2>3, BudgetStable DEF BudgetInv
  <1>9. ASSUME NEW w \in Writers, WriterReturns(w) PROVE BudgetInv'
    <2>1. /\ pc = "concurrent" /\ UNCHANGED <<pc, run, log, requests, reading, open, faults>>
          /\ \/ \E s \in {"2xx", "error"} : Receive(WriterCall(w), s) /\ conflict' = conflict
             \/ Receive(WriterCall(w), "409") /\ conflict' = conflict + 1
      BY <1>9 DEF WriterReturns, WriterOk, WriterConflict, WriterErr, Receive
    <2>2. UNCHANGED <<Stale, Budget>>
      BY <2>1 DEF Stale, Version, Budget, WriterLanded, Landed, Rivals, RivalCall
    <2>3. UnderWay \subseteq open /\ conflict + Cardinality(Refused) + Cardinality(Stale) <= Budget
      BY <2>1 DEF BudgetInv
    <2>4. IsFiniteSet(Refused) /\ Cardinality(Refused) \in Nat /\ conflict \in Nat
          /\ Cardinality(Stale) \in Nat /\ Budget \in Int
      BY <2>1, <2>3, BudgetSets
    <2>5. conflict' + Cardinality(Refused') = conflict + Cardinality(Refused)
      <3>1. ASSUME NEW s \in {"2xx", "error"}, Receive(WriterCall(w), s), conflict' = conflict
            PROVE  Refused' = Refused
        BY <3>1 DEF Receive, Refused
      <3>2. ASSUME Receive(WriterCall(w), "409"), conflict' = conflict + 1
            PROVE  conflict' + Cardinality(Refused') = conflict + Cardinality(Refused)
        <4>. DEFINE a == [id |-> WriterCall(w), status |-> "409"]
        <4>1. a \in Refused /\ Refused' = Refused \ {a}
          BY <3>2 DEF Receive, Refused
        <4>. HIDE DEF a
        <4>2. Cardinality(Refused') = Cardinality(Refused) - 1
          BY <2>4, <4>1, FS_RemoveElement
        <4>. QED
          BY <2>4, <3>2, <4>2
      <3>. QED
        BY <2>1, <3>1, <3>2
    <2>. QED
      BY <1>u, <2>1, <2>2, <2>3, <2>4, <2>5 DEF BudgetInv
  <1>10. CASE CatalogNext /\ UNCHANGED clientVars
    <2>1. UNCHANGED <<pc, run, conflict>>
      BY <1>10 DEF clientVars
    <2>2. faults = 0
      BY <1>10 DEF TypeOK, CatalogTypeOK, CatalogNext, Progress, Trouble, ReadVersion, Replay, Land,
        Conflict, ServerError, Disconnect, RivalCommit
    <2>3. pc # "killed" => UnderWay \subseteq open /\ UnderWay' \subseteq open'
      BY <1>10, <2>1, <2>2, CatalogUnderWay DEF BudgetInv
    <2>4. CASE pc \notin {"concurrent", "done"}
      BY <2>1, <2>2, <2>3, <2>4 DEF BudgetInv
    <2>5. CASE pc \in {"concurrent", "done"}
      <3>1. conflict + Cardinality(Refused) + Cardinality(Stale) <= Budget
        BY <2>1, <2>2, <2>5 DEF BudgetInv
      <3>2. (conflict + Cardinality(Refused) + Cardinality(Stale) <= Budget)'
        BY <1>10, <2>1, <2>2, <2>3, <2>5, <3>1, BudgetCatalog
      <3>. QED
        BY <2>1, <2>3, <2>5, <3>2 DEF BudgetInv
    <2>. QED
      BY <2>4, <2>5
  <1>11. CASE Crash
    BY <1>11 DEF Crash, FreshProcess, BudgetInv
  <1>12. CASE StartAgain
    BY <1>12 DEF StartAgain, TypeOK
  <1>13. CASE UNCHANGED vars
    <2>1. UNCHANGED <<log, requests, reading, open, answers, faults, run, conflict, pc>>
      BY <1>13 DEF vars, catalogVars, clientVars
    <2>. QED
      BY <1>u, <2>1, BudgetStable DEF BudgetInv
  <1>. QED
    BY <1>3, <1>4, <1>5, <1>6, <1>7, <1>8, <1>9, <1>10, <1>11, <1>12, <1>13
    DEF Next, Main, Writer, Terminated

\* Every conflict has a winner: without faults, the first run counts at most
\* Concurrency - 1 conflicts for each commit of a writer, and Concurrency for
\* each commit of a rival.
THEOREM ConflictsHaveWinnersHolds == Spec => []ConflictsHaveWinners
  <1>1. Init => BudgetInv
    <2>. SUFFICES ASSUME Init PROVE BudgetInv
      OBVIOUS
    <2>1. UnderWay = {} /\ open = {} /\ conflict = 0 /\ pc \notin {"concurrent", "done"}
      BY DEF Init, CatalogInit, UnderWay, Start
    <2>. QED
      BY <2>1 DEF BudgetInv
  <1>2. TypeOK /\ FreshInv /\ AwaitInv /\ RangeInv /\ BudgetInv /\ [Next]_vars => BudgetInv'
    BY BudgetStep
  <1>3. ASSUME TypeOK, FreshInv, AwaitInv, RangeInv, BudgetInv PROVE ConflictsHaveWinners
    <2>. SUFFICES ASSUME run = 1, faults = 0 PROVE conflict <= Budget
      BY DEF ConflictsHaveWinners, Budget, Rivals
    <2>1. CASE pc \in {"concurrent", "done"}
      <3>1. /\ Cardinality(Refused) \in Nat /\ Cardinality(Stale) \in Nat /\ conflict \in Nat
            /\ Budget \in Int
        BY <1>3, <2>1, BudgetSets DEF BudgetInv
      <3>. QED
        BY <1>3, <2>1, <3>1 DEF BudgetInv
    <2>2. CASE pc \notin {"concurrent", "done"}
      <3>1. conflict = 0 /\ Concurrency \in Nat
        BY <1>3, <2>2, BenchAssumption DEF BudgetInv
      <3>2. IsFiniteSet(WriterLanded) /\ Cardinality(WriterLanded) \in Nat
        BY <1>3, LandedFinite, FS_Subset, FS_CardinalityType DEF WriterLanded
      <3>4. Cardinality(Rivals) \in Nat
        BY <1>3, RivalsFinite
      <3>5. Concurrency = 0 => WriterLanded = {}
        BY <1>3 DEF RangeInv, Ranged, WriterLanded, OwnLanded, RivalCall, Writers
      <3>6. Budget >= 0
        <4>1. CASE Concurrency = 0
          BY <3>4, <3>5, <4>1, FS_EmptySet DEF Budget
        <4>2. CASE Concurrency - 1 \in Nat
          BY <3>1, <3>2, <3>4, <4>2 DEF Budget
        <4>. QED
          BY <3>1, <4>1, <4>2
      <3>. QED
        BY <3>1, <3>6
    <2>. QED
      BY <2>1, <2>2
  <1>. QED
    BY <1>1, <1>2, <1>3, KeyInvariants, PTL DEF Spec
=============================================================================
