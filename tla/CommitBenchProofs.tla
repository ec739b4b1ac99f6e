-------------------------- MODULE CommitBenchProofs --------------------------
(***************************************************************************)
(* Proofs about CommitBench, for every number of writers, commits, runs,   *)
(* rivals and faults.                                                      *)
(***************************************************************************)
EXTENDS CommitBench, CatalogProofs

-----------------------------------------------------------------------------
(* Type correctness.                                                       *)

\* The first counters of the writers are natural numbers.
LEMMA FirstCounters ==
  [w \in Writers |-> FirstCounter(w)] \in [Writers -> Nat]
  BY BenchAssumption DEF Writers, FirstCounter, WriterStride

\* Init establishes the type invariant.
LEMMA InitType == Init => TypeOK
  <1>. SUFFICES ASSUME Init PROVE TypeOK
    OBVIOUS
  <1>1. CatalogTypeOK(Calls, Nat)
    BY DEF Init, CatalogInit, CatalogTypeOK, Statuses
  <1>2. n \in [Writers -> Nat]
    BY FirstCounters DEF Init
  <1>3. run \in 1..MaxRuns
    BY BenchAssumption DEF Init
  <1>. QED
    BY <1>1, <1>2, <1>3 DEF Init, TypeOK, Start, Exited, NoReport

\* A call of the current run is a call.
LEMMA CallType ==
  ASSUME TypeOK, NEW phase \in Phases, NEW w \in Nat, NEW c \in Nat
  PROVE  Call(phase, w, c) \in Calls
  BY DEF TypeOK, Call, Calls

\* commit keeps the types of the catalog's state.
LEMMA CommitType ==
  ASSUME CatalogTypeOK(Calls, Nat), NEW c \in Calls, commit(c)
  PROVE  CatalogTypeOK(Calls, Nat)'
  <1>1. Key(c.n) \in SUBSET Nat
    BY DEF Calls, Key
  <1>. QED
    BY <1>1, SendType DEF commit

\* Every step keeps the types.
LEMMA NextType == TypeOK /\ [Next]_vars => TypeOK'
  <1>. SUFFICES ASSUME TypeOK, [Next]_vars PROVE TypeOK'
    OBVIOUS
  <1>t. CatalogTypeOK(Calls, Nat)
    BY DEF TypeOK
  <1>f. [w \in Writers |-> FirstCounter(w)] \in [Writers -> Nat]
    BY FirstCounters
  <1>w. \A w \in Writers : w \in Nat
    BY BenchAssumption DEF Writers
  <1>l. WarmupCall \in Calls /\ SequentialCall \in Calls
    <2>1. i \in Nat /\ WarmupBase + i \in Nat
      BY DEF TypeOK, WarmupBase
    <2>. QED
      BY <2>1, CallType DEF WarmupCall, SequentialCall, Phases
  <1>1. CASE create_namespace \/ create_table \/ load_table_uuid
    <2>1. created' \in {"nothing", "namespace", "table"} /\ faults' \in Nat
      BY <1>1, CatalogAssumption DEF create_namespace, create_table, load_table_uuid,
        CreateRequest, TypeOK, CatalogTypeOK
    <2>2. pc' \in {"create_table", "load_table_uuid", "warmup", "failed"}
      BY <1>1 DEF create_namespace, create_table, load_table_uuid, CreateRequest
    <2>3. UNCHANGED <<tableVars, measureVars>>
      BY <1>1 DEF create_namespace, create_table, load_table_uuid
    <2>. QED
      BY <2>1, <2>2, <2>3 DEF tableVars, measureVars, TypeOK, CatalogTypeOK, Exited
  <1>2. CASE WarmupCommit \/ SequentialCommit
    <2>1. CatalogTypeOK(Calls, Nat)'
      BY <1>2, <1>t, <1>l, CommitType DEF WarmupCommit, SequentialCommit, StartLoopCall
    <2>. QED
      BY <1>2, <2>1 DEF TypeOK, WarmupCommit, SequentialCommit, StartLoopCall, clientVars
  <1>3. CASE WarmupReturns
    <2>1. CatalogTypeOK(Calls, Nat)'
      BY <1>3, <1>t, ReceiveType DEF WarmupReturns
    <2>. QED
      BY <1>3, <2>1 DEF TypeOK, WarmupReturns, Exited
  <1>4. CASE SequentialReturns
    <2>1. CatalogTypeOK(Calls, Nat)'
      BY <1>4, <1>t, ReceiveType DEF SequentialReturns, SequentialErr
    <2>. QED
      BY <1>4, <2>1 DEF TypeOK, SequentialReturns, SequentialErr, Exited
  <1>5. CASE WarmupDone \/ SequentialDone
    <2>1. CASE WarmupDone
      BY <2>1 DEF TypeOK, WarmupDone, catalogVars, CatalogTypeOK
    <2>2. CASE SequentialDone
      BY <2>2, <1>f DEF TypeOK, SequentialDone, catalogVars, CatalogTypeOK
    <2>. QED
      BY <1>5, <2>1, <2>2
  <1>6. CASE Report
    BY <1>6, BenchAssumption DEF TypeOK, Report, catalogVars, CatalogTypeOK, Exited
  <1>7. ASSUME NEW w \in Writers, CheckDeadline(w) PROVE TypeOK'
    BY <1>7 DEF TypeOK, CheckDeadline, catalogVars, CatalogTypeOK
  <1>8. ASSUME NEW w \in Writers, WriterCommit(w) PROVE TypeOK'
    <2>. DEFINE c == Call("concurrent", w, NextCounter(w))
    <2>1. NextCounter(w) \in Nat
      BY DEF NextCounter, TypeOK
    <2>2. c \in Calls
      BY <1>w, <2>1, CallType DEF Phases
    <2>3. commit(c)
      BY <1>8 DEF WriterCommit
    <2>4. CatalogTypeOK(Calls, Nat)'
      BY <1>t, <2>2, <2>3, CommitType
    <2>. QED
      BY <1>8, <2>1, <2>2, <2>4 DEF TypeOK, WriterCommit
  <1>9. ASSUME NEW w \in Writers, WriterReturns(w) PROVE TypeOK'
    <2>1. CatalogTypeOK(Calls, Nat)'
      BY <1>9, <1>t, ReceiveType DEF WriterReturns, WriterOk, WriterConflict, WriterErr
    <2>2. n[w] \in Nat
      BY DEF TypeOK
    <2>3. WriterCall(w) \in Calls
      BY <1>w, <2>2, CallType DEF WriterCall, Phases
    <2>. QED
      BY <1>9, <2>1, <2>3 DEF TypeOK, WriterReturns, WriterOk, WriterConflict, WriterErr
  <1>10. CASE Tick
    BY <1>10 DEF TypeOK, Tick, catalogVars, CatalogTypeOK
  <1>11. CASE CatalogNext /\ UNCHANGED clientVars
    <2>1. CatalogTypeOK(Calls, Nat)'
      BY <1>11, <1>t, CatalogType
    <2>. QED
      BY <1>11, <2>1 DEF TypeOK, clientVars
  <1>12. CASE Crash
    <2>1. CatalogTypeOK(Calls, Nat)'
      BY <1>12, <1>t DEF Crash, HangUp, CatalogTypeOK
    <2>. QED
      BY <1>12, <1>f, <2>1 DEF TypeOK, Crash, FreshProcess, Exited
  <1>13. CASE StartAgain
    <2>1. CatalogTypeOK(Calls, Nat)'
      BY <1>13, <1>t DEF StartAgain, catalogVars, CatalogTypeOK
    <2>2. run' \in 1..MaxRuns
      BY <1>13, BenchAssumption DEF TypeOK, StartAgain
    <2>. QED
      BY <1>13, <1>f, <2>1, <2>2 DEF TypeOK, StartAgain, FreshProcess, Start, NoReport
  <1>14. CASE Terminated \/ UNCHANGED vars
    BY <1>14 DEF Terminated, vars, clientVars, catalogVars, TypeOK, CatalogTypeOK
  <1>. QED
    BY <1>1, <1>2, <1>3, <1>4, <1>5, <1>6, <1>7, <1>8, <1>9, <1>10, <1>11, <1>12, <1>13, <1>14
    DEF Next, Main, Writer

\* Type correctness: in every state the program and the catalog reach, every
\* variable has its type.
THEOREM TypeCorrect == Spec => []TypeOK
  BY InitType, NextType, PTL DEF Spec

-----------------------------------------------------------------------------
(* A call lands at most once.                                              *)

\* The calls that the program has issued, told from where it is: what is left
\* of earlier runs, the finished phases, the finished iterations of a loop
\* and the one whose answer it awaits, and the writers' counters so far.
Issued(c) ==
  \/ c.run < run
  \/ /\ c.run = run
     /\ \/ pc \in Exited
        \/ c.phase = "warmup" /\ pc \in {"sequential", "concurrent"}
        \/ c.phase = "sequential" /\ pc = "concurrent"
        \/ pc = "warmup" /\ c.phase = "warmup" /\ c.n < WarmupBase + i
        \/ pc = "sequential" /\ c.phase = "sequential" /\ c.n < i
        \/ pc = "warmup" /\ c = WarmupCall /\ Awaiting(c)
        \/ pc = "sequential" /\ c = SequentialCall /\ Awaiting(c)
        \/ /\ pc = "concurrent" /\ c.phase = "concurrent"
           /\ c.w \in Writers /\ c.n <= n[c.w]

\* Every request and every landed call has been issued, a call has one
\* request, and none once it has landed.
FreshInv ==
  /\ \A r \in requests : Issued(r.id) /\ r.id \notin Landed
  /\ \A r \in reading : Issued(r.id) /\ r.id \notin Landed
  /\ \A r \in requests : \A q \in reading : r.id # q.id
  /\ \A r, q \in reading : r.id = q.id => r = q
  /\ \A r, q \in requests : r.id = q.id => r = q
  /\ \A c \in Landed : c = RivalCall \/ Issued(c)
  /\ LandsAtMostOnce

\* Without replays, a 2xx answer belongs to a call that has landed, and ok
\* counts the calls of its history variable, each of them before the writer
\* that issued it goes on to its next one.
CountInv ==
  /\ \A r \in requests : ~Idempotency => r.key = {}
  /\ \A a \in answers : a.status = "2xx" => a.id \in Landed
  /\ IsFiniteSet(counted)
  /\ ok = Cardinality(counted)
  /\ counted \subseteq Landed
  /\ pc \notin {"concurrent", "done"} => counted = {}
  /\ \A c \in counted :
       /\ c.run = run /\ c.phase = "concurrent" /\ c.w \in Writers
       /\ c.n <= n[c.w]
       /\ wpc[c.w] = "wait" => c.n < n[c.w]
  /\ pc = "done" => report.ok = ok

\* A writer that has issued a call after the deadline does not get to another.
LateInv ==
  /\ late # {} => expired /\ pc \in {"concurrent", "done"}
  /\ \A c \in late : c.w \in Writers /\ wpc[c.w] # "call"
  /\ \A c, d \in late : c.w = d.w => c = d

\* The catalog never takes an answer away from a caller.
LEMMA AwaitingStable ==
  ASSUME NEW c, CatalogNext, Awaiting(c)
  PROVE  Awaiting(c)'
  <1>1. ASSUME NEW d, NEW s \in Statuses, Respond(d, s) PROVE Awaiting(c)'
    BY <1>1 DEF Awaiting, Respond
  <1>2. "2xx" \in Statuses /\ "409" \in Statuses /\ "error" \in Statuses
    BY DEF Statuses
  <1>3. ASSUME NEW r \in requests, ReadVersion(r) PROVE Awaiting(c)'
    BY <1>3 DEF ReadVersion, Awaiting
  <1>4. ASSUME NEW d \in open, Disconnect(d) PROVE Awaiting(c)'
    BY <1>2, <1>4 DEF Disconnect, Awaiting
  <1>5. CASE RivalCommit
    BY <1>5 DEF RivalCommit, Awaiting
  <1>. QED
    BY <1>1, <1>2, <1>3, <1>4, <1>5
    DEF CatalogNext, Progress, Trouble, Replay, Land, Conflict, ServerError

\* What has been issued stays so.
LEMMA IssuedStable ==
  ASSUME TypeOK, [Next]_vars, NEW c \in Calls, Issued(c)
  PROVE  Issued(c)'
  <1>t. /\ run \in Nat /\ i \in Nat /\ c.run \in Nat /\ c.n \in Nat
        /\ \A w \in Writers : n[w] \in Nat
    BY BenchAssumption DEF TypeOK, Calls
  <1>1. CASE create_namespace \/ create_table \/ load_table_uuid
    BY <1>1 DEF create_namespace, create_table, load_table_uuid, CreateRequest,
      measureVars, Issued, Exited
  <1>2. CASE WarmupCommit \/ SequentialCommit
    BY <1>2 DEF WarmupCommit, SequentialCommit, StartLoopCall, commit, Send, clientVars,
      Issued, Awaiting, WarmupCall, SequentialCall, Call
  <1>3. CASE WarmupReturns
    <2>1. CASE c.run < run
      BY <1>3, <2>1 DEF WarmupReturns, Issued
    <2>2. CASE pc' = "failed"
      BY <1>3, <2>2, <1>t DEF WarmupReturns, Issued, Exited
    <2>3. CASE i' = i + 1 /\ pc' = pc /\ c.run = run
      BY <1>3, <2>3, <1>t DEF WarmupReturns, Issued, WarmupCall, Call, Exited, WarmupBase
    <2>. QED
      BY <1>3, <2>1, <2>2, <2>3 DEF WarmupReturns, Issued
  <1>4. CASE SequentialReturns
    <2>1. CASE c.run < run
      BY <1>4, <2>1 DEF SequentialReturns, Issued
    <2>2. CASE pc' = "failed"
      BY <1>4, <2>2, <1>t DEF SequentialReturns, Issued, Exited
    <2>3. CASE i' = i + 1 /\ pc' = pc /\ c.run = run
      BY <1>4, <2>3, <1>t DEF SequentialReturns, Issued, SequentialCall, Call, Exited
    <2>. QED
      BY <1>4, <2>1, <2>2, <2>3 DEF SequentialReturns, SequentialErr, Issued
  <1>5. CASE WarmupDone \/ SequentialDone \/ Report
    BY <1>5 DEF WarmupDone, SequentialDone, Report, Issued, Exited, WarmupCall,
      SequentialCall, Call
  <1>6. ASSUME NEW w \in Writers, CheckDeadline(w) PROVE Issued(c)'
    BY <1>6 DEF CheckDeadline, Issued
  <1>7. ASSUME NEW w \in Writers, WriterCommit(w) PROVE Issued(c)'
    BY <1>7, <1>t DEF WriterCommit, NextCounter, Issued, TypeOK
  <1>8. ASSUME NEW w \in Writers, WriterReturns(w) PROVE Issued(c)'
    BY <1>8 DEF WriterReturns, Issued
  <1>9. CASE Tick
    BY <1>9 DEF Tick, Issued
  <1>10. CASE CatalogNext /\ UNCHANGED clientVars
    <2>1. Awaiting(c) => Awaiting(c)'
      BY <1>10, AwaitingStable
    <2>. QED
      BY <1>10, <2>1 DEF clientVars, Issued, WarmupCall, SequentialCall, Call
  <1>11. CASE Crash
    BY <1>11 DEF Crash, Issued, Exited
  <1>12. CASE StartAgain
    BY <1>12, <1>t DEF StartAgain, Issued
  <1>13. CASE Terminated \/ UNCHANGED vars
    BY <1>13 DEF Terminated, vars, catalogVars, clientVars, Issued, Awaiting, WarmupCall,
      SequentialCall, Call
  <1>. QED
    BY <1>1, <1>2, <1>3, <1>4, <1>5, <1>6, <1>7, <1>8, <1>9, <1>10, <1>11, <1>12, <1>13
    DEF Next, Main, Writer

\* The calls that every step issues are new ones.
LEMMA LoopCallsAreNew ==
  ASSUME TypeOK
  PROVE  /\ WarmupCommit => ~Issued(WarmupCall)
         /\ SequentialCommit => ~Issued(SequentialCall)
  BY DEF TypeOK, WarmupCommit, SequentialCommit, StartLoopCall, Issued, Exited, WarmupCall,
    SequentialCall, Call, WarmupBase

\* The call that a writer issues has not been issued before.
LEMMA WriterCallsAreNew ==
  ASSUME TypeOK, NEW w \in Writers, WriterCommit(w)
  PROVE  ~Issued(Call("concurrent", w, NextCounter(w)))
  <1>1. n[w] \in Nat /\ run \in Nat
    BY DEF TypeOK
  <1>. QED
    BY <1>1 DEF WriterCommit, Issued, Exited, WarmupCall, SequentialCall, Call, NextCounter

\* Landing one more call lands no call twice.
LEMMA LandedAppend ==
  ASSUME CatalogTypeOK(Calls, Nat), NEW c, log' = Append(log, c)
  PROVE  /\ Landed' = Landed \cup {c}
         /\ (c = RivalCall \/ c \notin Landed) /\ LandsAtMostOnce => LandsAtMostOnce'
  BY LandedGrows DEF Landed, LandsAtMostOnce, RivalCall

\* A new request of a call that has not been issued keeps FreshInv.
LEMMA FreshSend ==
  ASSUME TypeOK, FreshInv, NEW c \in Calls, ~Issued(c), commit(c), Issued(c)',
         \A d \in Calls : Issued(d) => Issued(d)'
  PROVE  FreshInv'
  <1>. DEFINE q == [id |-> c, key |-> Key(c.n)]
  <1>1. requests' = requests \cup {q} /\ UNCHANGED <<log, reading>> /\ q.id = c
    BY DEF commit, Send
  <1>2. UNCHANGED Landed
    BY <1>1 DEF Landed
  <1>3. /\ \A r \in requests : r.id \in Calls
        /\ \A r \in reading : r.id \in Calls
        /\ \A d \in Landed : d = RivalCall \/ d \in Calls
    BY DEF TypeOK, CatalogTypeOK, Landed
  <1>4. c # RivalCall
    BY BenchAssumption DEF Calls, RivalCall
  <1>5. LandsAtMostOnce'
    BY <1>1 DEF FreshInv, LandsAtMostOnce, RivalCall
  <1>. QED
    BY <1>1, <1>2, <1>3, <1>4, <1>5 DEF FreshInv, RivalCall

\* Every step of the catalog keeps FreshInv.
LEMMA FreshCatalog ==
  ASSUME TypeOK, FreshInv, CatalogNext, \A d \in Calls : Issued(d) => Issued(d)'
  PROVE  FreshInv'
  <1>1. /\ \A r \in requests : r.id \in Calls
        /\ \A r \in reading : r.id \in Calls
        /\ \A d \in Landed : d = RivalCall \/ d \in Calls
        /\ CatalogTypeOK(Calls, Nat)
    BY DEF TypeOK, CatalogTypeOK, Landed
  <1>2. \A d \in Calls : d # RivalCall
    BY BenchAssumption DEF Calls, RivalCall
  <1>3. RivalCall' = RivalCall
    BY DEF RivalCall
  <1>4. log' = log => UNCHANGED Landed /\ (LandsAtMostOnce => LandsAtMostOnce')
    BY <1>3 DEF Landed, LandsAtMostOnce
  <1>5. ASSUME NEW r \in requests, ReadVersion(r) PROVE FreshInv'
    <2>. DEFINE q == [id |-> r.id, key |-> r.key, base |-> Version]
    <2>1. /\ requests' = requests \ {r} /\ reading' = reading \cup {q} /\ q.id = r.id
          /\ log' = log
      BY <1>5 DEF ReadVersion
    <2>. HIDE DEF q
    <2>. QED
      BY <2>1, <1>1, <1>2, <1>3, <1>4 DEF FreshInv
  <1>6. ASSUME NEW r \in requests, Replay(r) PROVE FreshInv'
    BY <1>6, <1>1, <1>2, <1>3, <1>4 DEF FreshInv, Replay
  <1>7. ASSUME NEW r \in reading, Land(r) PROVE FreshInv'
    <2>1. log' = Append(log, r.id) /\ reading' = reading \ {r} /\ requests' = requests
      BY <1>7 DEF Land
    <2>2. Landed' = Landed \cup {r.id} /\ LandsAtMostOnce'
      BY <1>1, <2>1, LandedAppend DEF FreshInv
    <2>. QED
      BY <2>1, <2>2, <1>1, <1>2, <1>3 DEF FreshInv
  <1>8. ASSUME NEW r \in reading, Conflict(r) \/ ServerError(r) PROVE FreshInv'
    BY <1>8, <1>1, <1>2, <1>3, <1>4 DEF FreshInv, Conflict, ServerError
  <1>9. ASSUME NEW c \in open, Disconnect(c) PROVE FreshInv'
    <2>1. requests' \subseteq requests /\ reading' = reading /\ log' = log
      BY <1>9 DEF Disconnect
    <2>. QED
      BY <2>1, <1>1, <1>2, <1>3, <1>4 DEF FreshInv
  <1>10. CASE RivalCommit
    <2>1. log' = Append(log, RivalCall) /\ reading' = reading /\ requests' = requests
      BY <1>10 DEF RivalCommit
    <2>2. Landed' = Landed \cup {RivalCall} /\ LandsAtMostOnce'
      BY <1>1, <2>1, LandedAppend DEF FreshInv
    <2>. QED
      BY <2>1, <2>2, <1>1, <1>2, <1>3 DEF FreshInv
  <1>. QED
    BY <1>5, <1>6, <1>7, <1>8, <1>9, <1>10 DEF CatalogNext, Progress, Trouble

\* Every step keeps FreshInv.
LEMMA FreshStep == TypeOK /\ FreshInv /\ [Next]_vars => FreshInv'
  <1>. SUFFICES ASSUME TypeOK, FreshInv, [Next]_vars PROVE FreshInv'
    OBVIOUS
  <1>s. \A d \in Calls : Issued(d) => Issued(d)'
    BY IssuedStable
  <1>t. /\ \A r \in requests : r.id \in Calls
        /\ \A r \in reading : r.id \in Calls
        /\ \A d \in Landed : d = RivalCall \/ d \in Calls
    BY DEF TypeOK, CatalogTypeOK, Landed
  <1>1. CASE UNCHANGED <<log, requests, reading>>
    <2>1. UNCHANGED <<Landed, RivalCall>> /\ LandsAtMostOnce'
      BY <1>1 DEF Landed, RivalCall, FreshInv, LandsAtMostOnce
    <2>. QED
      BY <1>1, <1>s, <1>t, <2>1 DEF FreshInv
  <1>2. CASE WarmupCommit
    <2>1. WarmupCall \in Calls /\ ~Issued(WarmupCall) /\ commit(WarmupCall)
      <3>1. WarmupBase + i \in Nat
        BY DEF TypeOK, WarmupBase
      <3>. QED
        BY <1>2, <3>1, CallType, LoopCallsAreNew DEF WarmupCall, Phases, WarmupCommit, StartLoopCall
    <2>2. Issued(WarmupCall)'
      BY <1>2 DEF WarmupCommit, StartLoopCall, commit, Send, clientVars, Issued, Awaiting,
        WarmupCall, Call
    <2>3. (WarmupCall)' = WarmupCall
      BY <1>2 DEF WarmupCommit, StartLoopCall, clientVars, WarmupCall, Call
    <2>. QED
      BY <1>s, <2>1, <2>2, <2>3, FreshSend
  <1>3. CASE SequentialCommit
    <2>1. SequentialCall \in Calls /\ ~Issued(SequentialCall) /\ commit(SequentialCall)
      <3>1. i \in Nat
        BY DEF TypeOK
      <3>. QED
        BY <1>3, <3>1, CallType, LoopCallsAreNew DEF SequentialCall, Phases, SequentialCommit,
          StartLoopCall
    <2>2. Issued(SequentialCall)'
      BY <1>3 DEF SequentialCommit, StartLoopCall, commit, Send, clientVars, Issued, Awaiting,
        SequentialCall, Call
    <2>3. (SequentialCall)' = SequentialCall
      BY <1>3 DEF SequentialCommit, StartLoopCall, clientVars, SequentialCall, Call
    <2>. QED
      BY <1>s, <2>1, <2>2, <2>3, FreshSend
  <1>4. ASSUME NEW w \in Writers, WriterCommit(w) PROVE FreshInv'
    <2>1. NextCounter(w) \in Nat /\ w \in Nat /\ n[w] \in Nat
      BY BenchAssumption DEF NextCounter, TypeOK, Writers
    <2>2. PICK c : c = Call("concurrent", w, NextCounter(w))
      OBVIOUS
    <2>3. c \in Calls /\ ~Issued(c) /\ commit(c)
      BY <1>4, <2>1, <2>2, CallType, WriterCallsAreNew DEF Phases, WriterCommit
    <2>4. c.run = run /\ c.phase = "concurrent" /\ c.w = w /\ c.n = n[w] + 1
      BY <2>2 DEF Call, NextCounter
    <2>5. pc' = "concurrent" /\ run' = run /\ n'[w] = n[w] + 1
      BY <1>4 DEF WriterCommit, NextCounter, TypeOK
    <2>6. Issued(c)'
      BY <2>1, <2>4, <2>5 DEF Issued
    <2>. QED
      BY <1>s, <2>3, <2>6, FreshSend
  <1>5. CASE CatalogNext
    BY <1>5, <1>s, FreshCatalog
  <1>. QED
    BY <1>1, <1>2, <1>3, <1>4, <1>5
    DEF Next, Main, Writer, create_namespace, create_table, load_table_uuid, tableVars,
      WarmupReturns, WarmupDone, SequentialReturns, SequentialErr, SequentialDone, Report,
      CheckDeadline, WriterReturns, WriterOk, WriterConflict, WriterErr, Receive, Tick, Crash,
      HangUp, StartAgain, Terminated, vars, catalogVars

-----------------------------------------------------------------------------
(* What ok counts.                                                         *)

\* No catalog answers a commit without doing it: either it has no idempotency
\* or the benchmark sends no keys.
NoReplays == ~(Keyed /\ Idempotency)

\* What CountInv says of the connections is kept by every step of the catalog.
LEMMA CountCatalog ==
  ASSUME NoReplays, TypeOK, CountInv, CatalogNext
  PROVE  /\ \A r \in requests' : ~Idempotency => r.key = {}
         /\ \A a \in answers' : a.status = "2xx" => a.id \in Landed'
         /\ Landed \subseteq Landed'
  <1>1. /\ CatalogTypeOK(Calls, Nat)
        /\ \A r \in requests : ~Idempotency => r.key = {}
        /\ \A a \in answers : a.status = "2xx" => a.id \in Landed
    BY DEF TypeOK, CountInv
  <1>2. log' = log => Landed' = Landed
    BY DEF Landed
  <1>3. ASSUME NEW r \in requests, ReadVersion(r)
        PROVE  requests' \subseteq requests /\ answers' = answers /\ log' = log
    BY <1>3 DEF ReadVersion
  <1>4. ASSUME NEW r \in requests, Replay(r) PROVE FALSE
    BY <1>1, <1>4 DEF Replay, Known, NoReplays
  <1>5. ASSUME NEW r \in reading, Land(r)
        PROVE  /\ requests' = requests
               /\ \A a \in answers' : a \in answers \/ a.id = r.id
               /\ Landed' = Landed \cup {r.id}
    <2>1. log' = Append(log, r.id) /\ requests' = requests
      BY <1>5 DEF Land
    <2>. QED
      BY <1>1, <1>5, <2>1, LandedAppend DEF Land, Respond
  <1>6. ASSUME NEW r \in reading, Conflict(r) \/ ServerError(r)
        PROVE  /\ requests' = requests /\ log' = log
               /\ \A a \in answers' : a \in answers \/ a.status # "2xx"
    BY <1>6 DEF Conflict, ServerError, Respond
  <1>7. ASSUME NEW c \in open, Disconnect(c)
        PROVE  /\ requests' \subseteq requests /\ log' = log
               /\ \A a \in answers' : a \in answers \/ a.status # "2xx"
    BY <1>7 DEF Disconnect
  <1>8. ASSUME RivalCommit
        PROVE  requests' = requests /\ answers' = answers /\ Landed' = Landed \cup {RivalCall}
    <2>1. log' = Append(log, RivalCall) /\ requests' = requests /\ answers' = answers
      BY <1>8 DEF RivalCommit
    <2>. QED
      BY <1>1, <2>1, LandedAppend
  <1>. QED
    BY <1>1, <1>2, <1>3, <1>4, <1>5, <1>6, <1>7, <1>8 DEF CatalogNext, Progress, Trouble

\* Every step keeps CountInv.
LEMMA CountStep ==
  ASSUME NoReplays
  PROVE  TypeOK /\ CountInv /\ [Next]_vars => CountInv'
  <1>. SUFFICES ASSUME TypeOK, CountInv, [Next]_vars PROVE CountInv'
    OBVIOUS
  <1>n. \A w \in Writers : n[w] \in Nat
    BY DEF TypeOK
  <1>1. ASSUME UNCHANGED <<log, requests, counted, ok, run, n, report>>,
               answers' \subseteq answers,
               \/ UNCHANGED pc
               \/ pc \notin {"done", "concurrent"} /\ pc' \notin {"done", "concurrent"},
               \A w \in Writers : wpc'[w] = "wait" => wpc[w] = "wait"
        PROVE  CountInv'
    <2>1. UNCHANGED Landed
      BY <1>1 DEF Landed
    <2>. QED
      BY <1>1, <2>1 DEF CountInv, Writers
  <1>2. CASE create_namespace \/ create_table \/ load_table_uuid
    BY <1>1, <1>2 DEF create_namespace, create_table, load_table_uuid, CreateRequest,
      tableVars, measureVars
  <1>3. ASSUME NEW c \in Calls, commit(c), UNCHANGED <<counted, ok, run, report, pc>>,
               \A w \in Writers : \/ n'[w] = n[w] /\ wpc'[w] = wpc[w]
                                  \/ n'[w] = n[w] + 1
        PROVE  CountInv'
    <2>1. UNCHANGED Landed /\ answers' = answers
      BY <1>3 DEF Landed, commit, Send
    <2>2. \A r \in requests' : ~Idempotency => r.key = {}
      BY <1>3 DEF commit, Send, Key, CountInv
    <2>3. ASSUME NEW d \in counted
          PROVE  d.n <= n'[d.w] /\ (wpc'[d.w] = "wait" => d.n < n'[d.w])
      <3>1. d.w \in Writers /\ d.n <= n[d.w] /\ (wpc[d.w] = "wait" => d.n < n[d.w]) /\ d.n \in Nat
        BY DEF CountInv, TypeOK, Calls
      <3>. QED
        BY <3>1, <1>3, <1>n
    <2>. QED
      BY <1>3, <2>1, <2>2, <2>3 DEF CountInv, Writers
  <1>4. CASE WarmupCommit
    <2>1. WarmupCall \in Calls
      BY CallType DEF TypeOK, WarmupBase, WarmupCall, Phases
    <2>. QED
      BY <1>3, <1>4, <2>1 DEF WarmupCommit, StartLoopCall, clientVars
  <1>5. CASE SequentialCommit
    <2>1. SequentialCall \in Calls
      BY CallType DEF TypeOK, SequentialCall, Phases
    <2>. QED
      BY <1>3, <1>5, <2>1 DEF SequentialCommit, StartLoopCall, clientVars
  <1>6. CASE WarmupReturns \/ WarmupDone
    BY <1>1, <1>6 DEF WarmupReturns, WarmupDone, Receive, catalogVars
  <1>7. CASE SequentialReturns
    BY <1>1, <1>7 DEF SequentialReturns, SequentialErr, Receive
  <1>8. CASE SequentialDone
    <2>1. counted = {} /\ counted' = {} /\ ok' = 0 /\ pc' = "concurrent"
      BY <1>8 DEF SequentialDone, CountInv
    <2>2. UNCHANGED Landed
      BY <1>8 DEF SequentialDone, catalogVars, Landed
    <2>. QED
      BY <1>8, <2>1, <2>2, FS_EmptySet DEF SequentialDone, catalogVars, CountInv
  <1>9. CASE Report
    <2>1. UNCHANGED Landed
      BY <1>9 DEF Report, catalogVars, Landed
    <2>. QED
      BY <1>9, <2>1 DEF Report, catalogVars, CountInv, Writers
  <1>10. ASSUME NEW w \in Writers, CheckDeadline(w) PROVE CountInv'
    <2>1. UNCHANGED <<log, requests, counted, ok, run, n, report>> /\ pc' = pc /\ answers' \subseteq answers
      BY <1>10 DEF CheckDeadline, catalogVars
    <2>2. \A v \in Writers : wpc'[v] = "wait" => wpc[v] = "wait"
      BY <1>10 DEF CheckDeadline, TypeOK
    <2>. QED
      BY <1>1, <2>1, <2>2
  <1>11. ASSUME NEW w \in Writers, WriterCommit(w) PROVE CountInv'
    <2>1. NextCounter(w) \in Nat /\ w \in Nat
      BY BenchAssumption DEF NextCounter, TypeOK, Writers
    <2>2. Call("concurrent", w, NextCounter(w)) \in Calls
      BY <2>1, CallType DEF Phases
    <2>3. \A v \in Writers : \/ n'[v] = n[v] /\ wpc'[v] = wpc[v]
                             \/ n'[v] = n[v] + 1
      BY <1>11 DEF WriterCommit, NextCounter, TypeOK
    <2>4. UNCHANGED <<counted, ok, run, report, pc>>
      BY <1>11 DEF WriterCommit
    <2>. QED
      BY <1>11, <1>3, <2>2, <2>3, <2>4 DEF WriterCommit
  <1>12. ASSUME NEW w \in Writers, WriterReturns(w) PROVE CountInv'
    <2>. DEFINE c == WriterCall(w)
    <2>1. CASE WriterOk(w)
      <3>1. [id |-> c, status |-> "2xx"] \in answers
        BY <2>1 DEF WriterOk, Receive
      <3>2. c \in Landed
        BY <3>1 DEF CountInv
      <3>3. c \notin counted
        BY <1>12, <1>n DEF WriterReturns, CountInv, WriterCall, Call
      <3>4. counted' = counted \cup {c} /\ ok' = ok + 1
        BY <2>1 DEF WriterOk
      <3>5. IsFiniteSet(counted') /\ ok' = Cardinality(counted')
        BY <3>3, <3>4, FS_AddElement DEF CountInv
      <3>6. /\ answers' \subseteq answers /\ UNCHANGED <<log, requests, n, run, pc, report>>
            /\ pc = "concurrent" /\ wpc' = [wpc EXCEPT ![w] = "check"]
        BY <1>12, <2>1 DEF WriterReturns, WriterOk, Receive
      <3>7. UNCHANGED Landed
        BY <3>6 DEF Landed
      <3>8. c.run = run /\ c.phase = "concurrent" /\ c.w = w /\ c.n = n[w]
        BY DEF WriterCall, Call
      <3>9. \A d \in counted' :
              /\ d.run = run /\ d.phase = "concurrent" /\ d.w \in Writers
              /\ d.n <= n[d.w] /\ (wpc'[d.w] = "wait" => d.n < n[d.w])
        BY <1>n, <3>4, <3>6, <3>8 DEF CountInv, TypeOK
      <3>. HIDE DEF c
      <3>. QED
        BY <3>2, <3>4, <3>5, <3>6, <3>7, <3>9 DEF CountInv, Writers
    <2>2. CASE WriterConflict(w) \/ WriterErr(w)
      <3>1. UNCHANGED <<log, requests, counted, ok, run, n, report>> /\ pc' = pc /\ answers' \subseteq answers
        BY <1>12, <2>2 DEF WriterReturns, WriterConflict, WriterErr, Receive
      <3>2. \A v \in Writers : wpc'[v] = "wait" => wpc[v] = "wait"
        BY <2>2 DEF WriterConflict, WriterErr, TypeOK
      <3>. QED
        BY <1>1, <3>1, <3>2
    <2>. QED
      BY <1>12, <2>1, <2>2 DEF WriterReturns
  <1>13. CASE Tick
    <2>1. UNCHANGED <<log, requests, counted, ok, run, n, report>> /\ pc' = pc /\ answers' \subseteq answers /\ wpc' = wpc
      BY <1>13 DEF Tick, catalogVars
    <2>. QED
      BY <1>1, <2>1
  <1>14. CASE CatalogNext /\ UNCHANGED clientVars
    <2>1. /\ \A r \in requests' : ~Idempotency => r.key = {}
          /\ \A a \in answers' : a.status = "2xx" => a.id \in Landed'
          /\ Landed \subseteq Landed'
      BY <1>14, CountCatalog
    <2>. QED
      BY <1>14, <2>1 DEF CountInv, clientVars, Writers
  <1>15. CASE Crash \/ StartAgain
    <2>1. counted' = {} /\ ok' = 0 /\ pc' \notin {"done", "concurrent"}
      BY <1>15 DEF Crash, StartAgain, FreshProcess, Start
    <2>2. UNCHANGED Landed /\ requests' = requests /\ answers' \subseteq answers
      BY <1>15 DEF Crash, StartAgain, HangUp, catalogVars, Landed
    <2>. QED
      BY <2>1, <2>2, FS_EmptySet DEF CountInv
  <1>16. CASE Terminated \/ UNCHANGED vars
    <2>1. UNCHANGED <<log, requests, counted, ok, run, n, report>> /\ pc' = pc /\ answers' \subseteq answers /\ wpc' = wpc
      BY <1>16 DEF Terminated, vars, catalogVars, clientVars
    <2>. QED
      BY <1>1, <2>1
  <1>. QED
    BY <1>2, <1>4, <1>5, <1>6, <1>7, <1>8, <1>9, <1>10, <1>11, <1>12, <1>13, <1>14, <1>15, <1>16
    DEF Next, Main, Writer

-----------------------------------------------------------------------------
(* The deadline.                                                           *)

\* Every step keeps LateInv.
LEMMA LateStep == TypeOK /\ LateInv /\ [Next]_vars => LateInv'
  <1>. SUFFICES ASSUME TypeOK, LateInv, [Next]_vars PROVE LateInv'
    OBVIOUS
  <1>1. CASE UNCHANGED <<late, wpc, expired, pc>>
    BY <1>1 DEF LateInv, Writers
  <1>2. CASE late = {} /\ late' = {}
    BY <1>2 DEF LateInv
  <1>3. CASE pc \notin {"concurrent", "done"} /\ UNCHANGED late
    BY <1>2, <1>3 DEF LateInv
  <1>4. CASE Report \/ Tick
    BY <1>4 DEF LateInv, Report, Tick, Writers
  <1>5. ASSUME NEW w \in Writers, CheckDeadline(w) PROVE LateInv'
    BY <1>5 DEF LateInv, CheckDeadline, BeforeDeadline, TypeOK, Writers
  <1>6. ASSUME NEW w \in Writers, WriterCommit(w) PROVE LateInv'
    <2>1. PICK c : c = Call("concurrent", w, NextCounter(w))
      OBVIOUS
    <2>2. c.w = w
      BY <2>1 DEF Call
    <2>3. /\ late' = IF expired THEN late \cup {c} ELSE late
          /\ wpc[w] = "call" /\ wpc' = [wpc EXCEPT ![w] = "wait"]
          /\ pc = "concurrent" /\ UNCHANGED <<pc, expired>>
      BY <1>6, <2>1 DEF WriterCommit
    <2>4. \A d \in late : d.w # w
      BY <2>3 DEF LateInv
    <2>. QED
      BY <2>2, <2>3, <2>4 DEF LateInv, TypeOK, Writers
  <1>7. ASSUME NEW w \in Writers, WriterReturns(w) PROVE LateInv'
    <2>1. /\ wpc' = [wpc EXCEPT ![w] = "check"]
          /\ UNCHANGED <<late, expired, pc>>
      BY <1>7 DEF WriterReturns, WriterOk, WriterConflict, WriterErr
    <2>. QED
      BY <2>1 DEF LateInv, TypeOK, Writers
  <1>8. CASE Crash \/ StartAgain
    BY <1>8 DEF LateInv, Crash, StartAgain, FreshProcess
  <1>. QED
    BY <1>1, <1>3, <1>4, <1>5, <1>6, <1>7, <1>8
    DEF Next, Main, Writer, create_namespace, create_table, load_table_uuid, measureVars,
      WarmupCommit, SequentialCommit, StartLoopCall, WarmupReturns, WarmupDone,
      SequentialReturns, SequentialErr, SequentialDone, Terminated, vars, clientVars

-----------------------------------------------------------------------------
(* The theorems.                                                           *)

\* The initial states satisfy the invariants.
LEMMA InitInv == Init => FreshInv /\ CountInv /\ LateInv
  <1>. SUFFICES ASSUME Init PROVE FreshInv /\ CountInv /\ LateInv
    OBVIOUS
  <1>1. Landed = {} /\ LandsAtMostOnce
    BY DEF Init, CatalogInit, Landed, LandsAtMostOnce
  <1>2. FreshInv
    BY <1>1 DEF Init, CatalogInit, FreshInv
  <1>3. CountInv
    BY FS_EmptySet DEF Init, CatalogInit, CountInv, Start
  <1>4. LateInv
    BY DEF Init, LateInv
  <1>. QED
    BY <1>2, <1>3, <1>4

\* No call of the benchmark moves the metadata pointer twice, whatever
\* answers are lost, whatever requests outlive their run, with or without
\* idempotency keys.
THEOREM LandsAtMostOnceHolds == Spec => []LandsAtMostOnce
  <1>1. Init => FreshInv
    BY InitInv
  <1>2. TypeOK /\ FreshInv /\ [Next]_vars => FreshInv'
    BY FreshStep
  <1>3. FreshInv => LandsAtMostOnce
    BY DEF FreshInv
  <1>. QED
    BY <1>1, <1>2, <1>3, TypeCorrect, PTL DEF Spec

\* Where no answer is a replay, every commit that the report counts is one
\* that advanced the metadata pointer, and is counted once.
THEOREM CountedCommitsLandedHolds ==
  ASSUME NoReplays
  PROVE  Spec => []CountedCommitsLanded
  <1>1. Init => CountInv
    BY InitInv
  <1>2. TypeOK /\ CountInv /\ [Next]_vars => CountInv'
    BY CountStep
  <1>3. CountInv => CountedCommitsLanded
    BY DEF CountInv, CountedCommitsLanded, WriterLanded
  <1>. QED
    BY <1>1, <1>2, <1>3, TypeCorrect, PTL DEF Spec

\* No writer issues more than one commit after the deadline.
THEOREM OneLateCommitHolds == Spec => []OneLateCommitPerWriter
  <1>1. Init => LateInv
    BY InitInv
  <1>2. TypeOK /\ LateInv /\ [Next]_vars => LateInv'
    BY LateStep
  <1>3. LateInv => OneLateCommitPerWriter
    <2>. SUFFICES ASSUME LateInv, NEW w \in Writers
                  PROVE  Cardinality({c \in late : c.w = w}) <= 1
      BY DEF OneLateCommitPerWriter
    <2>. DEFINE S == {c \in late : c.w = w}
    <2>1. \A c \in S : S = {c}
      BY DEF LateInv
    <2>. HIDE DEF S
    <2>2. \A c : Cardinality({c}) = 1
      BY FS_Singleton
    <2>3. Cardinality(S) = 0 \/ Cardinality(S) = 1
      BY <2>1, <2>2, FS_EmptySet
    <2>4. Cardinality(S) <= 1
      BY <2>3
    <2>. QED
      BY <2>4 DEF S
  <1>. QED
    BY <1>1, <1>2, <1>3, TypeCorrect, PTL DEF Spec

\* A step of the benchmark is a step of the ledger or leaves it alone.
LEMMA LedgerStep ==
  ASSUME NoReplays, TypeOK, CountInv, [Next]_vars
  PROVE  [Ledger!Next]_(Ledger!ledgerVars)
  <1>1. ASSUME UNCHANGED <<log, counted, ok, report>>, pc # "done", pc' # "done"
        PROVE  UNCHANGED (Ledger!ledgerVars)
    BY <1>1 DEF Ledger!ledgerVars, Landed
  <1>2. ASSUME NEW c, log' = Append(log, c), UNCHANGED <<counted, ok, pc, report>>
        PROVE  Ledger!Land
    <2>1. Landed' = Landed \cup {c}
      BY <1>2, LandedAppend DEF TypeOK
    <2>. QED
      BY <1>2, <2>1 DEF Ledger!Land
  <1>3. CASE CatalogNext /\ UNCHANGED clientVars
    <2>1. log' = log \/ \E c : log' = Append(log, c)
      BY <1>3 DEF CatalogNext, Progress, Trouble, ReadVersion, Replay, Land, Conflict,
        ServerError, Disconnect, RivalCommit
    <2>2. CASE log' = log
      BY <1>3, <2>2 DEF clientVars, Ledger!ledgerVars, Landed
    <2>. QED
      BY <1>2, <1>3, <2>1, <2>2 DEF clientVars, Ledger!Next
  <1>4. ASSUME NEW w \in Writers, WriterReturns(w) PROVE [Ledger!Next]_(Ledger!ledgerVars)
    <2>1. pc = "concurrent" /\ UNCHANGED <<log, pc>>
      BY <1>4 DEF WriterReturns, WriterOk, WriterConflict, WriterErr, Receive
    <2>2. UNCHANGED Landed
      BY <2>1 DEF Landed
    <2>3. CASE WriterOk(w)
      <3>1. [id |-> WriterCall(w), status |-> "2xx"] \in answers
        BY <2>3 DEF WriterOk, Receive
      <3>2. WriterCall(w) \in Landed
        BY <3>1 DEF CountInv
      <3>3. WriterCall(w) \notin counted
        BY <1>4 DEF WriterReturns, CountInv, WriterCall, Call, TypeOK
      <3>4. counted' = counted \cup {WriterCall(w)} /\ ok' = ok + 1
        BY <2>3 DEF WriterOk
      <3>5. Ledger!Count
        BY <2>1, <2>2, <3>2, <3>3, <3>4 DEF Ledger!Count
      <3>. QED
        BY <3>5 DEF Ledger!Next
    <2>4. CASE WriterConflict(w) \/ WriterErr(w)
      BY <2>1, <2>2, <2>4 DEF WriterConflict, WriterErr, Ledger!ledgerVars
    <2>. QED
      BY <1>4, <2>3, <2>4 DEF WriterReturns
  <1>5. CASE Report
    <2>1. UNCHANGED Landed
      BY <1>5 DEF Report, catalogVars, Landed
    <2>2. report'.ok = ok
      BY <1>5 DEF Report
    <2>3. Ledger!Publish
      BY <1>5, <2>1, <2>2 DEF Report, Ledger!Publish
    <2>. QED
      BY <2>3 DEF Ledger!Next
  <1>6. CASE Crash \/ StartAgain
    <2>1. UNCHANGED Landed
      BY <1>6 DEF Crash, StartAgain, HangUp, catalogVars, Landed
    <2>2. Ledger!NewRun
      BY <1>6, <2>1 DEF Crash, StartAgain, FreshProcess, Start, Ledger!NewRun
    <2>. QED
      BY <2>2 DEF Ledger!Next
  <1>7. CASE Terminated \/ UNCHANGED vars
    BY <1>7 DEF Terminated, vars, catalogVars, clientVars, Ledger!ledgerVars, Landed
  <1>8. CASE \/ create_namespace \/ create_table \/ load_table_uuid
             \/ WarmupCommit \/ WarmupReturns \/ WarmupDone
             \/ SequentialCommit \/ SequentialReturns
    BY <1>1, <1>8 DEF create_namespace, create_table, load_table_uuid, CreateRequest, tableVars,
      measureVars, WarmupCommit, SequentialCommit, StartLoopCall, commit, Send, clientVars,
      WarmupReturns, WarmupDone, SequentialReturns, SequentialErr, Receive, catalogVars
  <1>10. CASE SequentialDone
    <2>1. ok = 0
      BY <1>10, FS_EmptySet DEF SequentialDone, CountInv
    <2>. QED
      BY <1>1, <1>10, <2>1 DEF SequentialDone, catalogVars
  <1>9. CASE Tick \/ \E w \in Writers : CheckDeadline(w) \/ WriterCommit(w)
    BY <1>1, <1>9 DEF Tick, CheckDeadline, WriterCommit, commit, Send, catalogVars
  <1>. QED
    BY <1>3, <1>4, <1>5, <1>6, <1>7, <1>8, <1>9, <1>10 DEF Next, Main, Writer

\* Where no answer is a replay, the benchmark implements the ledger: what it
\* publishes is the number of the commits it counted, each done before it was
\* counted, and stays so.
THEOREM RefinesLedgerHolds ==
  ASSUME NoReplays
  PROVE  Spec => RefinesLedger
  <1>1. Init => Ledger!Init
    BY DEF Init, CatalogInit, Ledger!Init, Landed, Start
  <1>2. Init => CountInv
    BY InitInv
  <1>3. TypeOK /\ CountInv /\ [Next]_vars => CountInv'
    BY CountStep
  <1>4. TypeOK /\ CountInv /\ [Next]_vars => [Ledger!Next]_(Ledger!ledgerVars)
    BY LedgerStep
  <1>. QED
    BY <1>1, <1>2, <1>3, <1>4, TypeCorrect, PTL DEF Spec, RefinesLedger, Ledger!Spec

-----------------------------------------------------------------------------
(* What the program awaits.                                                *)

\* It awaits the call that the place it is at has issued, and no other; a call
\* gets one answer.
AwaitInv ==
  /\ \A c \in Awaited :
       \/ pc = "warmup" /\ i < Warmup /\ c = WarmupCall
       \/ pc = "sequential" /\ i < Iterations /\ c = SequentialCall
       \/ /\ pc = "concurrent" /\ c.w \in Writers
          /\ wpc[c.w] = "wait" /\ c = WriterCall(c.w)
  /\ OneAnswer

\* An awaited call is one whose connection is open or whose answer is there.
LEMMA AwaitingIsAwaited ==
  ASSUME TypeOK, NEW c
  PROVE  Awaiting(c) <=> c \in Awaited
  <1>1. \A a \in answers : a = [id |-> a.id, status |-> a.status] /\ a.status \in Statuses
    BY DEF TypeOK, CatalogTypeOK
  <1>. QED
    BY <1>1 DEF Awaiting, Awaited

\* What a commit adds to the calls under way and awaited.
LEMMA CommitCalls ==
  ASSUME NEW c, commit(c)
  PROVE  /\ UnderWay' = UnderWay \cup {c} /\ Landed' = Landed /\ OwnLanded' = OwnLanded
         /\ open' = open \cup {c} /\ answers' = answers /\ Awaited' = Awaited \cup {c}
  BY SendCalls, SendAwaits DEF commit

\* Every step keeps AwaitInv.
LEMMA AwaitStep == TypeOK /\ AwaitInv /\ [Next]_vars => AwaitInv'
  <1>. SUFFICES ASSUME TypeOK, AwaitInv, [Next]_vars PROVE AwaitInv'
    OBVIOUS
  <1>1. CASE pc \notin {"warmup", "sequential", "concurrent"} /\ UNCHANGED <<open, answers>>
    BY <1>1 DEF AwaitInv, OneAnswer, Awaited
  <1>2. CASE Crash
    BY <1>2 DEF Crash, HangUp, AwaitInv, OneAnswer, Awaited
  <1>3. CASE WarmupCommit \/ SequentialCommit
    <2>1. PICK c : /\ commit(c) /\ ~Awaiting(c) /\ UNCHANGED clientVars
                   /\ \/ pc = "warmup" /\ i < Warmup /\ c = WarmupCall
                      \/ pc = "sequential" /\ i < Iterations /\ c = SequentialCall
      BY <1>3 DEF WarmupCommit, SequentialCommit, StartLoopCall
    <2>2. Awaited = {}
      BY <2>1, AwaitingIsAwaited DEF AwaitInv
    <2>3. open' = {c} /\ answers' = {} /\ Awaited' = {c}
      BY <2>1, <2>2, CommitCalls DEF Awaited
    <2>4. UNCHANGED <<WarmupCall, SequentialCall, pc, i>>
      BY <2>1 DEF clientVars, WarmupCall, SequentialCall, Call
    <2>. QED
      BY <2>1, <2>3, <2>4 DEF AwaitInv, OneAnswer
  <1>4. CASE WarmupReturns \/ SequentialReturns
    <2>1. PICK c, s : /\ Receive(c, s)
                      /\ \/ pc = "warmup" /\ c = WarmupCall
                         \/ pc = "sequential" /\ c = SequentialCall
      BY <1>4 DEF WarmupReturns, SequentialReturns, SequentialErr
    <2>2. Awaited' = Awaited \ {c}
      BY <2>1, ReceiveAwaits DEF AwaitInv
    <2>3. Awaited' = {}
      BY <2>1, <2>2 DEF AwaitInv
    <2>. QED
      BY <2>3 DEF AwaitInv, OneAnswer, Awaited
  <1>5. CASE WarmupDone \/ SequentialDone \/ Report
    <2>1. Awaited = {}
      BY <1>5, BenchAssumption DEF WarmupDone, SequentialDone, Report, Joined, AwaitInv, TypeOK
    <2>2. UNCHANGED <<open, answers>>
      BY <1>5 DEF WarmupDone, SequentialDone, Report, catalogVars
    <2>. QED
      BY <2>1, <2>2 DEF AwaitInv, OneAnswer, Awaited
  <1>6. ASSUME NEW w \in Writers, CheckDeadline(w) PROVE AwaitInv'
    <2>1. /\ pc = "concurrent" /\ wpc[w] = "check" /\ UNCHANGED <<open, answers, pc, run, n>>
          /\ \A x \in Writers : x # w => wpc'[x] = wpc[x]
      BY <1>6 DEF CheckDeadline, catalogVars, TypeOK
    <2>2. Awaited' = Awaited /\ (OneAnswer' <=> OneAnswer) /\ \A x : WriterCall(x)' = WriterCall(x)
      BY <2>1 DEF Awaited, OneAnswer, WriterCall, Call
    <2>3. \A d \in Awaited : d.w \in Writers /\ wpc[d.w] = "wait" /\ d = WriterCall(d.w)
      BY <2>1 DEF AwaitInv
    <2>4. \A d \in Awaited : wpc'[d.w] = "wait"
      BY <2>1, <2>3
    <2>. QED
      BY <2>1, <2>2, <2>3, <2>4 DEF AwaitInv
  <1>7. ASSUME NEW w \in Writers, WriterCommit(w) PROVE AwaitInv'
    <2>1. PICK c : c = Call("concurrent", w, NextCounter(w))
      OBVIOUS
    <2>2. /\ commit(c) /\ pc = "concurrent" /\ pc' = pc /\ run' = run /\ wpc[w] = "call"
          /\ n' = [n EXCEPT ![w] = NextCounter(w)] /\ wpc' = [wpc EXCEPT ![w] = "wait"]
      BY <1>7, <2>1 DEF WriterCommit
    <2>3. open' = open \cup {c} /\ answers' = answers /\ Awaited' = Awaited \cup {c}
      BY <2>2, CommitCalls
    <2>4. \A d \in Awaited : d.w \in Writers /\ wpc[d.w] = "wait" /\ d = WriterCall(d.w) /\ d.w # w
      BY <2>2 DEF AwaitInv
    <2>5. \A d \in Awaited : wpc'[d.w] = "wait" /\ d = WriterCall(d.w)'
      BY <2>2, <2>4 DEF WriterCall, Call, TypeOK
    <2>6. c.w = w /\ wpc'[w] = "wait" /\ c = WriterCall(w)'
      BY <2>1, <2>2 DEF WriterCall, Call, TypeOK
    <2>7. c \notin Awaited
      BY <2>4, <2>6
    <2>. QED
      BY <2>2, <2>3, <2>4, <2>5, <2>6, <2>7 DEF AwaitInv, OneAnswer, Awaited, Writers
  <1>8. ASSUME NEW w \in Writers, WriterReturns(w) PROVE AwaitInv'
    <2>1. PICK c, s : Receive(c, s) /\ c = WriterCall(w)
      BY <1>8 DEF WriterReturns, WriterOk, WriterConflict, WriterErr
    <2>2. Awaited' = Awaited \ {c} /\ OneAnswer'
      BY <2>1, ReceiveAwaits DEF AwaitInv
    <2>3. pc = "concurrent" /\ UNCHANGED <<pc, run, n>> /\ wpc' = [wpc EXCEPT ![w] = "check"]
      BY <1>8 DEF WriterReturns, WriterOk, WriterConflict, WriterErr
    <2>4. \A d \in Awaited' : d.w \in Writers /\ wpc[d.w] = "wait" /\ d = WriterCall(d.w) /\ d.w # w
      BY <2>1, <2>2, <2>3 DEF AwaitInv
    <2>5. \A d \in Awaited' : wpc'[d.w] = "wait" /\ d = WriterCall(d.w)'
      BY <2>3, <2>4 DEF WriterCall, Call, TypeOK
    <2>. QED
      BY <2>2, <2>3, <2>4, <2>5 DEF AwaitInv, Writers
  <1>9. CASE CatalogNext /\ UNCHANGED clientVars
    <2>1. UNCHANGED <<WarmupCall, SequentialCall, pc, i, wpc>> /\ \A w \in Writers : UNCHANGED WriterCall(w)
      BY <1>9 DEF clientVars, WarmupCall, SequentialCall, WriterCall, Call
    <2>. QED
      BY <1>9, <2>1, CatalogAwaits DEF AwaitInv, Writers
  <1>10. CASE Tick \/ UNCHANGED vars
    BY <1>10 DEF Tick, vars, clientVars, catalogVars, AwaitInv, OneAnswer, Awaited, WarmupCall,
      SequentialCall, WriterCall, Call, Writers
  <1>. QED
    BY <1>1, <1>2, <1>3, <1>4, <1>5, <1>6, <1>7, <1>8, <1>9, <1>10
    DEF Next, Main, Writer, create_namespace, create_table, load_table_uuid, tableVars, StartAgain,
      catalogVars, Exited, Terminated

-----------------------------------------------------------------------------
(* The ranges of the counters.                                             *)

\* Every call carries a counter of the range of its phase, or of its writer.
Ranged(c) ==
  \/ c.phase = "warmup" /\ c.w = 0 /\ WarmupBase <= c.n /\ c.n < WarmupBase + Warmup
  \/ c.phase = "sequential" /\ c.w = 0 /\ c.n < Iterations
  \/ /\ c.phase = "concurrent" /\ c.w \in Writers
     /\ FirstCounter(c.w) < c.n /\ c.n <= FirstCounter(c.w) + MaxPerWriter

RangeInv ==
  /\ pc = "concurrent" => \A w \in Writers :
       /\ FirstCounter(w) <= n[w] /\ n[w] <= FirstCounter(w) + MaxPerWriter
       /\ wpc[w] = "call" => n[w] < FirstCounter(w) + MaxPerWriter
       /\ wpc[w] = "wait" => FirstCounter(w) < n[w]
  /\ \A c \in UnderWay \cup OwnLanded : c \in Calls /\ Ranged(c)
  /\ \A c \in counted : c \in Calls /\ c.phase = "concurrent" /\ Ranged(c) /\ c.run = run

\* Every step keeps RangeInv.
LEMMA RangeStep == TypeOK /\ RangeInv /\ [Next]_vars => RangeInv'
  <1>. SUFFICES ASSUME TypeOK, RangeInv, [Next]_vars PROVE RangeInv'
    OBVIOUS
  <1>r. \A c : Ranged(c)' <=> Ranged(c)
    BY DEF Ranged, Writers
  <1>w. \A w \in Writers : w \in Nat /\ n[w] \in Nat /\ FirstCounter(w) \in Nat
    BY BenchAssumption DEF Writers, TypeOK, FirstCounter, WriterStride
  <1>m. MaxPerWriter \in Nat
    BY BenchAssumption
  <1>a. UNCHANGED <<log, requests, reading>> => UNCHANGED <<UnderWay, OwnLanded>>
    BY DEF UnderWay, OwnLanded, Landed, RivalCall
  <1>2. CASE /\ UNCHANGED <<log, requests, reading>>
             /\ counted' = {} \/ UNCHANGED <<counted, run>>
             /\ pc' # "concurrent"
    BY <1>2, <1>a, <1>r DEF RangeInv
  <1>3. CASE WarmupCommit \/ SequentialCommit
    <2>1. PICK c : /\ commit(c) /\ UNCHANGED clientVars
                   /\ \/ pc = "warmup" /\ i < Warmup /\ c = WarmupCall
                      \/ pc = "sequential" /\ i < Iterations /\ c = SequentialCall
      BY <1>3 DEF WarmupCommit, SequentialCommit, StartLoopCall
    <2>2. i \in Nat /\ WarmupBase + i \in Nat
      BY DEF TypeOK, WarmupBase
    <2>3. c \in Calls
      BY <2>1, <2>2, CallType DEF WarmupCall, SequentialCall, Phases
    <2>4. Ranged(c)
      BY <2>1, <2>2, BenchAssumption DEF WarmupCall, SequentialCall, Call, Ranged, WarmupBase
    <2>. QED
      BY <1>r, <2>1, <2>3, <2>4, CommitCalls DEF RangeInv, clientVars
  <1>4. CASE SequentialDone
    <2>1. /\ n' = [w \in Writers |-> FirstCounter(w)] /\ wpc' = [w \in Writers |-> "check"]
          /\ UNCHANGED <<log, requests, reading, counted, run>>
      BY <1>4 DEF SequentialDone, catalogVars
    <2>2. \A w \in Writers : n'[w] = FirstCounter(w) /\ wpc'[w] = "check"
      BY <2>1
    <2>. QED
      BY <1>a, <1>r, <1>w, <1>m, <2>1, <2>2 DEF RangeInv, Writers
  <1>5. ASSUME NEW w \in Writers, CheckDeadline(w) PROVE RangeInv'
    <2>1. UNCHANGED <<log, requests, reading, counted, run, n, pc>> /\ pc = "concurrent"
      BY <1>5 DEF CheckDeadline, catalogVars
    <2>2. \A v \in Writers : \/ wpc'[v] = wpc[v] \/ wpc'[v] = "done"
                             \/ wpc'[v] = "call" /\ n[v] < FirstCounter(v) + MaxPerWriter
      BY <1>5 DEF CheckDeadline, BeforeDeadline, TypeOK
    <2>3. \A v \in Writers :
            /\ FirstCounter(v) <= n'[v] /\ n'[v] <= FirstCounter(v) + MaxPerWriter
            /\ wpc'[v] = "call" => n'[v] < FirstCounter(v) + MaxPerWriter
            /\ wpc'[v] = "wait" => FirstCounter(v) < n'[v]
      BY <2>1, <2>2 DEF RangeInv
    <2>. QED
      BY <1>a, <1>r, <2>1, <2>3 DEF RangeInv, Writers
  <1>6. ASSUME NEW w \in Writers, WriterCommit(w) PROVE RangeInv'
    <2>1. PICK c : c = Call("concurrent", w, NextCounter(w))
      OBVIOUS
    <2>2. /\ commit(c) /\ pc = "concurrent" /\ pc' = pc /\ UNCHANGED <<run, counted>>
          /\ wpc[w] = "call" /\ wpc' = [wpc EXCEPT ![w] = "wait"]
          /\ n' = [n EXCEPT ![w] = n[w] + 1]
      BY <1>6, <2>1 DEF WriterCommit, NextCounter
    <2>3. c \in Calls /\ c.phase = "concurrent" /\ c.w = w /\ c.n = n[w] + 1
      BY <1>w, <2>1, CallType DEF NextCounter, Phases, Call
    <2>4. Ranged(c)
      BY <1>w, <1>m, <2>2, <2>3 DEF Ranged, RangeInv
    <2>5. \A v \in Writers :
            /\ FirstCounter(v) <= n'[v] /\ n'[v] <= FirstCounter(v) + MaxPerWriter
            /\ wpc'[v] = "call" => n'[v] < FirstCounter(v) + MaxPerWriter
            /\ wpc'[v] = "wait" => FirstCounter(v) < n'[v]
      BY <1>w, <1>m, <2>2 DEF RangeInv, TypeOK
    <2>. QED
      BY <1>r, <2>2, <2>3, <2>4, <2>5, CommitCalls DEF RangeInv, Writers
  <1>7. ASSUME NEW w \in Writers, WriterReturns(w) PROVE RangeInv'
    <2>1. /\ UNCHANGED <<log, requests, reading, run, n, pc>> /\ pc = "concurrent"
          /\ wpc[w] = "wait" /\ wpc' = [wpc EXCEPT ![w] = "check"]
          /\ counted' \subseteq counted \cup {WriterCall(w)}
      BY <1>7 DEF WriterReturns, WriterOk, WriterConflict, WriterErr, Receive
    <2>2. /\ WriterCall(w) \in Calls /\ Ranged(WriterCall(w))
          /\ (WriterCall(w)).phase = "concurrent" /\ (WriterCall(w)).run = run
      BY <1>w, <2>1, CallType DEF WriterCall, Phases, Call, Ranged, RangeInv
    <2>3. \A v \in Writers :
            /\ FirstCounter(v) <= n'[v] /\ n'[v] <= FirstCounter(v) + MaxPerWriter
            /\ wpc'[v] = "call" => n'[v] < FirstCounter(v) + MaxPerWriter
            /\ wpc'[v] = "wait" => FirstCounter(v) < n'[v]
      BY <2>1 DEF RangeInv, TypeOK
    <2>. QED
      BY <1>a, <1>r, <2>1, <2>2, <2>3 DEF RangeInv, Writers
  <1>8. CASE CatalogNext /\ UNCHANGED clientVars
    BY <1>8, <1>r, CatalogCalls DEF RangeInv, clientVars, Writers, TypeOK
  <1>9. CASE Tick \/ UNCHANGED vars
    BY <1>9, <1>a, <1>r DEF Tick, vars, catalogVars, clientVars, RangeInv, Writers
  <1>10. CASE create_namespace \/ create_table \/ load_table_uuid
    BY <1>10, <1>2 DEF create_namespace, create_table, load_table_uuid, CreateRequest, tableVars,
      measureVars
  <1>11. CASE WarmupReturns \/ SequentialReturns \/ WarmupDone \/ Report
    BY <1>11, <1>2 DEF WarmupReturns, SequentialReturns, SequentialErr, Receive, WarmupDone, Report,
      catalogVars
  <1>12. CASE Crash \/ StartAgain
    BY <1>12, <1>2 DEF Crash, HangUp, StartAgain, Start, FreshProcess, catalogVars
  <1>. QED
    BY <1>3, <1>4, <1>5, <1>6, <1>7, <1>8, <1>9, <1>10, <1>11, <1>12
    DEF Next, Main, Writer, Terminated

-----------------------------------------------------------------------------
(* The keys.                                                               *)

\* A landed call has used the counter of c, which may be c itself.
UsedBefore(c) == \E d \in OwnLanded : d.n = c.n

\* The recorded keys are the counters of the landed calls, where keys are used
\* at all; an answer 2xx is to a call whose counter is used, and a request that
\* can still win the swap has read the log since the last key was recorded.
KeyInv ==
  /\ \A r \in requests \cup reading : r.key = Key(r.id.n)
  /\ ~(Keyed /\ Idempotency) => recorded = {}
  /\ Keyed /\ Idempotency => \A d \in OwnLanded : d.n \in recorded
  /\ \A m \in recorded : \E d \in OwnLanded : d.n = m
  /\ \A a \in answers : a.status = "2xx" => UsedBefore(a.id)
  /\ \A c \in counted : UsedBefore(c)
  /\ \A r \in reading : r.base <= Version /\ (r.base = Version => r.key \cap recorded = {})
  /\ Keyed /\ Idempotency => KeyLandsAtMostOnce

\* KeyInv is about the catalog, the answers and what is counted.
LEMMA KeyStable ==
  ASSUME KeyInv, UNCHANGED <<log, recorded, reading>>,
         \A r \in requests' : r \in requests \/ r.key = Key(r.id.n),
         \A a \in answers' : a.status = "2xx" => UsedBefore(a.id),
         \A c \in counted' : UsedBefore(c)
  PROVE  KeyInv'
  <1>1. UNCHANGED <<OwnLanded, Version>> /\ (KeyLandsAtMostOnce' <=> KeyLandsAtMostOnce)
    BY DEF OwnLanded, Landed, RivalCall, Version, KeyLandsAtMostOnce
  <1>2. \A c : UsedBefore(c)' <=> UsedBefore(c)
    BY <1>1 DEF UsedBefore
  <1>. QED
    BY <1>1, <1>2 DEF KeyInv, Key

\* A swap keeps KeyInv: with keys, only a request whose key is new can win it.
LEMMA KeyLand ==
  ASSUME TypeOK, KeyInv, NEW r \in reading, Land(r), UNCHANGED counted
  PROVE  KeyInv'
  <1>1. /\ r.id \in Calls /\ r.id.n \in Nat /\ r.id # RivalCall /\ RivalCall' = RivalCall
        /\ \A q \in reading : q.base \in Nat
        /\ log \in Seq(Calls \cup {RivalCall}) /\ CatalogTypeOK(Calls, Nat)
    <2>1. CatalogTypeOK(Calls, Nat)
      BY DEF TypeOK
    <2>2. r.id \in Calls /\ log \in Seq(Calls \cup {RivalCall}) /\ \A q \in reading : q.base \in Nat
      BY <2>1 DEF CatalogTypeOK
    <2>3. \A c \in Calls : c.n \in Nat /\ c.run \in 1..MaxRuns
      BY DEF Calls
    <2>4. r.id # RivalCall /\ RivalCall' = RivalCall
      BY <2>2, <2>3, BenchAssumption DEF RivalCall
    <2>. QED
      BY <2>1, <2>2, <2>3, <2>4
  <1>2. /\ log' = Append(log, r.id) /\ requests' = requests /\ reading' = reading \ {r}
        /\ recorded' = IF Keyed THEN recorded \cup r.key ELSE recorded
        /\ r.key = Key(r.id.n)
        /\ \A a \in answers' : a \in answers \/ a.id = r.id
        /\ StrictCAS => r.base = Version
    BY DEF Land, Respond, KeyInv
  <1>3. OwnLanded' = OwnLanded \cup {r.id}
    <2>1. Landed' = Landed \cup {r.id}
      BY <1>1, <1>2, LandedAppend
    <2>. QED
      BY <1>1, <2>1 DEF OwnLanded
  <1>4. Version' = Version + 1 /\ Version \in Nat
    BY <1>1, <1>2 DEF Version
  <1>5. /\ \A c : UsedBefore(c) => UsedBefore(c)'
        /\ UsedBefore(r.id)'
    BY <1>3 DEF UsedBefore
  <1>6. ASSUME Keyed /\ Idempotency PROVE KeyLandsAtMostOnce'
    <2>1. r.id.n \notin recorded
      BY <1>2, <1>6, CatalogAssumption DEF KeyInv, Key
    <2>2. \A d \in OwnLanded : d.n # r.id.n
      BY <1>6, <2>1 DEF KeyInv
    <2>3. /\ DOMAIN log' = DOMAIN log \cup {Len(log) + 1} /\ log'[Len(log) + 1] = r.id
          /\ \A m \in DOMAIN log : log'[m] = log[m]
      BY <1>1, <1>2
    <2>4. \A m \in DOMAIN log : log[m] # RivalCall => log[m] \in OwnLanded
      BY DEF OwnLanded, Landed
    <2>5. \A j, k \in DOMAIN log :
             log[j].n = log[k].n /\ log[j] # RivalCall /\ log[k] # RivalCall => j = k
      BY <1>6 DEF KeyInv, KeyLandsAtMostOnce
    <2>6. ASSUME NEW j \in DOMAIN log', NEW k \in DOMAIN log', log'[j].n = log'[k].n,
                 log'[j] # RivalCall, log'[k] # RivalCall
          PROVE  j = k
      <3>1. CASE j \in DOMAIN log /\ k \in DOMAIN log
        BY <2>3, <2>5, <2>6, <3>1
      <3>2. CASE j \in DOMAIN log /\ k = Len(log) + 1
        BY <2>2, <2>3, <2>4, <2>6, <3>2
      <3>3. CASE j = Len(log) + 1 /\ k \in DOMAIN log
        BY <2>2, <2>3, <2>4, <2>6, <3>3
      <3>. QED
        BY <2>3, <3>1, <3>2, <3>3
    <2>. QED
      BY <1>1, <2>6 DEF KeyLandsAtMostOnce
  <1>7. \A q \in reading' : q.base <= Version' /\ q.base # Version'
    BY <1>1, <1>2, <1>4 DEF KeyInv
  <1>8. /\ ~(Keyed /\ Idempotency) => recorded' = {}
        /\ Keyed /\ Idempotency => \A d \in OwnLanded' : d.n \in recorded'
        /\ \A m \in recorded' : \E d \in OwnLanded' : d.n = m
    BY <1>2, <1>3 DEF KeyInv, Key
  <1>. QED
    BY <1>2, <1>5, <1>6, <1>7, <1>8 DEF KeyInv, Key

\* Every step of the catalog keeps KeyInv.
LEMMA KeyCatalog ==
  ASSUME TypeOK, KeyInv, CatalogNext, UNCHANGED counted
  PROVE  KeyInv'
  <1>t. CatalogTypeOK(Calls, Nat)
    BY DEF TypeOK
  <1>1. CASE /\ UNCHANGED <<log, recorded>> /\ requests' \subseteq requests /\ reading' \subseteq reading
             /\ \A a \in answers' : a.status = "2xx" => UsedBefore(a.id)
    <2>1. UNCHANGED <<OwnLanded, Version>> /\ (KeyLandsAtMostOnce' <=> KeyLandsAtMostOnce)
      BY <1>1 DEF OwnLanded, Landed, RivalCall, Version, KeyLandsAtMostOnce
    <2>2. \A c : UsedBefore(c)' <=> UsedBefore(c)
      BY <2>1 DEF UsedBefore
    <2>. QED
      BY <1>1, <2>1, <2>2 DEF KeyInv, Key
  <1>2. ASSUME NEW r \in requests, ReadVersion(r) PROVE KeyInv'
    <2>. DEFINE q == [id |-> r.id, key |-> r.key, base |-> Version]
    <2>1. /\ q.id = r.id /\ q.key = r.key /\ q.base = Version /\ Version \in Nat
          /\ requests' \subseteq requests /\ reading' = reading \cup {q}
          /\ UNCHANGED <<log, recorded, answers>> /\ ~Known(r)
      BY <1>t, <1>2 DEF ReadVersion, Version, CatalogTypeOK
    <2>. HIDE DEF q
    <2>2. r.key = Key(r.id.n)
      BY DEF KeyInv
    <2>3. q.key \cap recorded = {}
      BY <2>1, <2>2 DEF KeyInv, Known, Key
    <2>4. UNCHANGED <<OwnLanded, Version>> /\ (KeyLandsAtMostOnce' <=> KeyLandsAtMostOnce)
      BY <2>1 DEF OwnLanded, Landed, RivalCall, Version, KeyLandsAtMostOnce
    <2>5. \A c : UsedBefore(c)' <=> UsedBefore(c)
      BY <2>4 DEF UsedBefore
    <2>6. \A p \in requests' \cup reading' : p.key = Key(p.id.n)
      BY <2>1, <2>2 DEF KeyInv
    <2>7. \A p \in reading' : p.base <= Version /\ (p.base = Version => p.key \cap recorded = {})
      BY <2>1, <2>3 DEF KeyInv
    <2>. QED
      BY <2>1, <2>4, <2>5, <2>6, <2>7 DEF KeyInv, Key
  <1>3. ASSUME NEW r \in requests, Replay(r) PROVE KeyInv'
    <2>1. /\ UNCHANGED <<log, recorded, reading>> /\ requests' \subseteq requests
          /\ \A a \in answers' : a \in answers \/ a.id = r.id
          /\ Known(r)
      BY <1>3 DEF Replay, Respond
    <2>2. r.key = Key(r.id.n) /\ r.key # {} /\ r.key \subseteq recorded
      BY <2>1 DEF Known, KeyInv
    <2>3. r.id.n \in recorded
      BY <2>2 DEF Key
    <2>4. UsedBefore(r.id)
      BY <2>3 DEF KeyInv, UsedBefore
    <2>. QED
      BY <1>1, <2>1, <2>4 DEF KeyInv
  <1>4. ASSUME NEW r \in reading, Land(r) PROVE KeyInv'
    BY <1>4, KeyLand
  <1>5. ASSUME NEW r \in reading, Conflict(r) \/ ServerError(r) PROVE KeyInv'
    <2>1. /\ UNCHANGED <<log, recorded, requests>> /\ reading' \subseteq reading
          /\ \A a \in answers' : a \in answers \/ a.status # "2xx"
      BY <1>5 DEF Conflict, ServerError, Respond
    <2>. QED
      BY <1>1, <2>1 DEF KeyInv
  <1>6. ASSUME NEW c \in open, Disconnect(c) PROVE KeyInv'
    <2>1. /\ UNCHANGED <<log, recorded, reading>> /\ requests' \subseteq requests
          /\ \A a \in answers' : a \in answers \/ a.status # "2xx"
      BY <1>6 DEF Disconnect
    <2>. QED
      BY <1>1, <2>1 DEF KeyInv
  <1>7. CASE RivalCommit
    <2>1. log' = Append(log, RivalCall) /\ UNCHANGED <<recorded, requests, reading, answers>>
      BY <1>7 DEF RivalCommit
    <2>2. OwnLanded' = OwnLanded /\ RivalCall' = RivalCall
      <3>1. Landed' = Landed \cup {RivalCall} /\ RivalCall' = RivalCall
        BY <1>t, <2>1, LandedAppend DEF RivalCall
      <3>. QED
        BY <3>1 DEF OwnLanded
    <2>3. Version' = Version + 1 /\ Version \in Nat /\ \A q \in reading : q.base \in Nat
      BY <1>t, <2>1 DEF Version, CatalogTypeOK
    <2>4. KeyLandsAtMostOnce => KeyLandsAtMostOnce'
      BY <1>t, <2>1, <2>2 DEF KeyLandsAtMostOnce, CatalogTypeOK
    <2>5. \A c : UsedBefore(c)' <=> UsedBefore(c)
      BY <2>2 DEF UsedBefore
    <2>6. \A q \in reading : q.base <= Version' /\ q.base # Version'
      BY <2>3 DEF KeyInv
    <2>. QED
      BY <2>1, <2>2, <2>4, <2>5, <2>6 DEF KeyInv, Key
  <1>. QED
    BY <1>2, <1>3, <1>4, <1>5, <1>6, <1>7 DEF CatalogNext, Progress, Trouble

\* Every step keeps KeyInv.
LEMMA KeyStep == TypeOK /\ KeyInv /\ [Next]_vars => KeyInv'
  <1>. SUFFICES ASSUME TypeOK, KeyInv, [Next]_vars PROVE KeyInv'
    OBVIOUS
  <1>1. CASE /\ UNCHANGED <<log, recorded, requests, reading>>
             /\ answers' \subseteq answers /\ counted' \subseteq counted
    BY <1>1, KeyStable DEF KeyInv
  <1>2. ASSUME NEW c, commit(c), UNCHANGED counted PROVE KeyInv'
    <2>. DEFINE q == [id |-> c, key |-> Key(c.n)]
    <2>1. q.key = Key(q.id.n) /\ requests' = requests \cup {q} /\ UNCHANGED <<log, recorded, reading, answers>>
      BY <1>2 DEF commit, Send
    <2>. HIDE DEF q
    <2>. QED
      BY <1>2, <2>1, KeyStable DEF KeyInv
  <1>3. ASSUME NEW w \in Writers, WriterReturns(w) PROVE KeyInv'
    <2>1. CASE WriterOk(w)
      <3>1. /\ [id |-> WriterCall(w), status |-> "2xx"] \in answers
            /\ UNCHANGED <<log, recorded, requests, reading>> /\ answers' \subseteq answers
            /\ counted' = counted \cup {WriterCall(w)}
        BY <2>1 DEF WriterOk, Receive
      <3>2. UsedBefore(WriterCall(w))
        BY <3>1 DEF KeyInv
      <3>. QED
        BY <3>1, <3>2, KeyStable DEF KeyInv
    <2>2. CASE WriterConflict(w) \/ WriterErr(w)
      BY <1>1, <2>2 DEF WriterConflict, WriterErr, Receive
    <2>. QED
      BY <1>3, <2>1, <2>2 DEF WriterReturns
  <1>4. CASE CatalogNext /\ UNCHANGED clientVars
    BY <1>4, KeyCatalog DEF clientVars
  <1>5. CASE WarmupCommit \/ SequentialCommit \/ \E w \in Writers : WriterCommit(w)
    BY <1>2, <1>5 DEF WarmupCommit, SequentialCommit, StartLoopCall, clientVars, WriterCommit
  <1>. QED
    BY <1>1, <1>3, <1>4, <1>5
    DEF Next, Main, Writer, create_namespace, create_table, load_table_uuid, tableVars, measureVars,
      WarmupReturns, WarmupDone, SequentialReturns, SequentialErr, SequentialDone, Report,
      CheckDeadline, Receive, Tick, Crash, HangUp, FreshProcess, StartAgain, Terminated, vars,
      catalogVars, clientVars

-----------------------------------------------------------------------------
(* The theorems.                                                           *)

\* The initial states satisfy the invariants.
LEMMA InitKeys == Init => AwaitInv /\ RangeInv /\ KeyInv
  <1>. SUFFICES ASSUME Init PROVE AwaitInv /\ RangeInv /\ KeyInv
    OBVIOUS
  <1>1. Landed = {} /\ OwnLanded = {} /\ UnderWay = {} /\ Awaited = {}
    BY DEF Init, CatalogInit, Landed, OwnLanded, UnderWay, Awaited
  <1>2. AwaitInv
    BY <1>1 DEF Init, CatalogInit, AwaitInv, OneAnswer
  <1>3. RangeInv
    BY <1>1 DEF Init, RangeInv, Start
  <1>4. KeyInv
    BY <1>1 DEF Init, CatalogInit, KeyInv, KeyLandsAtMostOnce
  <1>. QED
    BY <1>2, <1>3, <1>4

\* Each of the three is an invariant.
LEMMA KeyInvariants == Spec => [](TypeOK /\ FreshInv /\ AwaitInv /\ RangeInv /\ KeyInv)
  <1>1. Init => FreshInv /\ AwaitInv /\ RangeInv /\ KeyInv
    BY InitInv, InitKeys
  <1>2. /\ TypeOK /\ FreshInv /\ [Next]_vars => FreshInv'
        /\ TypeOK /\ AwaitInv /\ [Next]_vars => AwaitInv'
        /\ TypeOK /\ RangeInv /\ [Next]_vars => RangeInv'
        /\ TypeOK /\ KeyInv /\ [Next]_vars => KeyInv'
    BY FreshStep, AwaitStep, RangeStep, KeyStep
  <1>. QED
    BY <1>1, <1>2, TypeCorrect, PTL DEF Spec

\* Where keys are sent and honoured, no key is applied twice, also over runs
\* that were killed with requests in flight and send the same keys again.
THEOREM KeyLandsAtMostOnceHolds ==
  ASSUME Keyed, Idempotency
  PROVE  Spec => []KeyLandsAtMostOnce
  <1>1. KeyInv => KeyLandsAtMostOnce
    BY DEF KeyInv
  <1>. QED
    BY <1>1, KeyInvariants, PTL

\* The warmup's counters end before those of writer 1 begin.
WarmupFits == WarmupBase + Warmup <= WriterStride + 1

\* On a fresh table, the only calls that a catalog with idempotency can answer
\* without doing the work are those of writer 0 whose counter the sequential
\* phase has used, provided that the warmup is not longer than the source's
\* bases leave room for.
THEOREM OnlyWriterZeroReplaysHolds ==
  ASSUME WarmupFits
  PROVE  Spec => []OnlyWriterZeroReplays
  <1>1. ASSUME TypeOK, FreshInv, RangeInv, KeyInv PROVE OnlyWriterZeroReplays
    <2>. SUFFICES ASSUME run = 1, NEW c \in counted, c \notin Landed
                  PROVE  c.w = 0 /\ c.n < Iterations
      BY DEF OnlyWriterZeroReplays
    <2>1. /\ c \in Calls /\ c.run = 1 /\ c.phase = "concurrent" /\ c.w \in Writers
          /\ FirstCounter(c.w) < c.n /\ c.n <= FirstCounter(c.w) + MaxPerWriter
      BY <1>1 DEF RangeInv, Ranged
    <2>2. PICK d \in OwnLanded : d.n = c.n
      BY <1>1 DEF KeyInv, UsedBefore
    <2>3. d \in Calls /\ Ranged(d) /\ Issued(d) /\ d # c
      BY <1>1, <2>2 DEF RangeInv, FreshInv, OwnLanded
    <2>4. d.run = 1
      BY <2>3 DEF Issued, Calls
    <2>5. c.w \in Nat /\ c.n \in Nat /\ d.w \in Nat
      BY <2>1, <2>3 DEF Calls
    <2>6. CASE d.phase = "warmup"
      BY <2>1, <2>2, <2>3, <2>5, <2>6, BenchAssumption
      DEF Ranged, WarmupFits, WarmupBase, WriterStride, FirstCounter
    <2>7. CASE d.phase = "sequential"
      BY <2>1, <2>2, <2>3, <2>5, <2>7, BenchAssumption
      DEF Ranged, WarmupBase, WriterStride, FirstCounter
    <2>8. CASE d.phase = "concurrent"
      <3>1. c.w = d.w
        BY <2>1, <2>2, <2>3, <2>5, <2>8, BenchAssumption
        DEF Ranged, WarmupBase, WriterStride, FirstCounter
      <3>2. c = d
        BY <2>1, <2>2, <2>3, <2>4, <2>8, <3>1 DEF Calls
      <3>. QED
        BY <2>3, <3>2
    <2>. QED
      BY <2>3, <2>6, <2>7, <2>8 DEF Ranged
  <1>. QED
    BY <1>1, KeyInvariants, PTL
=============================================================================
