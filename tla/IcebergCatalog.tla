--------------------------- MODULE IcebergCatalog ---------------------------
(***************************************************************************)
(* The Iceberg REST catalog that the benchmarks measure, seen through one  *)
(* table.  The catalogs (LakeCat, Nessie, Gravitino, Polaris) are not part *)
(* of the repository: this module is what the benchmark code relies on and *)
(* what RESULTS.md says of them, and every definition here is external.    *)
(*                                                                         *)
(* A commit is validated against the version its request has read and then *)
(* swaps the metadata pointer (RESULTS.md "validate the commit, apply the  *)
(* updates, write a new metadata.json, advance the pointer").  A catalog   *)
(* that enforces strict optimistic concurrency answers 409 when the        *)
(* pointer has moved in between; a permissive one may rebase the update.   *)
(* A catalog with idempotency records the Idempotency-Key of a commit in   *)
(* the same transaction and replays the result for a key it knows.         *)
(*                                                                         *)
(* Bounds: MaxRivalCommits commits by other clients of the table and       *)
(* MaxFaults faults (a 5xx answer, a lost request, a lost answer).         *)
(***************************************************************************)
EXTENDS Naturals, Sequences, FiniteSets

CONSTANTS StrictCAS, Keyed, MaxRivalCommits, MaxFaults

\* LakeCat is the only catalog with idempotency keys, and it is strict.
ASSUME CatalogAssumption ==
  /\ StrictCAS \in BOOLEAN
  /\ Keyed \in BOOLEAN
  /\ Keyed => StrictCAS
  /\ MaxRivalCommits \in Nat
  /\ MaxFaults \in Nat

VARIABLES
  created,    \* "nothing", "namespace" or "table": what exists
  log,        \* the metadata-pointer log: the calls that moved the pointer
  recorded,   \* the idempotency keys recorded with a commit
  requests,   \* commit requests that have arrived: [id, key]
  reading,    \* requests validated against version base: [id, key, base]
  open,       \* the calls whose connection still awaits an answer
  answers,    \* answers on their way to the client: [id, status]
  faults      \* how many faults have happened

catalogVars == <<created, log, recorded, requests, reading, open, answers, faults>>

Statuses == {"2xx", "409", "error"}

Version == Len(log)

\* The calls that have advanced the metadata pointer.
Landed == {log[j] : j \in DOMAIN log}

\* A commit by another client of the same table.
RivalCall == [run |-> 0, phase |-> "rival", w |-> 0, n |-> 0]

CatalogTypeOK(Ids, Keys) ==
  /\ created \in {"nothing", "namespace", "table"}
  /\ log \in Seq(Ids \cup {RivalCall})
  /\ recorded \in SUBSET Keys
  /\ requests \in SUBSET [id : Ids, key : SUBSET Keys]
  /\ reading \in SUBSET [id : Ids, key : SUBSET Keys, base : Nat]
  /\ open \in SUBSET Ids
  /\ answers \in SUBSET [id : Ids, status : Statuses]
  /\ faults \in Nat

CatalogInit ==
  /\ created \in {"nothing", "namespace", "table"}
  /\ log = << >>
  /\ recorded = {}
  /\ requests = {}
  /\ reading = {}
  /\ open = {}
  /\ answers = {}
  /\ faults = 0

-----------------------------------------------------------------------------
(* What a client does with the catalog.                                    *)

\* The client still awaits the answer to call id.
Awaiting(id) == id \in open \/ \E s \in Statuses : [id |-> id, status |-> s] \in answers

\* The request of call id goes out; key is {} when the header is absent.
Send(id, key) ==
  /\ requests' = requests \cup {[id |-> id, key |-> key]}
  /\ open' = open \cup {id}
  /\ UNCHANGED <<created, log, recorded, reading, answers, faults>>

Receive(id, status) ==
  /\ [id |-> id, status |-> status] \in answers
  /\ answers' = answers \ {[id |-> id, status |-> status]}
  /\ UNCHANGED <<created, log, recorded, requests, reading, open, faults>>

\* The client's process dies: its connections go, its requests do not.
HangUp ==
  /\ open' = {}
  /\ answers' = {}
  /\ UNCHANGED <<created, log, recorded, requests, reading, faults>>

-----------------------------------------------------------------------------
(* What the catalog and the network do.                                    *)

Respond(id, status) ==
  /\ answers' = IF id \in open THEN answers \cup {[id |-> id, status |-> status]}
                               ELSE answers
  /\ open' = open \ {id}

Known(r) == Keyed /\ r.key # {} /\ r.key \subseteq recorded

ReadVersion(r) ==
  /\ ~Known(r)
  /\ requests' = requests \ {r}
  /\ reading' = reading \cup {[id |-> r.id, key |-> r.key, base |-> Version]}
  /\ UNCHANGED <<created, log, recorded, open, answers, faults>>

Replay(r) ==
  /\ Known(r)
  /\ requests' = requests \ {r}
  /\ Respond(r.id, "2xx")
  /\ UNCHANGED <<created, log, recorded, reading, faults>>

\* One transaction: the pointer swap, its log row and the idempotency record.
Land(r) ==
  /\ StrictCAS => r.base = Version
  /\ log' = Append(log, r.id)
  /\ recorded' = IF Keyed THEN recorded \cup r.key ELSE recorded
  /\ reading' = reading \ {r}
  /\ Respond(r.id, "2xx")
  /\ UNCHANGED <<created, requests, faults>>

Conflict(r) ==
  /\ r.base # Version
  /\ reading' = reading \ {r}
  /\ Respond(r.id, "409")
  /\ UNCHANGED <<created, log, recorded, requests, faults>>

ServerError(r) ==
  /\ faults < MaxFaults
  /\ faults' = faults + 1
  /\ reading' = reading \ {r}
  /\ Respond(r.id, "error")
  /\ UNCHANGED <<created, log, recorded, requests>>

\* The connection breaks: before the request arrived (it is lost), or after
\* (the catalog goes on with it, and only its answer is lost).
Disconnect(id) ==
  /\ faults < MaxFaults
  /\ faults' = faults + 1
  /\ open' = open \ {id}
  /\ answers' = answers \cup {[id |-> id, status |-> "error"]}
  /\ \/ requests' = {r \in requests : r.id # id}
     \/ requests' = requests
  /\ UNCHANGED <<created, log, recorded, reading>>

RivalCommit ==
  /\ created = "table"
  /\ Cardinality({j \in DOMAIN log : log[j] = RivalCall}) < MaxRivalCommits
  /\ log' = Append(log, RivalCall)
  /\ UNCHANGED <<created, recorded, requests, reading, open, answers, faults>>

\* The catalog answers a request it holds.
Progress ==
  \/ \E r \in requests : ReadVersion(r) \/ Replay(r)
  \/ \E r \in reading : Land(r) \/ Conflict(r)

Trouble ==
  \/ \E r \in reading : ServerError(r)
  \/ \E id \in open : Disconnect(id)

CatalogNext == Progress \/ Trouble \/ RivalCommit
=============================================================================
