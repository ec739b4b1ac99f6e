------------------------------ MODULE StockProbe ------------------------------
(***************************************************************************)
(* The stock client's round-trip, crates/read-write/stock-append-probe.py  *)
(* with SHIM=0, and stock_roundtrip of crates/read-write/src/main.rs that  *)
(* runs it as a child before everything else: pyiceberg creates a table of *)
(* its own, appends rows to it and scans them back.                        *)
(*                                                                         *)
(* The append is one step: nobody else commits to the table, and a request *)
(* that is still in flight when the probe dies lands on that table only.   *)
(* An old build of the catalog may refuse the client at any request that   *)
(* changes something; that is no fault.                                    *)
(*                                                                         *)
(* A probe whose parent is killed is taken to die with it.                 *)
(*                                                                         *)
(* Bounds: MaxFaults and MaxOutages, with which the catalog's and the      *)
(* store's failures are counted everywhere, and Names, the millisecond     *)
(* timestamps of which the table's name is one.                            *)
(***************************************************************************)
EXTENDS IcebergCatalog, Warehouse

CONSTANT Names

ASSUME ProbeAssumption == Names # {}

\* A definition that no action uses is a plausible bug in the definition right
\* after it, which the mutants of PROJECT.json put in its place.

VARIABLES
  probe,            \* where the probe's main() is
  tbl,              \* the name of its table
  tables,           \* the tables of its namespace: name -> number of snapshots
  namespace,        \* that namespace exists
  roundtrip,        \* status of the ROUNDTRIP_RESULT line
  snapshots_after   \* its snapshots_after

probeVars == <<probe, tbl, tables, namespace, roundtrip, snapshots_after>>

ProbeTypeOK ==
  /\ probe \in {"spawn", "init", "create_namespace", "drop_table", "create_table",
                "append", "scan", "exited"}
  /\ tbl \in Names
  /\ DOMAIN tables \subseteq Names /\ \A t \in DOMAIN tables : tables[t] \in Nat
  /\ namespace \in BOOLEAN
  /\ roundtrip \in {"none", "ok", "gated", "error"}
  /\ snapshots_after \in Nat

ProbeInit ==
  /\ probe = "spawn"
  /\ tbl \in Names
  /\ tables = [t \in {} |-> 0]
  /\ namespace = FALSE
  /\ roundtrip = "none"
  /\ snapshots_after = 0

-----------------------------------------------------------------------------

\* emit, with the figures of a full round-trip only.
emit(status) == probe' = "exited" /\ roundtrip' = status /\ UNCHANGED snapshots_after

GoesOn(next) == probe' = next /\ UNCHANGED <<roundtrip, snapshots_after>>

otherCatalogVars == <<log, recorded, requests, reading, open, answers, created>>

NoFault == UNCHANGED <<catalogVars, storeVars>>

CatalogFault ==
  /\ faults < MaxFaults
  /\ faults' = faults + 1
  /\ UNCHANGED <<otherCatalogVars, storeVars>>

StoreFault == ReadFails /\ UNCHANGED catalogVars

\* A name by the clock; or there is no interpreter to spawn.
spawn_probe ==
  /\ probe = "spawn"
  /\ GoesOn("init") \/ emit("error")
  /\ tbl' \in Names
  /\ NoFault
  /\ UNCHANGED <<tables, namespace>>

\* GET /v1/config.
init_catalog ==
  /\ probe = "init"
  /\ \/ GoesOn("create_namespace") /\ NoFault
     \/ emit("gated") /\ (NoFault \/ CatalogFault)
  /\ UNCHANGED <<tbl, tables, namespace>>

\* Any exception is a note, whether the namespace exists or the request failed.
probe_create_namespace ==
  /\ probe = "create_namespace"
  /\ \/ namespace' = TRUE /\ NoFault
     \/ namespace' \in {namespace, TRUE} /\ CatalogFault
  /\ GoesOn("drop_table")
  /\ UNCHANGED <<tbl, tables>>

Dropped == [t \in DOMAIN tables \ {tbl} |-> tables[t]]

\* Any exception is ignored, whether there is no such table or the request failed.
drop_table ==
  /\ probe = "drop_table"
  /\ \/ tables' = Dropped /\ NoFault
     \/ tables' \in {tables, Dropped} /\ CatalogFault
  /\ GoesOn("create_table")
  /\ UNCHANGED <<tbl, namespace>>

Created == [t \in DOMAIN tables \cup {tbl} |-> IF t \in DOMAIN tables THEN tables[t] ELSE 0]

AnyTableWillDo == namespace

\* The catalog creates the table in a namespace that exists, unless the name
\* is taken; then pyiceberg raises.
CanCreate == namespace /\ tbl \notin DOMAIN tables

probe_create_table ==
  /\ probe = "create_table"
  /\ \/ /\ CanCreate
        /\ tables' = Created
        /\ GoesOn("append")
        /\ NoFault
     \/ UNCHANGED tables /\ emit("gated") /\ NoFault
     \/ /\ tables' \in {tables} \cup (IF CanCreate THEN {Created} ELSE {})
        /\ emit("gated")
        /\ CatalogFault
  /\ UNCHANGED <<tbl, namespace>>

Appended == [tables EXCEPT ![tbl] = @ + 1]

\* table.append: the files go to the store, then the snapshot is committed.
append ==
  /\ probe = "append"
  /\ \/ tables' = Appended /\ GoesOn("scan") /\ NoFault
     \/ UNCHANGED tables /\ emit("gated") /\ (NoFault \/ StoreFault)
     \/ tables' \in {tables, Appended} /\ emit("gated") /\ CatalogFault
  /\ UNCHANGED <<tbl, namespace>>

\* load_table and scan: an exception here is reported as gated as well.
scan ==
  /\ probe = "scan"
  /\ \/ /\ probe' = "exited"
        /\ roundtrip' = "ok"
        /\ snapshots_after' = tables[tbl]
        /\ NoFault
     \/ emit("gated") /\ (CatalogFault \/ StoreFault)
  /\ UNCHANGED <<tbl, tables, namespace>>

\* No ROUNDTRIP_RESULT line, or one with an exception that main() has not caught.
probe_dies ==
  /\ probe \notin {"spawn", "exited"}
  /\ emit("error")
  /\ NoFault
  /\ UNCHANGED <<tbl, tables, namespace>>

ProbeStep ==
  \/ spawn_probe \/ init_catalog \/ probe_create_namespace \/ drop_table
  \/ probe_create_table \/ append \/ scan \/ probe_dies

ProbeFresh ==
  /\ probe' = "spawn"
  /\ roundtrip' = "none"
  /\ snapshots_after' = 0
=============================================================================
