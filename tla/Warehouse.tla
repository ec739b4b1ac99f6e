------------------------------ MODULE Warehouse ------------------------------
(***************************************************************************)
(* The warehouse bucket on MinIO/S3, under the one prefix that a benchmark *)
(* uses, and Sail's CachingObjectStore in front of it.  Neither is part of *)
(* the repository: this is what the benchmarks use of object_store and of  *)
(* sail_object_store, and every definition here is external.               *)
(*                                                                         *)
(* The content of a file is the set of the row ids it holds.  A PUT        *)
(* replaces an object at once when it lands, and it may land after the     *)
(* process that sent it has died.                                          *)
(*                                                                         *)
(* Bound: MaxOutages, how often a request to the store fails.              *)
(***************************************************************************)
EXTENDS Naturals, FiniteSets

CONSTANT MaxOutages

ASSUME WarehouseAssumption == MaxOutages \in Nat

VARIABLES
  objects,   \* the files in the store: file |-> content
  uploads,   \* PUTs sent and not landed: [run, file, content]
  outages    \* how many requests have failed

storeVars == <<objects, uploads, outages>>

\* A listing with the content of each file: what a scan of the prefix reads.
Contents(files) == {<<g, files[g]>> : g \in DOMAIN files}

Overwrite(files, g, content) ==
  [h \in DOMAIN files \cup {g} |-> IF h = g THEN content ELSE files[h]]

StoreTypeOK(Files) ==
  /\ DOMAIN objects \subseteq Files
  /\ \A g \in DOMAIN objects : objects[g] \in SUBSET Nat
  /\ uploads \in SUBSET [run : Nat, file : Files, content : SUBSET Nat]
  /\ outages \in Nat

StoreInit ==
  /\ objects = [g \in {} |-> {}]
  /\ uploads = {}
  /\ outages = 0

Upload(up) ==
  /\ uploads' = uploads \cup {up}
  /\ UNCHANGED <<objects, outages>>

Lands(up) ==
  /\ objects' = Overwrite(objects, up.file, up.content)
  /\ uploads' = uploads \ {up}
  /\ UNCHANGED outages

\* The client is told that a PUT failed, which may land nonetheless.
UploadFails(up) ==
  /\ outages < MaxOutages
  /\ outages' = outages + 1
  /\ uploads' \in {uploads, uploads \ {up}}
  /\ UNCHANGED objects

ReadFails ==
  /\ outages < MaxOutages
  /\ outages' = outages + 1
  /\ UNCHANGED <<objects, uploads>>

\* What a scan through the cache sees of the files it lists, and what the
\* cache holds afterwards: a file that is cached is not fetched again.
Through(cache, listed) ==
  [g \in listed |-> IF g \in DOMAIN cache THEN cache[g] ELSE objects[g]]

Filled(cache, listed) ==
  [g \in DOMAIN cache \cup listed |-> IF g \in DOMAIN cache THEN cache[g] ELSE objects[g]]

\* A cached file is no longer the one in the store, whose size a listing gives.
Outdated(cache) == \E g \in DOMAIN cache \cap DOMAIN objects : cache[g] # objects[g]

StoreNext == \E up \in uploads : Lands(up)
=============================================================================
