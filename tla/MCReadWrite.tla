----------------------------- MODULE MCReadWrite -----------------------------
(* ReadWrite with few and small files: two sizes of a dataset, and the     *)
(* single row that no threshold matches.                                   *)
EXTENDS ReadWrite

MCArgChoices == {[files |-> 2, rows |-> 2], [files |-> 1, rows |-> 3], [files |-> 1, rows |-> 1]}
=============================================================================
