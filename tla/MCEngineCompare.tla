--------------------------- MODULE MCEngineCompare ---------------------------
(* EngineCompare with a dataset of two small files, asked for with and     *)
(* without --rewrite, and a second size of it.                             *)
EXTENDS EngineCompare

MCArgChoices == {[files |-> 2, rows |-> 2, rewrite |-> FALSE],
                 [files |-> 2, rows |-> 2, rewrite |-> TRUE],
                 [files |-> 1, rows |-> 1, rewrite |-> TRUE]}
=============================================================================
