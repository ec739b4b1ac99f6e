----------------------------- MODULE MCWriteData -----------------------------
(* WriteData with few and small files: two starts with the same rows and   *)
(* other numbers of files, and one with larger files.                      *)
EXTENDS WriteData

MCArgChoices == {[warmup |-> 5, iterations |-> 4, rows |-> 2],
                 [warmup |-> 1, iterations |-> 2, rows |-> 2],
                 [warmup |-> 0, iterations |-> 2, rows |-> 3]}
=============================================================================
