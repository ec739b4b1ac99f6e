------------------------------ MODULE FileTable ------------------------------
(***************************************************************************)
(* What a benchmark that writes files around its commits promises of the   *)
(* table and the bucket, without its loops, its answers and its restarts:  *)
(* the table refers to files that are stored, and a file that the table    *)
(* refers to is not changed as long as its writers agree on what it holds. *)
(***************************************************************************)
EXTENDS Naturals

VARIABLES
  stored,      \* the files in the bucket: file |-> content
  referenced,  \* the files that a commit has named
  agreed       \* all writers so far give a file of one name the same content

Init ==
  /\ stored = [g \in {} |-> {}]
  /\ referenced = {}
  /\ agreed = TRUE

\* A file appears, or is written again: with what it holds, if a commit has
\* named it and the writers agree.
Store ==
  \E g \in DOMAIN stored' :
    /\ DOMAIN stored' = DOMAIN stored \cup {g}
    /\ \A h \in DOMAIN stored : h # g \/ (agreed /\ h \in referenced) => stored'[h] = stored[h]
    /\ UNCHANGED <<referenced, agreed>>

\* A commit names files that are stored.
Refer ==
  /\ referenced \subseteq referenced'
  /\ referenced' \subseteq DOMAIN stored
  /\ UNCHANGED <<stored, agreed>>

\* A writer comes that gives the files another content.
Disagree ==
  /\ agreed' = FALSE
  /\ UNCHANGED <<stored, referenced>>

Next == Store \/ Refer \/ Disagree

Spec == Init /\ [][Next]_<<stored, referenced, agreed>>
=============================================================================
