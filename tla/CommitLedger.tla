---------------------------- MODULE CommitLedger ----------------------------
(***************************************************************************)
(* What the commit benchmark promises about the number it prints, without  *)
(* its writers, phases, faults and restarts: work is done (landed), done   *)
(* work is counted at most once (counted, total), and when the result of a *)
(* run is published it is the total, and stays so until the next run,      *)
(* which starts to count from nothing.                                     *)
(***************************************************************************)
EXTENDS Naturals

VARIABLES landed,     \* the calls whose work has been done
          counted,    \* those of the current run that have been counted
          total,      \* how many that are
          published   \* {} or the published number alone

ledgerVars == <<landed, counted, total, published>>

Init == landed = {} /\ counted = {} /\ total = 0 /\ published = {}

\* Work may be done at any time, by a call that was given up included.
Land ==
  /\ \E c \in landed' : landed' = landed \cup {c}
  /\ UNCHANGED <<counted, total, published>>

Count ==
  /\ published = {}
  /\ \E c \in landed \ counted : counted' = counted \cup {c}
  /\ total' = total + 1
  /\ UNCHANGED <<landed, published>>

Publish ==
  /\ published = {}
  /\ published' = {total}
  /\ UNCHANGED <<landed, counted, total>>

NewRun ==
  /\ counted' = {}
  /\ total' = 0
  /\ published' = {}
  /\ UNCHANGED landed

Next == Land \/ Count \/ Publish \/ NewRun

Spec == Init /\ [][Next]_ledgerVars
=============================================================================
