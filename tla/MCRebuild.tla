------------------------------- MODULE MCRebuild ------------------------------
(***************************************************************************)
(* Two seats and two cmd/replay processes.  One seat may resubmit another  *)
(* order while the round is open.                                          *)
(***************************************************************************)
EXTENDS Rebuild, TLC

OneRedraft == [s \in Seats |-> IF s = 0 THEN {1, 2} ELSE {1}]
NoRedraft  == [s \in Seats |-> {1}]

\* For the run with no liveness property.
AnyRebuilder == Permutations(Rebuilders)
===============================================================================
