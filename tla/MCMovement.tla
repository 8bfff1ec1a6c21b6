------------------------------ MODULE MCMovement ------------------------------
(***************************************************************************)
(* A small board for Movement: a triangle 1-2-3 with a dead end 4 at 3.    *)
(***************************************************************************)
EXTENDS Movement, TLC

MCNodes == 1 .. 4
MCEdges == {{1, 2}, {2, 3}, {1, 3}, {3, 4}}

Fair  == [gas |-> {}, sunk |-> {}]
MCWeathers == {Fair, [gas |-> {3}, sunk |-> {1}]}

Plan(steps, push, stance) == [steps |-> steps, push |-> push, stance |-> stance]

\* One seat with a long plan, one with a short one, one that takes a step at most.
MCPlans ==
  0 :> {Plan(0, 0, "evasive"), Plan(1, 2, "evasive"), Plan(2, 1, "evasive")}
  @@ 1 :> {Plan(0, 0, "aggressive"), Plan(2, 0, "aggressive")}
  @@ 2 :> {Plan(k, 0, "neutral") : k \in 0 .. 1}
===============================================================================
