-------------------------------- MODULE Borders --------------------------------
(***************************************************************************)
(* Which Borders take deliveries in a round (internal/rules/borders.go):   *)
(* with two players they alternate, Dragnet may seal two more, and one     *)
(* reopens when between them they would shut every one.                    *)
(***************************************************************************)
EXTENDS Integers, FiniteSets

\* Labels A, B, A, B... down the Borders in NodeID order; label A is even.
Label(b, borders) == Cardinality({c \in borders : c < b}) % 2

ActiveBorders(borders, round, players) ==
  IF players # 2 THEN {}
  ELSE {b \in borders : (Label(b, borders) = 0) <=> (round % 2 = 1)}

InactiveBorders(borders, round, players) ==
  IF players # 2 THEN {} ELSE borders \ ActiveBorders(borders, round, players)

Lowest(S) == CHOOSE b \in S : \A c \in S : b <= c

\* Mutant: no safety valve.
BlockedWithoutValve(borders, round, players, sealed) ==
  sealed \cup InactiveBorders(borders, round, players)

\* The union of the two; the lowest Border reopens if it is all of them.
BlockedBorders(borders, round, players, sealed) ==
  LET shut == sealed \cup InactiveBorders(borders, round, players) IN
  IF shut = borders THEN shut \ {Lowest(borders)} ELSE shut
===============================================================================
