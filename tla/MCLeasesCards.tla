----------------------------- MODULE MCLeasesCards -----------------------------
(***************************************************************************)
(* More rounds for Leases: two at a table whose cap of one post is reached  *)
(* in the first (three posts to one seat would take three), and one under   *)
(* every global card that moves money, Infamy or posts.                     *)
(***************************************************************************)
EXTENDS MCLeases

MCCards == {"none", "permit", "payroll", "shift", "slide", "boss", "raid"}

\* Bound: a second round only where neither it nor the first has a card.
InBounds == round' > 1 => card = "none" /\ card' = "none"
===============================================================================
