------------------------------- MODULE MCLeases -------------------------------
(***************************************************************************)
(* A small table for Leases: three nodes in two sectors, amounts small     *)
(* enough that every charge can find its seat broke.                       *)
(***************************************************************************)
EXTENDS Leases

MCNodes    == {0, 1, 2}
MCSectorOf == [n \in MCNodes |-> n \div 2]

TwoNodes    == {0, 1}
TwoSectorOf == [n \in TwoNodes |-> 0]
===============================================================================
