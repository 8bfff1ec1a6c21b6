------------------------------ MODULE MCContracts -----------------------------
(***************************************************************************)
(* Small tables for Contracts: two Warehouses (1 and 2) and a Border (3),  *)
(* and for melees a Warehouse (1) and a Border (2).                        *)
(***************************************************************************)
EXTENDS Contracts

MCNodes == {1, 2, 3}
MCPairs == {<<1, 3>>, <<2, 3>>}

MeleeNodes == {1, 2}
MeleePairs == {<<1, 2>>}
===============================================================================
