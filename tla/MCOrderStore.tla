---------------------------- MODULE MCOrderStore ----------------------------
(***************************************************************************)
(* OrderStore on a small instance.                                         *)
(***************************************************************************)
EXTENDS OrderStore, TLC

CONSTANTS p1, p2, p3, bread, milk

Symmetry    == Permutations(Procs) \cup Permutations(Products)
=============================================================================
