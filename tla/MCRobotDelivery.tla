-------------------------- MODULE MCRobotDelivery --------------------------
(***************************************************************************)
(* RobotDelivery on a small instance.                                      *)
(***************************************************************************)
EXTENDS RobotDelivery, TLC

CONSTANTS p1, p2, p3, bread

Symmetry == Permutations(Procs)
=============================================================================
