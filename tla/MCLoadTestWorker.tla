-------------------------- MODULE MCLoadTestWorker --------------------------
(***************************************************************************)
(* LoadTestWorker on a small instance, its requests all of one team.      *)
(***************************************************************************)
EXTENDS LoadTestWorker, TLC

CONSTANTS w1, w2, r1, r2, red

MCTeamOf(r) == red

Symmetry == Permutations(Workers) \cup Permutations(Requests)
=============================================================================
