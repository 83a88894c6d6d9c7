----------------------------- MODULE MCSessions -----------------------------
(***************************************************************************)
(* Sessions on a small instance: two users, whose passwords the second     *)
(* run of the script exchanges.                                            *)
(***************************************************************************)
EXTENDS Sessions, TLC

CONSTANTS u1, u2, p1, p2

MCUsers == {u1, u2}
MCPasswordOf ==
    [v \in 1..MaxStarts |->
        IF v % 2 = 1 THEN u1 :> p1 @@ u2 :> p2 ELSE u1 :> p2 @@ u2 :> p1]
=============================================================================
