----------------------------- MODULE MCListing -----------------------------
(***************************************************************************)
(* Listing on a small instance: histories of up to two orders.             *)
(***************************************************************************)
EXTENDS Listing

MCHistories == UNION {[1..len -> Products] : len \in 0..2}
=============================================================================
