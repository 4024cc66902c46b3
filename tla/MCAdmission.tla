----------------------------- MODULE MCAdmission -----------------------------
(* One client, one route and a path without one. *)
EXTENDS Admission, TLC

CONSTANTS ra, pa, px

MCTarget == pa :> ra @@ px :> NoRoute
Symmetric == Permutations(Request)
=============================================================================
