----------------------------- MODULE MCRouting -----------------------------
(***************************************************************************)
(* Routing with two agents of different limits.                            *)
(***************************************************************************)
EXTENDS Routing, TLC

CONSTANTS a1, a2

Limits == (a1 :> 1) @@ (a2 :> 2)
Symmetry == Permutations(Requests)
=============================================================================
