---------------------------- MODULE MCMembership ----------------------------
(***************************************************************************)
(* Membership with an Owner, a manager and a newcomer; the manager's role  *)
(* may do everything but what is left to the Owner.                        *)
(***************************************************************************)
EXTENDS Membership, TLC

RightsOf == [role \in Custom |-> Permissions \ {"billing:manage"}]

Symmetry == Permutations(Requests)
=============================================================================
