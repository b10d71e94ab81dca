-------------------------- MODULE MCProactiveChat --------------------------
(***************************************************************************)
(* ProactiveChat with two agents who click.                                *)
(***************************************************************************)
EXTENDS ProactiveChat, TLC
=============================================================================
