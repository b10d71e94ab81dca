--------------------------- MODULE MCConversation ---------------------------
(***************************************************************************)
(* Conversation on small instances.  Requests and keys are interchangeable *)
(* in the specification, and so are agents.                                *)
(***************************************************************************)
EXTENDS Conversation, TLC

Symmetry == Permutations(Requests) \cup Permutations(Keys) \cup Permutations(Agents)
=============================================================================
