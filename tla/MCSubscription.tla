--------------------------- MODULE MCSubscription ---------------------------
(***************************************************************************)
(* Subscription with two requests at a time.  No invariant but TypeOK says *)
(* anything once a fault or an overtaken request lost hold of a            *)
(* subscription, so that TLC goes no further there.                        *)
(***************************************************************************)
EXTENDS Subscription, TLC

Explored == ~overtaken
Symmetry == Permutations(Requests)
=============================================================================
