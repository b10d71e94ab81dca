----------------------------- MODULE MCBotTurns -----------------------------
(***************************************************************************)
(* BotTurns with one chatbot: it asks, and the answers lead to a colleague *)
(* or round in a circle of messages.                                       *)
(***************************************************************************)
EXTENDS BotTurns, TLC

CONSTANTS f1, ask, round, hand

FlowsOf == [s \in Steps |-> f1]
Kinds == (ask :> "question") @@ (round :> "message") @@ (hand :> "handoff")
Arrows == (ask :> {round, hand}) @@ (round :> {round, ask}) @@ (hand :> {None})
Starts == [f \in Flows |-> ask]

\* An editor saves the drawing as it was, or only where it starts.
AllOrLess == {Steps, {ask}}

Symmetry == Permutations(Turns)
=============================================================================
