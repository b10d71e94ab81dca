------------------------- MODULE MCChannelInbound -------------------------
(***************************************************************************)
(* ChannelInbound with two customers.  c1 writes m1 and m3, c2 writes m2;  *)
(* m3 may answer one of the workspace's emails.                            *)
(***************************************************************************)
EXTENDS ChannelInbound, TLC

CONSTANTS m1, m2, m3, c1, c2

Writers == (m1 :> c1) @@ (m2 :> c2) @@ (m3 :> c1)

\* The provider puts one message of each customer into the same webhook.
TogetherAndAlone == {<<m1, m2>>, <<m3>>}

\* One customer's messages only, for the run that loses one.
WritersOne == (m1 :> c1) @@ (m3 :> c1)
OneByOne == {<<m1>>, <<m3>>}
=============================================================================
