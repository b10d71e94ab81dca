----------------------------- MODULE MCSessions -----------------------------
(***************************************************************************)
(* Sessions with two tabs and two recovery codes.                          *)
(***************************************************************************)
EXTENDS Sessions, TLC

Symmetry == Permutations(Tabs) \cup Permutations(Requests) \cup Permutations(Codes)

\* Tokens issued since, links and faults are few altogether.
Few == Len(tokens) + link["challenge"].nr + link["reset"].nr + faults <= 4
=============================================================================
