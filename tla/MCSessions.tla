----------------------------- MODULE MCSessions -----------------------------
(* Sessions on small instances, for TLC. *)
EXTENDS Sessions

CONSTANTS a, b, c, none

\* The ids of tabs are interchangeable (no one-shot id among them).
Tabs == Permutations(Ids \ OneShot)
=============================================================================
