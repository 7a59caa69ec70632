----------------------------- MODULE MCInstance -----------------------------
EXTENDS Instance, TLC

CONSTANTS p1, p2

\* A match of two, and one of them in a match of its own.
Rosters == 1 :> {p1, p2} @@ 2 :> {p1}
=============================================================================
