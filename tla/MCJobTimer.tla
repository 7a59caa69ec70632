----------------------------- MODULE MCJobTimer -----------------------------
EXTENDS JobTimer

CONSTANTS w1, w2, q1, q2, a, b, c

MCTargetOf == (a :> q1) @@ (b :> q1) @@ (c :> q2)
MCDelay == (a :> 0) @@ (b :> 1)
=============================================================================
