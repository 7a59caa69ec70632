----------------------------- MODULE MCJobQueue -----------------------------
EXTENDS JobQueue, TLC

CONSTANTS w1, w2, w3, q1, q2, j1, j2, j3, j4

MCTargetOf == (j1 :> q1) @@ (j2 :> q1) @@ (j3 :> q2) @@ (j4 :> q2) 
=============================================================================
