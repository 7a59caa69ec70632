------------------------------- MODULE MCChat -------------------------------
EXTENDS Chat

CONSTANTS s1, r1, r2
=============================================================================
