----------------------------- MODULE MCShooting -----------------------------
EXTENDS Shooting

CONSTANTS p1, p2

\* The board of the two smallest modes, with the marks of one player.
Small == INSTANCE Board WITH
    Width <- 3, Height <- 3, WinLength <- 3, Player <- {p1}, NoOwner <- None

\* CompletesLine looks at the last mark only, and finds a line of three exactly
\* when there is one, for every set of marks that had none before.
ASSUME LastMarkDecides ==
    \A marks \in SUBSET Small!Cell : \A c \in Small!Cell \ marks :
        LET before == [d \in Small!Cell |-> IF d \in marks THEN p1 ELSE None]
            after == Small!Claimed(before, c, p1)
        IN  ~Small!HasLine(before, p1) =>
                (Small!CompletesLine(after, c, p1) <=> Small!HasLine(after, p1))
=============================================================================
