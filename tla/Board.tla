-------------------------------- MODULE Board --------------------------------
(***************************************************************************)
(* The marks of one round (game/Board.cpp), as functions of a board.       *)
(***************************************************************************)
EXTENDS Integers, FiniteSetsExt

CONSTANTS Width, Height, WinLength, Player, NoOwner

ASSUME BoardAssumption ==
    /\ {Width, Height, WinLength} \subseteq Nat \ {0}
    /\ NoOwner \notin Player

Cell == (0 .. Width - 1) \X (0 .. Height - 1)
Boards == [Cell -> Player \cup {NoOwner}]

\* Board::Reset
EmptyBoard == [c \in Cell |-> NoOwner]

Free(board, c) == board[c] = NoOwner
IsFull(board) == \A c \in Cell : ~Free(board, c)

\* Board::Claim, of a cell that is free.
Claimed(board, c, p) == [board EXCEPT ![c] = p]

Axes == {<<1, 0>>, <<0, 1>>, <<1, 1>>, <<1, -1>>}

\* The k-th cell from c along an axis.
Away(c, axis, k) == <<c[1] + k * axis[1], c[2] + k * axis[2]>>

\* Board::CountRun: marks of p next to each other from c on; sign is the
\* direction along the axis.  Counting stops once a win is certain.
CountRun(board, c, axis, sign, p) ==
    Max({k \in 0..WinLength : \A n \in 1..k : /\ Away(c, axis, sign * n) \in Cell
                                              /\ board[Away(c, axis, sign * n)] = p})

\* Board::CompletesLine, of a cell p has just marked.
CompletesLine(board, c, p) ==
    \E axis \in Axes :
        1 + CountRun(board, c, axis, 1, p) + CountRun(board, c, axis, -1, p) >= WinLength
-----------------------------------------------------------------------------
\* What a line is, wherever it lies: not in the code, which looks only at the
\* lines through the last mark.
HasLine(board, p) ==
    \E c \in Cell, axis \in Axes :
        \A k \in 0 .. WinLength - 1 : Away(c, axis, k) \in Cell /\ board[Away(c, axis, k)] = p
=============================================================================
