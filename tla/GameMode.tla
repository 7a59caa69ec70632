------------------------------ MODULE GameMode ------------------------------
(***************************************************************************)
(* What an instance relies on in a game mode (IGameMode): a mode that was  *)
(* started plays, ends its match at most once, asks for the instance to be *)
(* closed when it does so by itself, and never plays again.                *)
(***************************************************************************)
EXTENDS Naturals

VARIABLES
    play,       \* "idle", "playing" or "over"
    closes      \* how often the mode asked for the instance to be closed

vars == <<play, closes>>

Init == play = "idle" /\ closes = 0

\* OnStart
Start == play = "idle" /\ play' = "playing" /\ UNCHANGED closes

\* The match is decided, or too few are left.
Complete == play = "playing" /\ play' = "over" /\ closes' = closes + 1

\* OnEnd: the instance closed for a reason of its own.
End == play = "playing" /\ play' = "over" /\ UNCHANGED closes

Next == Start \/ Complete \/ End

Spec == Init /\ [][Next]_vars /\ WF_vars(Complete \/ End)
=============================================================================
