-------------------------------- MODULE Pipe --------------------------------
(***************************************************************************)
(* What Session promises to those who call Send.  The n-th thing it takes  *)
(* is delivered after those before it, and once.  A batch may be lost, and *)
(* then the connection ends; what is taken after the end may be delivered  *)
(* or not.                                                                 *)
(***************************************************************************)
EXTENDS Integers, Sequences

VARIABLES
    taken,      \* how much Send took
    passed,     \* how much of it was delivered or lost
    delivered,  \* what was delivered, in order
    open

vars == <<taken, passed, delivered, open>>

Init == taken = 0 /\ passed = 0 /\ delivered = <<>> /\ open = TRUE

Take == taken' = taken + 1 /\ UNCHANGED <<passed, delivered, open>>

\* What was taken first goes out together.
Deliver(n) ==
    /\ passed < n /\ n <= taken
    /\ delivered' = delivered \o [i \in 1..(n - passed) |-> passed + i]
    /\ passed' = n
    /\ UNCHANGED <<taken, open>>

Lose(n) ==
    /\ passed < n /\ n <= taken
    /\ passed' = n
    /\ UNCHANGED <<taken, delivered, open>>

Close == open /\ open' = FALSE /\ UNCHANGED <<taken, passed, delivered>>

Next ==
    \/ Take
    \/ \E n \in 1..taken : Deliver(n)
    \/ \E n \in 1..taken : Lose(n)
    \/ Close

HasLost == Len(delivered) < passed

Spec ==
    /\ Init /\ [][Next]_vars
    /\ WF_vars(HasLost /\ Close)
=============================================================================
