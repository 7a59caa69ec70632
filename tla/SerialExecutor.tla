--------------------------- MODULE SerialExecutor ---------------------------
(***************************************************************************)
(* What a JobQueue promises its owner (a room, a chat channel, an          *)
(* instance): work accepted for one object runs one piece at a time, in    *)
(* the order it was accepted, exactly once, and all of it eventually runs. *)
(* Nothing here knows about workers, counters or parked queues: those are  *)
(* how JobQueue.tla keeps the promise.                                     *)
(***************************************************************************)
EXTENDS Sequences

CONSTANTS Queue, Job, TargetOf

VARIABLES
    backlog,   \* queue -> jobs accepted and not finished; its head is the one that may run
    finished   \* jobs whose body has returned

vars == <<backlog, finished>>

Accepted == finished \cup UNION {{backlog[q][i] : i \in DOMAIN backlog[q]} : q \in Queue}

Init ==
    /\ backlog = [q \in Queue |-> <<>>]
    /\ finished = {}

\* A new piece of work is accepted at the back of its object's backlog.
Accept(j) ==
    /\ j \notin Accepted
    /\ backlog' = [backlog EXCEPT ![TargetOf[j]] = Append(@, j)]
    /\ UNCHANGED finished

\* The oldest unfinished piece of work of an object, and no other, finishes.
Finish(q) ==
    /\ backlog[q] # <<>>
    /\ finished' = finished \cup {Head(backlog[q])}
    /\ backlog' = [backlog EXCEPT ![q] = Tail(@)]

Next == (\E j \in Job : Accept(j)) \/ (\E q \in Queue : Finish(q))

Spec == Init /\ [][Next]_vars /\ \A q \in Queue : WF_vars(Finish(q))
=============================================================================
